-------------------------- MODULE EngineEvidence --------------------------
(***************************************************************************)
(* What the database and dependency engines share: evidence items, the     *)
(* incident window, and the outcome of an investigation.                   *)
(***************************************************************************)
EXTENDS Integers, Sequences, FiniteSets

INCIDENT_WINDOW_SECONDS == 300

(* Mutant: the window has no end. *)
InWindowOpenEnded(event) == event.at >= 0

(* Times are in seconds after the start of the incident. *)
InWindow(event) == event.at \in 0..INCIDENT_WINDOW_SECONDS

Item(signal, strength) == [signal |-> signal, strength |-> strength]

(* Mutant: a boost is not capped. *)
RaisedUncapped(priority, by) == priority + by

(* Priorities are in hundredths. *)
Raised(priority, by) == IF priority + by > 100 THEN 100 ELSE priority + by

Lowered(priority, by) == IF priority < by THEN 0 ELSE priority - by

HasStrength(evidence, strength) ==
  \E i \in DOMAIN evidence : evidence[i].strength = strength

Has(evidence, signal) == \E i \in DOMAIN evidence : evidence[i].signal = signal

(* make_missing_telemetry_evidence *)
Missing == Item("missing_telemetry", "MODERATE")
=============================================================================
