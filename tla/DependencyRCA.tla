--------------------------- MODULE DependencyRCA ---------------------------
(***************************************************************************)
(* What the dependency engine makes of an incident: investigate in         *)
(* dependency.py.                                                          *)
(*                                                                         *)
(* An incident d has the callers the graph knows and the spans whose       *)
(* peer.service names the dependency.  Each has an emitter, which need not *)
(* be one of those callers.                                                *)
(***************************************************************************)
EXTENDS EngineEvidence

Calls(d) == {i \in DOMAIN d.calls : InWindow(d.calls[i])}

Affected(d) == {d.calls[i].emitter : i \in {j \in Calls(d) : d.calls[j].error}}

(* Codes that are not numbers are none. *)
WithStatus(d, code) == {i \in Calls(d) : d.calls[i].status = code}

FiveXX(d) == {d.calls[i].status : i \in Calls(d)} \cap 500..599

MostCommon(d) ==
  CHOOSE c \in FiveXX(d) :
    \A e \in FiveXX(d) : Cardinality(WithStatus(d, c)) >= Cardinality(WithStatus(d, e))

HttpError(d) ==
  Item("http_error_pattern",
       IF 2 * Cardinality(WithStatus(d, MostCommon(d))) >= Cardinality(Calls(d))
       THEN "STRONG" ELSE "MODERATE")

AllCallersAffected(d) ==
  d.callers # {} /\ Cardinality(Affected(d)) = Cardinality(d.callers)

(* Counts are compared, and none affected is "partial" too. *)
CallerScope(d) ==
  Item("all_callers_affected",
       IF d.callers = {} THEN "WEAK"
       ELSE IF AllCallersAffected(d) THEN "STRONG" ELSE "MODERATE")

DependencyEvidence(d) ==
  (IF FiveXX(d) # {} THEN <<HttpError(d)>> ELSE <<>>)
    \o <<CallerScope(d)>>
    \o (IF Calls(d) = {} THEN <<Missing>> ELSE <<>>)

TimesOut(d) == \E i \in Calls(d) : d.calls[i].timeout

(* Mutant: calls are counted from any time. *)
DependencyTypeAnyTime(d) ==
  IF FiveXX(d) # {} THEN "UPSTREAM_OUTAGE"
  ELSE IF \E i \in DOMAIN d.calls : d.calls[i].status = 429 THEN "RATE_LIMITED"
  ELSE IF \E i \in DOMAIN d.calls : d.calls[i].timeout THEN "TIMEOUT"
  ELSE "EXTERNAL_DEP_FAILURE"

DependencyType(d) ==
  IF FiveXX(d) # {} THEN "UPSTREAM_OUTAGE"
  ELSE IF WithStatus(d, 429) # {} THEN "RATE_LIMITED"
  ELSE IF TimesOut(d) THEN "TIMEOUT"
  ELSE "EXTERNAL_DEP_FAILURE"

PRIORITY_BOOST_ALL_CALLERS == 15
PRIORITY_BOOST_PARTIAL == 5
PRIORITY_PENALTY_NO_EVIDENCE == 10

DependencyPriority(priority, d) ==
  IF DependencyType(d) = "EXTERNAL_DEP_FAILURE"
    THEN Lowered(priority, PRIORITY_PENALTY_NO_EVIDENCE)
  ELSE IF AllCallersAffected(d) THEN Raised(priority, PRIORITY_BOOST_ALL_CALLERS)
  ELSE Raised(priority, PRIORITY_BOOST_PARTIAL)
=============================================================================
