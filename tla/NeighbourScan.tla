--------------------------- MODULE NeighbourScan ---------------------------
(***************************************************************************)
(* Stage 3b of the pipeline (reasoning/neighbour_scan.py): the signal      *)
(* check on the callers and callees of a node under investigation.         *)
(*                                                                         *)
(* A node's telemetry in the incident window is a record of what           *)
(* _scan_neighbour reads from it:                                          *)
(*   spans   - it has spans in the window                                  *)
(*   errors  - one of them has otel_status_code 2                          *)
(*   codes   - the HTTP status codes they carry                            *)
(*   timeout - an error.type names a timeout or a connection               *)
(*   metric  - it has an ERROR_RATE or LATENCY_P99 sample in the window    *)
(*   change  - it is a service changed in the 60 minutes before the start  *)
(***************************************************************************)
EXTENDS Integers

HttpCode == {200, 429, 500, 503}
HTTP_ERROR_STATUS_CODES == {503, 429}
HTTP_SUCCESS_STATUS_CODE == 200

(* What a span-derived signal says is false of a node without spans. *)
Telemetry ==
  {t \in [spans : BOOLEAN, errors : BOOLEAN, codes : SUBSET HttpCode,
          timeout : BOOLEAN, metric : BOOLEAN, change : BOOLEAN] :
     ~t.spans => ~t.errors /\ t.codes = {} /\ ~t.timeout}

NoSignal == "none"
HintSignal == {"error_code_pattern", "silent_degradation", "change_event",
               "missing_telemetry", "sub_threshold_metric", "span_errors"}

----------------------------------------------------------------------------
(* A callee that answers 200 without errors while its caller fails. *)
IsSilentDegradation(candidateHasErrors, t) ==
  /\ candidateHasErrors
  /\ t.spans
  /\ HTTP_SUCCESS_STATUS_CODE \in t.codes
  /\ ~t.errors

(* The decision table of _scan_neighbour, in the priority of its branches. *)
StrongSignal(isSuccessor, candidateHasErrors, t) ==
  IF t.codes \cap HTTP_ERROR_STATUS_CODES # {} \/ t.timeout THEN "error_code_pattern"
  ELSE IF isSuccessor /\ IsSilentDegradation(candidateHasErrors, t)
       THEN "silent_degradation"
  ELSE IF t.change /\ t.errors THEN "change_event" ELSE NoSignal

ModerateSignal(t) ==
  IF ~t.metric /\ t.errors THEN "missing_telemetry"
  ELSE IF t.change /\ t.metric THEN "sub_threshold_metric"
  ELSE IF t.errors THEN "span_errors" ELSE NoSignal

ScanNeighbour(isSuccessor, candidateHasErrors, t) ==
  LET strong == StrongSignal(isSuccessor, candidateHasErrors, t)
  IN  IF strong # NoSignal THEN strong ELSE ModerateSignal(t)

----------------------------------------------------------------------------
(* The hints scan() returns for candidate c: its callers, then its callees,
   without c itself and without the nodes already investigated. *)
Scan(c, calls, telemetry, already) ==
  LET candidateHasErrors == telemetry[c].errors
      Neighbours(isSuccessor) ==
        {n \in DOMAIN telemetry \ (already \cup {c}) :
           /\ (IF isSuccessor THEN <<c, n>> ELSE <<n, c>>) \in calls
           /\ ScanNeighbour(isSuccessor, candidateHasErrors, telemetry[n]) # NoSignal}
      Hint(n, isSuccessor) ==
        [node |-> n, by |-> c, successor |-> isSuccessor,
         signal |-> ScanNeighbour(isSuccessor, candidateHasErrors, telemetry[n])]
  IN  {Hint(n, FALSE) : n \in Neighbours(FALSE)}
        \cup {Hint(n, TRUE) : n \in Neighbours(TRUE)}
============================================================================
