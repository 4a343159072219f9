---------------------------- MODULE RCAContract ----------------------------
(***************************************************************************)
(* What an analysis promises whoever calls engine.analyze: rounds of       *)
(* investigation that never take a node twice and never more than TopK     *)
(* nodes at a time, then one answer, which is final and names only nodes   *)
(* that were investigated.                                                 *)
(***************************************************************************)
EXTENDS Integers, FiniteSets

CONSTANTS Node, TopK

VARIABLES
  investigated,   \* the nodes taken so far
  answer          \* Pending, or the verdict and the root causes it names

contractVars == <<investigated, answer>>

Pending == [verdict |-> "pending", roots |-> {}]

Init == investigated = {} /\ answer = Pending

Round ==
  /\ answer = Pending
  /\ \E batch \in SUBSET (Node \ investigated) :
       /\ batch # {}
       /\ Cardinality(batch) <= TopK
       /\ investigated' = investigated \cup batch
  /\ UNCHANGED answer

(* How many root causes a verdict names. *)
Arity(verdict) ==
  CASE verdict = "root_cause_found"    -> {1}
    [] verdict = "multi_factor"        -> {2}
    [] verdict = "top_hypotheses"      -> {1, 2, 3}
    [] verdict = "no_root_cause_found" -> {0}

Answer ==
  /\ answer = Pending
  /\ \E verdict \in {"root_cause_found", "multi_factor", "top_hypotheses",
                     "no_root_cause_found"},
        roots \in SUBSET investigated :
       /\ Cardinality(roots) \in Arity(verdict)
       /\ answer' = [verdict |-> verdict, roots |-> roots]
  /\ UNCHANGED investigated

Next == Round \/ Answer

Spec == Init /\ [][Next]_contractVars
============================================================================
