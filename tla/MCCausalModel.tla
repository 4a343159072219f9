--------------------------- MODULE MCCausalModel ---------------------------
(***************************************************************************)
(* Every DAG on four nodes, up to renaming: each is a set of edges that    *)
(* follow one order of its nodes.  Every node either fails or is healthy;  *)
(* readings at the thresholds, slow nodes and silent ones are added on one *)
(* graph with two paths, where metrics also name a node that the graph     *)
(* does not hold.  One graph has a cycle.                                  *)
(***************************************************************************)
EXTENDS CausalModel

InGraph == 1..4
MCNode == 0..4
MCCandidates == <<3, 1, 4, 2>>

Samples(e, l, be, bl) == [err |-> e, lat |-> l, baseErr |-> be, baseLat |-> bl]

Healthy == Samples(1, 100, 1, 100)
Failing == Samples(40, 100, 1, 100)
Slow == Samples(Absent, 400, Absent, 100)
AtThreshold == Samples(2, 200, 1, 100)
PastThreshold == Samples(2, 201, 1, 100)
Silent == Samples(Absent, Absent, 1, 100)
Fresh == Samples(3, 50, Absent, Absent)
Down == Samples(100, Absent, 0, 0)

Ordered == {e \in InGraph \X InGraph : e[1] < e[2]}
Diamond == {<<1, 2>>, <<1, 3>>, <<2, 4>>, <<3, 4>>, <<1, 4>>}
Cycle == {<<1, 2>>, <<2, 3>>, <<3, 2>>}

Even == [e \in MCNode \X MCNode |-> 5]
Uneven == [e \in MCNode \X MCNode |-> IF e[1] = 1 THEN 10 ELSE e[2]]

Analysed(calls, weight, outside, readings) ==
  {[nodes |-> InGraph, calls |-> calls, weight |-> weight,
    reading |-> [n \in MCNode |-> IF n = 0 THEN outside ELSE r[n]]] : r \in readings}

MCIncidents ==
  UNION {Analysed(c, Even, Silent, [InGraph -> {Healthy, Failing}]) : c \in SUBSET Ordered}
  \cup Analysed(Diamond, Uneven, Healthy, [InGraph -> {Slow, AtThreshold, Fresh, Down}])
  \cup Analysed(Diamond, Uneven, Healthy, [InGraph -> {AtThreshold, PastThreshold}])
  \cup Analysed(Diamond, Uneven, Failing, [InGraph -> {Silent, Failing}])
  \cup Analysed(Cycle, Even, Silent, {[n \in InGraph |-> Failing]})
============================================================================
