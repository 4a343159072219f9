---------------------------- MODULE CausalModel ----------------------------
(***************************************************************************)
(* Stage 2 of the pipeline: causal_model.rank_candidates.  For each        *)
(* candidate in turn it simulates the failure forward, from callee to      *)
(* caller, asks counterfactually what the other roots still explain, and   *)
(* compares the prediction with what was observed; then it ranks.          *)
(*                                                                         *)
(* Both graph walks are taken one queue element at a time.  The callers of *)
(* a node, and the elements of the counterfactual's queue, which starts    *)
(* from a set, are taken in any order.                                     *)
(*                                                                         *)
(* Two inputs make it raise: a graph with a cycle, and an anomalous node   *)
(* that the graph does not hold.                                           *)
(* Fractions are in thousandths, rounded down; latencies relative to the   *)
(* baseline are in tenths.                                                 *)
(***************************************************************************)
EXTENDS Integers, Sequences, FiniteSets, SequencesExt

CONSTANTS
  Node,         \* what metrics or the graph may name
  Incidents,    \* the graphs, edge weights and metric readings analysed
  Candidates,   \* localize's candidates, in its order
  TopK

(* The mean of a node's samples in the window, and of its baseline; a node
   without such samples has Absent. *)
Absent == -1
Reading == [err : Nat \cup {Absent}, lat : Nat \cup {Absent},
            baseErr : Nat \cup {Absent}, baseLat : Nat \cup {Absent}]

(* No edge leads back: rank_candidates asserts that the graph is a DAG. *)
Acyclic(E) ==
  \A S \in SUBSET Node :
    S # {} => \E n \in S : \A m \in S : <<n, m>> \notin E

(* A graph, the propagation weight of each edge in tenths, and what the
   metrics say of each node. *)
Incident ==
  [nodes : SUBSET Node, calls : SUBSET (Node \X Node),
   weight : [Node \X Node -> 0..10], reading : [Node -> Reading]]

ASSUME CausalAssumption ==
  /\ IsFiniteSet(Node)
  /\ \A i \in Incidents :
       i \in Incident /\ i.calls \subseteq i.nodes \X i.nodes
  /\ Candidates \in Seq(Node)
  /\ \A i \in Incidents, c \in DOMAIN Candidates : Candidates[c] \in i.nodes
  /\ \A i, j \in DOMAIN Candidates : Candidates[i] = Candidates[j] => i = j
  /\ TopK \in Nat \ {0}

VARIABLES
  inc,         \* the incident: graph, edge weights, metrics
  pc,
  index,       \* the candidate being assessed, by position
  impacts,     \* node_impacts by node; its domain is the visited set
  queue,       \* the simulation's queue
  explained,   \* explained_nodes
  frontier,    \* the counterfactual's queue
  assessed,    \* the confidences computed so far, by position
  ranking      \* the result

vars == <<inc, pc, index, impacts, queue, explained, frontier, assessed, ranking>>

----------------------------------------------------------------------------
(* Observed impacts *)

reading(n) == inc.reading[n]

Observed == {n \in Node : reading(n).err # Absent \/ reading(n).lat # Absent}

OrZero(v) == IF v = Absent THEN 0 ELSE v

ErrorRate(n) == OrZero(reading(n).err)

(* A latency that cannot be compared counts as the baseline. *)
LatencyTenths(n) ==
  IF reading(n).lat = Absent \/ OrZero(reading(n).baseLat) = 0 THEN 10
  ELSE (10 * reading(n).lat) \div reading(n).baseLat

IsErrorAnomalous(n) ==
  ErrorRate(n) > 2 * OrZero(reading(n).baseErr) /\ ErrorRate(n) > 1

IsLatencyAnomalous(n) ==
  /\ reading(n).lat # Absent /\ OrZero(reading(n).baseLat) # 0
  /\ reading(n).lat > 2 * reading(n).baseLat

Anomalous == {n \in Observed : IsErrorAnomalous(n) \/ IsLatencyAnomalous(n)}

----------------------------------------------------------------------------
(* Forward simulation *)

Least(a, b) == IF a < b THEN a ELSE b
Most(a, b) == IF a > b THEN a ELSE b
Distance(a, b) == IF a < b THEN b - a ELSE a - b

One == 1000

(* The stronger of the two signals; neutral when there is none. *)
Severity(n) ==
  LET errors  == Least(One, 10 * ErrorRate(n))
      latency == IF LatencyTenths(n) > 10 THEN Least(One, 20 * (LatencyTenths(n) - 10)) ELSE 0
      signal  == Most(errors, latency)
  IN  IF n \notin Observed \/ signal = 0 THEN One \div 2 ELSE signal

Callers(n) == {p \in Node : <<p, n>> \in inc.calls}

Attenuated(severity, edge) == (severity * inc.weight[edge]) \div 10

Candidate == Candidates[index]

Init ==
  /\ inc \in Incidents
  /\ pc = "start"
  /\ index = 1
  /\ impacts = <<>>
  /\ queue = <<>>
  /\ explained = {}
  /\ frontier = {}
  /\ assessed = <<>>
  /\ ranking = <<>>

Start ==
  /\ pc = "start"
  /\ pc' = IF Acyclic(inc.calls) THEN "assess" ELSE "raised"
  /\ UNCHANGED <<inc, index, impacts, queue, explained, frontier, assessed, ranking>>

Assess ==
  /\ pc = "assess"
  /\ index <= Len(Candidates)
  /\ impacts' = [n \in {Candidate} |-> [hop |-> 0, severity |-> Severity(n)]]
  /\ queue' = <<Candidate>>
  /\ pc' = "simulate"
  /\ UNCHANGED <<inc, index, explained, frontier, assessed, ranking>>

(* Mutant: the visited check is dropped. *)
UnreachedAgain(n) == Callers(n)

Unreached(n) == Callers(n) \ DOMAIN impacts

(* One turn of the simulation: the callers of the next node that are not
   reached yet are hit, one hop further on. *)
Propagate ==
  /\ pc = "simulate"
  /\ queue # <<>>
  /\ LET current == Head(queue)
         fresh == Unreached(current)
         hit(n) == [hop |-> impacts[current].hop + 1,
                    severity |-> Attenuated(impacts[current].severity, <<n, current>>)]
     IN  /\ \E order \in SetToSeqs(fresh) : queue' = Tail(queue) \o order
         /\ impacts' = [n \in DOMAIN impacts \cup fresh |->
                          IF n \in fresh THEN hit(n) ELSE impacts[n]]
  /\ UNCHANGED <<inc, pc, index, explained, frontier, assessed, ranking>>

----------------------------------------------------------------------------
(* Counterfactual: what do the other roots explain without the candidate? *)

(* Mutant: a node is an origin when no other anomalous node calls it. *)
OriginCandidatesReversed ==
  {n \in Anomalous : \A m \in Anomalous : <<m, n>> \notin inc.calls}

(* Anomalous nodes without an anomalous callee. *)
OriginCandidates ==
  {n \in Anomalous : \A m \in Anomalous : <<n, m>> \notin inc.calls}

Remaining == Anomalous \ {Candidate}

Suppose ==
  /\ pc = "simulate"
  /\ queue = <<>>
  /\ Anomalous \subseteq inc.nodes
  /\ explained' = OriginCandidates \cap Remaining
  /\ frontier' = OriginCandidates \cap Remaining
  /\ pc' = "explain"
  /\ UNCHANGED <<inc, index, impacts, queue, assessed, ranking>>

(* networkx raises on the callees of a node that the graph does not hold. *)
SupposeOutsideGraph ==
  /\ pc = "simulate"
  /\ queue = <<>>
  /\ ~ Anomalous \subseteq inc.nodes
  /\ pc' = "raised"
  /\ UNCHANGED <<inc, index, impacts, queue, explained, frontier, assessed, ranking>>

(* Mutant: the walk may pass through the removed candidate. *)
ExplainableThroughCandidate(n) == (Callers(n) \cap Anomalous) \ explained

Explainable(n) == (Callers(n) \cap Remaining) \ explained

Explain ==
  /\ pc = "explain"
  /\ \E current \in frontier :
       /\ explained' = explained \cup Explainable(current)
       /\ frontier' = (frontier \ {current}) \cup Explainable(current)
  /\ UNCHANGED <<inc, pc, index, impacts, queue, assessed, ranking>>

(* Mutant: no anomaly at all counts as no residual, full confidence. *)
ConfidenceWithoutAnomalies ==
  IF Anomalous = {} THEN One
  ELSE (One * Cardinality(Anomalous \ explained)) \div Cardinality(Anomalous)

(* 1 - residual: the share of the anomalies that nothing else explains. *)
Confidence ==
  IF Anomalous = {} THEN 0
  ELSE (One * Cardinality(Anomalous \ explained)) \div Cardinality(Anomalous)

----------------------------------------------------------------------------
(* Fit, and the ranking *)

(* Mutant: the error of a prediction is not capped. *)
RelativeErrorUncapped(predicted, observed, floor) ==
  (One * Distance(predicted, observed)) \div Most(floor, observed)

RelativeError(predicted, observed, floor) ==
  Least(One, (One * Distance(predicted, observed)) \div Most(floor, observed))

NodeError(n) ==
  IF n \notin DOMAIN impacts THEN One
  ELSE LET s == impacts[n].severity
       IN  (7 * RelativeError(s, 10 * ErrorRate(n), 10)
              + 3 * RelativeError(10 + s \div 20, LatencyTenths(n), 10)) \div 10

Fit ==
  IF Observed = {} THEN One \div 2
  ELSE One - FoldSet(LAMBDA n, sum : NodeError(n) + sum, 0, Observed)
               \div Cardinality(Observed)

Record ==
  /\ pc = "explain"
  /\ frontier = {}
  /\ assessed' = Append(assessed,
       [node |-> Candidate, explained |-> explained,
        hops |-> [n \in DOMAIN impacts |-> impacts[n].hop],
        confidence |-> Confidence, fit |-> Fit,
        causal |-> (6 * Fit + 4 * Confidence) \div 10])
  /\ index' = index + 1
  /\ pc' = "assess"
  /\ UNCHANGED <<inc, impacts, queue, explained, frontier, ranking>>

(* sort() is stable: candidates of equal confidence keep their order. *)
Before(i, j) ==
  \/ assessed[i].causal > assessed[j].causal
  \/ assessed[i].causal = assessed[j].causal /\ i < j

Sorted ==
  CHOOSE o \in [1..Len(assessed) -> 1..Len(assessed)] :
    \A i, j \in 1..Len(assessed) : i < j => Before(o[i], o[j])

Rank ==
  /\ pc = "assess"
  /\ index > Len(Candidates)
  /\ ranking' = [i \in 1..Least(TopK, Len(assessed)) |-> assessed[Sorted[i]].node]
  /\ pc' = "done"
  /\ UNCHANGED <<inc, index, impacts, queue, explained, frontier, assessed>>

Ended == pc \in {"done", "raised"} /\ UNCHANGED vars

Next == \/ Start \/ Assess \/ Propagate
        \/ Suppose \/ SupposeOutsideGraph \/ Explain
        \/ Record \/ Rank \/ Ended

Spec == Init /\ [][Next]_vars

----------------------------------------------------------------------------
(* Properties *)

(* Severities, confidences, fits and the ranking score stay within [0, 1], and
   each walk queues nodes it has reached only (causal_model.py: the clamps). *)
TypeOK ==
  /\ inc \in Incident
  /\ pc \in {"start", "assess", "simulate", "explain", "done", "raised"}
  /\ index \in 1..Len(Candidates) + 1
  /\ DOMAIN impacts \subseteq Node
  /\ \A n \in DOMAIN impacts :
       impacts[n] \in [hop : 0..Cardinality(Node), severity : 0..One]
  /\ \A i \in DOMAIN queue : queue[i] \in DOMAIN impacts
  /\ explained \subseteq Anomalous
  /\ frontier \subseteq explained
  /\ Len(assessed) = index - 1
  /\ \A i \in DOMAIN assessed :
       /\ assessed[i].node = Candidates[i]
       /\ assessed[i].confidence \in 0..One
       /\ assessed[i].fit \in 0..One
       /\ assessed[i].causal \in 0..One
  /\ \A i \in DOMAIN ranking : \E j \in DOMAIN Candidates : ranking[i] = Candidates[j]

(* X has the callers within W of its nodes. *)
Closed(X, W) == \A m \in X : Callers(m) \cap W \subseteq X

(* The nodes from which S is reached by calls within W: the least set that holds S
   and is closed. *)
Reaching(S, W) ==
  {n \in Node : \A X \in SUBSET Node : S \subseteq X /\ Closed(X, W) => n \in X}

(* In whatever order the queue is served, the walk explains exactly the
   anomalous nodes that lead, through anomalous nodes other than the candidate,
   to a root other than the candidate. *)
ExplainedByOtherRoots ==
  pc = "done" =>
  \A i \in DOMAIN assessed :
    LET others == Anomalous \ {assessed[i].node}
    IN  assessed[i].explained = Reaching(OriginCandidates \cap others, others)

(* A failing service whose one failing callee is u is never held more necessary
   than u: blame moves towards the origin. *)
CulpritBeatsVictim ==
  pc = "done" =>
  \A i, j \in DOMAIN assessed :
    LET u == assessed[i].node
        v == assessed[j].node
    IN  /\ {u, v} \subseteq Anomalous
        /\ {m \in Anomalous : <<v, m>> \in inc.calls} = {u}
        => assessed[i].confidence > assessed[j].confidence

(* The only origin gets full confidence, a node that is not failing gets none,
   and so does every candidate when nothing fails. *)
CreditMatchesGuilt ==
  pc = "done" =>
  \A i \in DOMAIN assessed :
    /\ OriginCandidates = {assessed[i].node} => assessed[i].confidence = One
    /\ assessed[i].node \notin Anomalous => assessed[i].confidence = 0
    /\ assessed[i].node \in Anomalous => assessed[i].confidence > 0

(* The simulation hits every direct and indirect caller of the candidate, at
   its shortest distance, and no other node. *)
HopsAreShortest ==
  pc = "done" =>
  \A i \in DOMAIN assessed :
    LET hops == assessed[i].hops
        Within(k) == {n \in DOMAIN hops : hops[n] <= k}
    IN  /\ hops[assessed[i].node] = 0
        /\ DOMAIN hops = Reaching({assessed[i].node}, Node)
        /\ \A n \in DOMAIN hops : hops[n] > 0 =>
             /\ \E m \in Within(hops[n] - 1) : <<n, m>> \in inc.calls
             /\ \A m \in Within(hops[n] - 2) : <<n, m>> \notin inc.calls
============================================================================
