--------------------------- MODULE ReasoningLoop ---------------------------
(***************************************************************************)
(* The reasoning loop: engine.analyze with the stages it drives.           *)
(*                                                                         *)
(*   localize -> rank -> investigate, one candidate at a time              *)
(*      ^                    |                                             *)
(*      +-- new hints -------+-- no new hints, or the iteration cap        *)
(*                           v                                             *)
(*                         score -> decide -> done                         *)
(*                                                                         *)
(* An incident fixes what the stages read: the graph, the telemetry of its *)
(* nodes and the nodes that deviate from their baseline. What the causal   *)
(* model and the domain engines compute from spans and metrics is          *)
(* abstracted: a ranking is any order of the candidates, an investigation  *)
(* any outcome the engine for that type of node can return.                *)
(***************************************************************************)
EXTENDS NeighbourScan, Verdict, FiniteSets

CONSTANTS
  Node,             \* ids of nodes and of metric sources
  TypeOf,           \* the type the graph builder gives each node
  Incidents,        \* the incidents analysed
  Evidence,         \* the evidence counts a domain engine may return
  EngineFaults,     \* the nodes whose domain engine may raise
  ScanFaults,       \* the nodes whose neighbour scan may raise
  MAX_ITERATIONS,
  TopK

NodeType == {"service", "database", "external_dep", "queue"}

(* graph: the nodes and the calls between them; deviating: nodes whose error
   rate or latency is anomalous, in the graph or not; stray: some metric source
   outside the graph passes the causal model's own anomaly thresholds. *)
Incident ==
  {inc \in [nodes : SUBSET Node, calls : SUBSET (Node \X Node),
            telemetry : [Node -> Telemetry], deviating : SUBSET Node,
            stray : BOOLEAN] :
     inc.calls \subseteq inc.nodes \X inc.nodes}

ASSUME ConstantsAssumption ==
  /\ IsFiniteSet(Node)
  /\ TypeOf \in [Node -> NodeType]
  /\ \A inc \in Incidents : inc \in Incident
  /\ Evidence \subseteq EvidenceCount
  /\ EngineFaults \subseteq Node
  /\ ScanFaults \subseteq Node
  /\ MAX_ITERATIONS \in Nat \ {0}
  /\ TopK \in Nat \ {0}

VARIABLES
  incident,     \* the incident under analysis
  pc,           \* the stage that runs next
  iteration,    \* iterations_run
  hints,        \* hint_pool: what the next localize may include
  known,        \* known_candidate_ids: investigated in finished iterations
  candidates,   \* localize's result, by node
  ranked,       \* rank_candidates' result: the batch, in order
  enriched,     \* iteration_enriched: the batch's results so far
  raised,       \* iteration_hints: what the batch's scans returned
  all_enriched, \* every iteration's results
  flagged,      \* the last arbiter_result's multi_factor_flagged
  scored,       \* score's result
  result        \* the RCAResult, or NoResult

vars == <<incident, pc, iteration, hints, known, candidates, ranked, enriched,
          raised, all_enriched, flagged, scored, result>>

Answered(verdict, roots, weak, failed) ==
  [verdict |-> verdict, roots |-> roots, weak_signals |-> weak, failed |-> failed]

NoResult == Answered("pending", <<>>, {}, FALSE)

(* The answer analyze gives when a stage raises: everything found is dropped. *)
FailedResult == Answered("no_root_cause_found", <<>>, {}, TRUE)

Init ==
  /\ incident \in Incidents
  /\ pc = "localize"
  /\ iteration = 1
  /\ hints = {}
  /\ known = {}
  /\ candidates = <<>>
  /\ ranked = <<>>
  /\ enriched = <<>>
  /\ raised = {}
  /\ all_enriched = <<>>
  /\ flagged = FALSE
  /\ scored = <<>>
  /\ result = NoResult

----------------------------------------------------------------------------
(* Stage 1: localizer.localize *)

Changed(n) == TypeOf[n] = "service" /\ incident.telemetry[n].change

Hinted == {h.node : h \in hints}

(* Mutant: localize ignores the hint pool. *)
CandidateIdsWithoutHints ==
  {n \in incident.nodes \ known : n \in incident.deviating \/ Changed(n)}

(* The nodes localize includes; those outside the graph have no type and are
   skipped. *)
CandidateIds ==
  {n \in incident.nodes \ known :
     n \in incident.deviating \/ Changed(n) \/ n \in Hinted}

InclusionReason(n) ==
  IF n \in incident.deviating THEN "metric_anomaly"
  ELSE IF Changed(n) THEN "change_event" ELSE "investigation_hint"

(* Mutant: only the candidates of this iteration count. *)
IsPotentialOriginTooNarrow(n) ==
  \A s \in CandidateIds : <<n, s>> \notin incident.calls

(* No callee is among the nodes investigated before or picked now. *)
IsPotentialOrigin(n) ==
  \A s \in known \cup CandidateIds : <<n, s>> \notin incident.calls

Localize ==
  /\ pc = "localize"
  /\ candidates' = [n \in CandidateIds |->
                      [reason |-> InclusionReason(n), origin |-> IsPotentialOrigin(n)]]
  /\ pc' = IF CandidateIds = {} THEN "score" ELSE "rank"
  /\ UNCHANGED <<incident, iteration, hints, known, ranked, enriched, raised,
                 all_enriched, flagged, scored, result>>

----------------------------------------------------------------------------
(* Stage 2: causal_model.rank_candidates *)

Acyclic(calls) ==
  \A S \in SUBSET Node :
    S # {} => \E n \in S : \A m \in S : <<n, m>> \notin calls

(* rank_candidates asserts that the graph is a DAG, and its counterfactual asks
   the graph for the successors of every anomalous metric source. *)
RankRaises == ~Acyclic(incident.calls) \/ incident.stray

(* Mutant: the ranking is not cut. *)
RankingsUncut(S) ==
  {r \in [1..Cardinality(S) -> S] :
     \A i, j \in 1..Cardinality(S) : r[i] = r[j] => i = j}

(* The TopK first of the candidates, in the order of some causal confidence. *)
Rankings(S) ==
  LET size == IF Cardinality(S) < TopK THEN Cardinality(S) ELSE TopK
  IN  {r \in [1..size -> S] : \A i, j \in 1..size : r[i] = r[j] => i = j}

Rank ==
  /\ pc = "rank"
  /\ ~RankRaises
  /\ ranked' \in Rankings(DOMAIN candidates)
  /\ pc' = "investigate"
  /\ UNCHANGED <<incident, iteration, hints, known, candidates, enriched, raised,
                 all_enriched, flagged, scored, result>>

(* The exception leaves _run_analysis and analyze answers for it. *)
Fail ==
  /\ pc = "rank"
  /\ RankRaises
  /\ result' = FailedResult
  /\ pc' = "done"
  /\ UNCHANGED <<incident, iteration, hints, known, candidates, ranked, enriched,
                 raised, all_enriched, flagged, scored>>

----------------------------------------------------------------------------
(* Stage 3: orchestrator.investigate_all *)

BatchIds == {ranked[i] : i \in DOMAIN ranked}

DomainsOf(type) ==
  CASE type = "service"      -> {"application_code", "configuration"}
    [] type = "database"     -> {"database"}
    [] type = "external_dep" -> {"dependency"}
    [] type = "queue"        -> {"queue"}

(* What the engine for a node returns; an engine that raises leaves a candidate
   of unknown domain without evidence, and the queue engine finds nothing. *)
Diagnoses(n) ==
  [domain : DomainsOf(TypeOf[n]),
   evidence : IF TypeOf[n] = "queue" THEN {NoEvidence} ELSE Evidence]
  \cup (IF n \in EngineFaults THEN {[domain |-> "unknown", evidence |-> NoEvidence]}
                              ELSE {})

(* A scan that raises costs its hints, not the candidate. The scanned field is
   the model's own record of which scans went through. *)
Investigate ==
  /\ pc = "investigate"
  /\ Len(enriched) < Len(ranked)
  /\ LET n == ranked[Len(enriched) + 1]
     IN  \E d \in Diagnoses(n),
            scanned \in {TRUE} \cup (IF n \in ScanFaults THEN {FALSE} ELSE {}) :
           /\ enriched' = Append(enriched,
                [node |-> n, domain |-> d.domain, evidence |-> d.evidence,
                 origin |-> candidates[n].origin, found |-> iteration,
                 scanned |-> scanned])
           /\ raised' = IF scanned
                THEN raised \cup Scan(n, incident.calls, incident.telemetry,
                                      known \cup BatchIds)
                ELSE raised
  /\ UNCHANGED <<incident, pc, iteration, hints, known, candidates, ranked,
                 all_enriched, flagged, scored, result>>

----------------------------------------------------------------------------
(* Stage 3c and the termination check of _run_analysis *)

(* Mutant: a node hinted at before, and cut, does not count as new. *)
NewHintsNeverRepeated ==
  {h \in raised : h.node \notin known \cup BatchIds \cup Hinted}

NewHints == {h \in raised : h.node \notin known \cup BatchIds}

(* Mutant: the batch's results replace the earlier ones. *)
CloseBatchOverwriting ==
  /\ pc = "investigate"
  /\ Len(enriched) = Len(ranked)
  /\ flagged' = MultiFactorFlagged(enriched)
  /\ all_enriched' = enriched
  /\ known' = known \cup BatchIds

(* What an iteration that has investigated its batch leaves behind: the flag of
   an earlier iteration is overwritten. *)
CloseBatch ==
  /\ pc = "investigate"
  /\ Len(enriched) = Len(ranked)
  /\ flagged' = MultiFactorFlagged(enriched)
  /\ all_enriched' = all_enriched \o enriched
  /\ known' = known \cup BatchIds

Iterate ==
  /\ CloseBatch
  /\ NewHints # {}
  /\ iteration < MAX_ITERATIONS
  /\ iteration' = iteration + 1
  /\ hints' = NewHints
  /\ candidates' = <<>>
  /\ ranked' = <<>>
  /\ enriched' = <<>>
  /\ raised' = {}
  /\ pc' = "localize"
  /\ UNCHANGED <<incident, scored, result>>

(* Mutant: the cap is compared off by one. *)
StopPastCap ==
  /\ CloseBatch
  /\ NewHints = {} \/ iteration > MAX_ITERATIONS
  /\ pc' = "score"
  /\ UNCHANGED <<incident, iteration, hints, candidates, ranked, enriched, raised,
                 scored, result>>

Stop ==
  /\ CloseBatch
  /\ NewHints = {} \/ iteration = MAX_ITERATIONS
  /\ pc' = "score"
  /\ UNCHANGED <<incident, iteration, hints, candidates, ranked, enriched, raised,
                 scored, result>>

----------------------------------------------------------------------------
(* Stage 4: scorer.score *)

Scored(c, confidence) ==
  [node |-> c.node, domain |-> c.domain, confidence |-> confidence,
   found |-> c.found, analysis_complete |-> TRUE]

(* The confidences score() may compute, by position in all_enriched. *)
Confidences ==
  {[i \in DOMAIN all_enriched |->
      DomainConfidence(all_enriched[i].evidence, i \in short)] :
     short \in SUBSET {i \in DOMAIN all_enriched :
                         MayFallShort(all_enriched[i].evidence)}}

(* The orders sort() may leave, descending by confidence. Candidates of equal
   confidence come in either order: their doubles may differ in the last bit. *)
Descending(confidence) ==
  {o \in [DOMAIN confidence -> DOMAIN confidence] :
     \A i, j \in DOMAIN confidence :
       i < j => o[i] # o[j] /\ confidence[o[i]] >= confidence[o[j]]}

Score ==
  /\ pc = "score"
  /\ all_enriched # <<>>
  /\ \E confidence \in Confidences : \E o \in Descending(confidence) :
       scored' = [i \in DOMAIN all_enriched |->
                    Scored(all_enriched[o[i]], confidence[o[i]])]
  /\ pc' = "decide"
  /\ UNCHANGED <<incident, iteration, hints, known, candidates, ranked, enriched,
                 raised, all_enriched, flagged, result>>

(* Nothing was investigated: there is no verdict to determine. *)
NothingToScore ==
  /\ pc = "score"
  /\ all_enriched = <<>>
  /\ result' = Answered("no_root_cause_found", <<>>, {}, FALSE)
  /\ pc' = "done"
  /\ UNCHANGED <<incident, iteration, hints, known, candidates, ranked, enriched,
                 raised, all_enriched, flagged, scored>>

(* Stage 5, the verdict and its weak signals; multi_factor.analyze returns its
   candidates as they are. *)
Decide ==
  /\ pc = "decide"
  /\ LET d == DetermineVerdict(scored, flagged)
     IN  result' = Answered(d.verdict, d.roots,
           IF d.verdict = "no_root_cause_found"
           THEN {scored[i].node : i \in DOMAIN scored} ELSE {},
           FALSE)
  /\ pc' = "done"
  /\ UNCHANGED <<incident, iteration, hints, known, candidates, ranked, enriched,
                 raised, all_enriched, flagged, scored>>

----------------------------------------------------------------------------
Analyze == \/ Localize \/ Rank \/ Fail \/ Investigate \/ Iterate \/ Stop
           \/ Score \/ NothingToScore \/ Decide

(* The caller has its answer. *)
Returned == pc = "done" /\ UNCHANGED vars

Next == Analyze \/ Returned

(* The loop runs in the caller's thread, without waiting for anyone. *)
Spec == Init /\ [][Next]_vars /\ WF_vars(Analyze)

----------------------------------------------------------------------------
(* Properties *)

Stage == {"localize", "rank", "investigate", "score", "decide", "done"}

HintSet == [node : Node, by : Node, successor : BOOLEAN, signal : HintSignal]

EnrichedCandidate ==
  [node : Node, domain : Domain, evidence : EvidenceCount, origin : BOOLEAN,
   found : 1..MAX_ITERATIONS, scanned : BOOLEAN]

ScoredCandidate ==
  [node : Node, domain : Domain, confidence : 0..MAX_EVIDENCE_SCORE,
   found : 1..MAX_ITERATIONS, analysis_complete : BOOLEAN]

CandidateInfo ==
  [reason : {"metric_anomaly", "change_event", "investigation_hint"},
   origin : BOOLEAN]

(* Every variable holds what the code's types and contracts.py say it holds: in
   particular a confidence lies between 0 and the scorer's cap and the loop
   never starts an iteration past the cap. *)
TypeOK ==
  /\ incident \in Incidents
  /\ pc \in Stage
  /\ iteration \in 1..MAX_ITERATIONS
  /\ hints \subseteq HintSet
  /\ known \subseteq Node
  /\ DOMAIN candidates \subseteq Node
  /\ \A n \in DOMAIN candidates : candidates[n] \in CandidateInfo
  /\ ranked \in Seq(Node)
  /\ enriched \in Seq(EnrichedCandidate)
  /\ raised \subseteq HintSet
  /\ all_enriched \in Seq(EnrichedCandidate)
  /\ flagged \in BOOLEAN
  /\ scored \in Seq(ScoredCandidate)
  /\ result \in [verdict : Verdicts \cup {"pending"}, roots : Seq(ScoredCandidate),
                 weak_signals : SUBSET Node, failed : BOOLEAN]

(* However many iterations run and however the batches are cut, each node that
   was taken up has exactly one result, and no result is dropped or repeated
   (engine.py: all_enriched against known_candidate_ids). *)
ResultsMatchInvestigated ==
  /\ known = {all_enriched[i].node : i \in DOMAIN all_enriched}
  /\ \A i, j \in DOMAIN all_enriched :
       all_enriched[i].node = all_enriched[j].node => i = j

(* A candidate marked as a potential origin has no callee among the nodes
   investigated with it or before it; a callee investigated later, on a hint,
   is not held against it (localizer.py: is_potential_origin). *)
OriginAtInclusion ==
  \A i, j \in DOMAIN all_enriched :
    /\ all_enriched[i].origin
    /\ <<all_enriched[i].node, all_enriched[j].node>> \in incident.calls
    => all_enriched[j].found > all_enriched[i].found

Finished == pc \in {"score", "decide"} \/ (pc = "done" /\ ~result.failed)

(* An iteration that new hints start investigates something: the hints the
   engine goes on with are ones the localizer can include, so no iteration but
   the first comes to nothing. *)
LaterIterationsAdvance ==
  Finished /\ iteration > 1
    => \E i \in DOMAIN all_enriched : all_enriched[i].found = iteration

(* When the loop stops before the cap, the nodes it investigated last have no
   caller and no callee with error spans that was left uninvestigated, unless
   the scan for that node raised (engine.py: the termination check). *)
EarlyStopJustified ==
  Finished /\ iteration < MAX_ITERATIONS =>
    \A i \in DOMAIN all_enriched, n \in Node :
      /\ all_enriched[i].found = iteration
      /\ all_enriched[i].scanned
      /\ \/ <<all_enriched[i].node, n>> \in incident.calls
         \/ <<n, all_enriched[i].node>> \in incident.calls
      /\ incident.telemetry[n].errors
      => n \in known

Confident(threshold) == {i \in DOMAIN scored : scored[i].confidence >= threshold}

(* The verdict is the one the confidences of all investigated nodes call for:
   two causes only when the last batch was flagged and two domains have a
   candidate over the threshold, one cause only when nothing beats it, nothing
   only when no candidate has any evidence (engine.py: _determine_verdict). *)
VerdictMatchesEvidence ==
  pc = "done" /\ ~result.failed =>
    LET twoDomains ==
          flagged /\ \E i, j \in Confident(MULTI_FACTOR_THRESHOLD) :
                       scored[i].domain # scored[j].domain
        best(c) == \A i \in DOMAIN scored : scored[i].confidence <= c.confidence
        roots == result.roots
    IN  /\ result.verdict = "multi_factor" <=> twoDomains
        /\ result.verdict = "root_cause_found" <=>
             ~twoDomains /\ Confident(CONFIDENCE_THRESHOLD) # {}
        /\ result.verdict = "no_root_cause_found" <=>
             \A i \in DOMAIN all_enriched : all_enriched[i].evidence = NoEvidence
        /\ roots # <<>> => best(roots[1])
        /\ twoDomains =>
             /\ roots[1].domain # roots[2].domain
             /\ \A i \in DOMAIN scored :
                  scored[i].domain # roots[1].domain
                    => scored[i].confidence <= roots[2].confidence

(* Every analysis returns, whatever the hints keep turning up. *)
Terminates == <>(pc = "done")

(* What RCAContract sees of the result. *)
Reply ==
  [verdict |-> result.verdict,
   roots |-> {result.roots[i].node : i \in DOMAIN result.roots}]

Contract == INSTANCE RCAContract WITH investigated <- known, answer <- Reply

(* The loop keeps the promise of RCAContract: rounds of at most TopK nodes never
   taken before, then one final answer that names investigated nodes only. *)
ImplementsContract == Contract!Spec

----------------------------------------------------------------------------
(* What comments of the code claim and the loop does not keep *)

(* engine.py says of the multi-factor verdict: two candidates over
   MULTI_FACTOR_THRESHOLD in different domains. *)
TwoDomainsAreMultiFactor ==
  pc = "done" /\ ~result.failed =>
    \A i, j \in Confident(MULTI_FACTOR_THRESHOLD) :
      scored[i].domain # scored[j].domain => result.verdict = "multi_factor"
============================================================================
