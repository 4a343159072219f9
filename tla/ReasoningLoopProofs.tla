------------------------ MODULE ReasoningLoopProofs ------------------------
(***************************************************************************)
(* What the reasoning loop guarantees for every set of nodes, every graph, *)
(* every telemetry and every bound: proofs about ReasoningLoop.            *)
(***************************************************************************)
EXTENDS ReasoningLoop, TLAPS, SequenceTheorems, FiniteSetTheorems,
        WellFoundedInduction

----------------------------------------------------------------------------
(* The inductive invariant *)

(* Nothing is answered before the end, and a batch starts empty. *)
Progress ==
  /\ pc # "done" => result = NoResult
  /\ pc \in {"localize", "rank"} => enriched = <<>>
  /\ pc = "rank" => DOMAIN candidates # {}
  /\ pc = "decide" => scored # <<>>

(* What localize picked has not been investigated, and an origin's callees are
   neither investigated nor picked. *)
Fresh ==
  pc \in {"rank", "investigate"} =>
    \A n \in DOMAIN candidates :
      /\ n \notin known
      /\ candidates[n].origin =>
           \A s \in known \cup DOMAIN candidates : <<n, s>> \notin incident.calls

(* The batch is a duplicate-free choice among the candidates, and its results
   so far are those of its first nodes. *)
Batch ==
  pc = "investigate" =>
    /\ ranked # <<>>
    /\ Len(ranked) <= TopK
    /\ \A i \in DOMAIN ranked : ranked[i] \in DOMAIN candidates
    /\ \A i, j \in DOMAIN ranked : ranked[i] = ranked[j] => i = j
    /\ Len(enriched) <= Len(ranked)
    /\ \A i \in DOMAIN enriched :
         /\ enriched[i].node = ranked[i]
         /\ enriched[i].found = iteration
         /\ enriched[i].origin = candidates[ranked[i]].origin

(* While an iteration runs, the results kept are those of earlier ones. *)
Earlier ==
  pc \in {"localize", "rank", "investigate"} =>
    \A i \in DOMAIN all_enriched : all_enriched[i].found < iteration

(* The ranking scored holds the investigated nodes, each once. *)
Ranking ==
  pc = "decide" =>
    /\ \A i \in DOMAIN scored : scored[i].node \in known
    /\ \A i, j \in DOMAIN scored : scored[i].node = scored[j].node => i = j

IInv ==
  /\ TypeOK
  /\ Progress
  /\ Fresh
  /\ Batch
  /\ Earlier
  /\ Ranking
  /\ ResultsMatchInvestigated
  /\ OriginAtInclusion

----------------------------------------------------------------------------
(* The operators of the stages *)

(* A non-empty set of naturals has a least element, so First is it. *)
LEMMA FirstIsLeast ==
  ASSUME NEW S \in SUBSET Nat, S # {}
  PROVE  First(S) \in S /\ \A j \in S : First(S) <= j
<1> DEFINE R == OpToRel(<, Nat)
<1>1. IsWellFoundedOn(R, Nat)
  BY NatLessThanWellFounded
<1>2. \A x, y \in Nat : x < y => <<x, y>> \in R
  BY DEF OpToRel
<1> HIDE DEF R
<1>3. PICK x \in S : \A y \in S : <<y, x>> \notin R
  BY <1>1, WFMin
<1>4. ASSUME NEW y \in S PROVE x <= y
  <2>1. x \in Nat /\ y \in Nat
    OBVIOUS
  <2>2. ~(y < x)
    BY <1>2, <1>3, <2>1
  <2> QED BY <2>1, <2>2
<1> QED BY <1>4 DEF First

(* Every hint a scan returns names a node other than the scanned one, not
   investigated yet, that calls it or is called by it. *)
LEMMA ScanHints ==
  ASSUME NEW c \in Node, NEW calls, NEW telemetry \in [Node -> Telemetry],
         NEW already, NEW h \in Scan(c, calls, telemetry, already)
  PROVE  /\ h \in HintSet
         /\ h.node \notin already
<1>1. \A isSuccessor, candidateHasErrors, t :
        ScanNeighbour(isSuccessor, candidateHasErrors, t) # NoSignal =>
          ScanNeighbour(isSuccessor, candidateHasErrors, t) \in HintSignal
  BY DEF ScanNeighbour, StrongSignal, ModerateSignal, HintSignal, NoSignal
<1>2. PICK n \in Node \ already, isSuccessor \in BOOLEAN :
        /\ ScanNeighbour(isSuccessor, telemetry[c].errors, telemetry[n]) # NoSignal
        /\ h = [node |-> n, by |-> c, successor |-> isSuccessor,
                signal |-> ScanNeighbour(isSuccessor, telemetry[c].errors,
                                         telemetry[n])]
  BY DEF Scan
<1> QED BY <1>1, <1>2 DEF HintSet

(* A ranking of a non-empty set of nodes is a non-empty list of at most TopK of
   them, each once. *)
LEMMA RankingsProperties ==
  ASSUME NEW S \in SUBSET Node, S # {}, NEW r \in Rankings(S)
  PROVE  /\ r \in Seq(S)
         /\ r # <<>>
         /\ Len(r) <= TopK
         /\ \A i, j \in DOMAIN r : r[i] = r[j] => i = j
<1> DEFINE size == IF Cardinality(S) < TopK THEN Cardinality(S) ELSE TopK
<1>1. IsFiniteSet(S) /\ Cardinality(S) \in Nat \ {0}
  BY ConstantsAssumption, FS_Subset, FS_CardinalityType, FS_EmptySet
<1>2. size \in Nat \ {0} /\ size <= TopK
  BY <1>1, ConstantsAssumption
<1>3. /\ r \in [1..size -> S]
      /\ \A i, j \in 1..size : r[i] = r[j] => i = j
  BY DEF Rankings
<1> HIDE DEF size
<1>4. r \in Seq(S) /\ Len(r) = size /\ DOMAIN r = 1..size
  BY <1>2, <1>3, SeqDef
<1> QED BY <1>2, <1>3, <1>4

(* A confidence lies between 0 and the cap. *)
LEMMA DomainConfidenceType ==
  ASSUME NEW e \in EvidenceCount, NEW fellShort \in BOOLEAN
  PROVE  DomainConfidence(e, fellShort) \in 0..MAX_EVIDENCE_SCORE
<1>1. RawScore(e) \in Nat
  BY DEF RawScore, EvidenceCount, STRONG_WEIGHT, MODERATE_WEIGHT, WEAK_WEIGHT
<1> QED
  BY <1>1 DEF DomainConfidence, Capped, MAX_EVIDENCE_SCORE, FellShort

(* An order is a permutation of the positions: it repeats none. *)
LEMMA DescendingInjective ==
  ASSUME NEW n \in Nat, NEW confidence, DOMAIN confidence = 1..n,
         NEW o \in Descending(confidence)
  PROVE  /\ o \in [1..n -> 1..n]
         /\ \A i, j \in 1..n : o[i] = o[j] => i = j
         /\ \A i, j \in 1..n : i < j => confidence[o[i]] >= confidence[o[j]]
<1>1. /\ o \in [1..n -> 1..n]
      /\ \A i, j \in 1..n : i < j => o[i] # o[j] /\ confidence[o[i]] >= confidence[o[j]]
  BY DEF Descending
<1>2. \A i, j \in 1..n : i = j \/ i < j \/ j < i
  OBVIOUS
<1> QED BY <1>1, <1>2

(* score() lists what it was given, in another order. *)
LEMMA ScoreProperties ==
  ASSUME all_enriched \in Seq(EnrichedCandidate), all_enriched # <<>>,
         NEW confidence \in Confidences, NEW o \in Descending(confidence),
         NEW s, s = [i \in DOMAIN all_enriched |->
                       Scored(all_enriched[o[i]], confidence[o[i]])]
  PROVE  /\ s \in Seq(ScoredCandidate)
         /\ s # <<>>
         /\ DOMAIN s = DOMAIN all_enriched
         /\ o \in [DOMAIN s -> DOMAIN s]
         /\ \A i, j \in DOMAIN s : o[i] = o[j] => i = j
         /\ \A i \in DOMAIN s : s[i].node = all_enriched[o[i]].node
<1> DEFINE n == Len(all_enriched)
<1>1. n \in Nat \ {0} /\ DOMAIN all_enriched = 1..n
  BY EmptySeq, LenProperties
<1>2. \A i \in 1..n : all_enriched[i] \in EnrichedCandidate
  BY ElementOfSeq
<1> HIDE DEF n
<1>3. /\ DOMAIN confidence = 1..n
      /\ \A i \in 1..n : confidence[i] \in 0..MAX_EVIDENCE_SCORE
  <2>1. PICK short : confidence = [i \in DOMAIN all_enriched |->
                        DomainConfidence(all_enriched[i].evidence, i \in short)]
    BY DEF Confidences
  <2>2. \A i \in 1..n : /\ all_enriched[i].evidence \in EvidenceCount
                        /\ (i \in short) \in BOOLEAN
    BY <1>2 DEF EnrichedCandidate
  <2>3. \A i \in 1..n :
          DomainConfidence(all_enriched[i].evidence, i \in short)
            \in 0..MAX_EVIDENCE_SCORE
    BY <2>2, DomainConfidenceType
  <2> QED BY <1>1, <2>1, <2>3
<1>4. /\ o \in [1..n -> 1..n]
      /\ \A i, j \in 1..n : o[i] = o[j] => i = j
  BY <1>1, <1>3, DescendingInjective
<1>5. \A i \in 1..n : /\ s[i] \in ScoredCandidate
                      /\ s[i].node = all_enriched[o[i]].node
  BY <1>1, <1>2, <1>3, <1>4 DEF Scored, ScoredCandidate, EnrichedCandidate
<1>6. s \in [1..n -> ScoredCandidate]
  BY <1>1, <1>5
<1>7. s \in Seq(ScoredCandidate) /\ DOMAIN s = 1..n
  BY <1>1, <1>6, SeqDef
<1>8. s # <<>>
  BY <1>1, <1>7
<1> QED BY <1>1, <1>4, <1>5, <1>7, <1>8

(* The four verdicts and the root causes each one names: two candidates over
   the multi-factor threshold in different domains, the top candidate, up to
   three from the top, or none. *)
LEMMA VerdictCases ==
  ASSUME NEW s \in Seq(ScoredCandidate), s # <<>>, NEW f \in BOOLEAN,
         NEW d, d = DetermineVerdict(s, f)
  PROVE  \/ /\ d.verdict = "multi_factor"
            /\ \E i, j \in DOMAIN s : s[i].domain # s[j].domain
                                   /\ d.roots = <<s[i], s[j]>>
         \/ d.verdict = "root_cause_found" /\ d.roots = <<s[1]>>
         \/ /\ d.verdict = "top_hypotheses"
            /\ \E k \in 1..3 : k <= Len(s) /\ d.roots = SubSeq(s, 1, k)
         \/ d.verdict = "no_root_cause_found" /\ d.roots = <<>>
<1> DEFINE Q == Qualifying(s)
           R == Rivals(s)
<1>1. Len(s) \in Nat \ {0} /\ DOMAIN s = 1..Len(s)
  BY EmptySeq, LenProperties
<1>2. CASE f /\ R # {}
  <2>1. R \subseteq Q /\ Q \subseteq DOMAIN s
    BY DEF Rivals, Qualifying
  <2>2. R \in SUBSET Nat /\ Q \in SUBSET Nat /\ Q # {}
    BY <1>1, <1>2, <2>1
  <2>3. First(Q) \in Q /\ First(R) \in R
    BY <1>2, <2>2, FirstIsLeast
  <2>4. s[First(R)].domain # s[First(Q)].domain
    BY <2>3 DEF Rivals
  <2>5. d.verdict = "multi_factor" /\ d.roots = <<s[First(Q)], s[First(R)]>>
    BY <1>2 DEF DetermineVerdict
  <2> QED BY <2>1, <2>3, <2>4, <2>5
<1>3. CASE ~(f /\ R # {}) /\ s[1].confidence >= CONFIDENCE_THRESHOLD
  BY <1>3 DEF DetermineVerdict
<1>4. CASE /\ ~(f /\ R # {}) /\ ~(s[1].confidence >= CONFIDENCE_THRESHOLD)
           /\ \E i \in DOMAIN s : s[i].confidence > 0
  <2>1. /\ d.verdict = "top_hypotheses"
        /\ d.roots = SubSeq(s, 1, IF Len(s) < 3 THEN Len(s) ELSE 3)
    BY <1>4 DEF DetermineVerdict
  <2> QED BY <1>1, <2>1
<1>5. CASE /\ ~(f /\ R # {}) /\ ~(s[1].confidence >= CONFIDENCE_THRESHOLD)
           /\ ~\E i \in DOMAIN s : s[i].confidence > 0
  BY <1>5 DEF DetermineVerdict
<1> HIDE DEF R
<1> QED BY <1>2, <1>3, <1>4, <1>5

(* The root causes named are scored candidates. *)
LEMMA VerdictType ==
  ASSUME NEW s \in Seq(ScoredCandidate), s # <<>>, NEW f \in BOOLEAN,
         NEW d, d = DetermineVerdict(s, f)
  PROVE  /\ d.verdict \in Verdicts
         /\ d.roots \in Seq(ScoredCandidate)
         /\ \A i \in DOMAIN d.roots : \E j \in DOMAIN s : d.roots[i] = s[j]
<1>1. Len(s) \in Nat \ {0} /\ DOMAIN s = 1..Len(s)
  BY EmptySeq, LenProperties
<1>2. \A i \in DOMAIN s : s[i] \in ScoredCandidate
  BY <1>1, ElementOfSeq
<1>3. CASE d.verdict = "multi_factor" /\ \E i, j \in DOMAIN s : d.roots = <<s[i], s[j]>>
  <2>1. PICK i, j \in DOMAIN s : d.roots = <<s[i], s[j]>>
    BY <1>3
  <2>2. s[i] \in ScoredCandidate /\ s[j] \in ScoredCandidate
    BY <1>2, <2>1
  <2>3. d.roots \in Seq(ScoredCandidate) /\ DOMAIN d.roots = 1..2
    BY <2>1, <2>2
  <2>4. d.roots[1] = s[i] /\ d.roots[2] = s[j]
    BY <2>1
  <2> QED BY <1>3, <2>1, <2>3, <2>4 DEF Verdicts
<1>4. CASE d.verdict = "root_cause_found" /\ d.roots = <<s[1]>>
  <2>1. 1 \in DOMAIN s /\ s[1] \in ScoredCandidate
    BY <1>1, <1>2
  <2>2. d.roots \in Seq(ScoredCandidate) /\ DOMAIN d.roots = 1..1 /\ d.roots[1] = s[1]
    BY <1>4, <2>1
  <2> QED BY <1>4, <2>1, <2>2 DEF Verdicts
<1>5. CASE /\ d.verdict = "top_hypotheses"
           /\ \E k \in 1..3 : k <= Len(s) /\ d.roots = SubSeq(s, 1, k)
  <2>1. PICK k \in 1..3 : k <= Len(s) /\ d.roots = SubSeq(s, 1, k)
    BY <1>5
  <2>2. \A i \in 1..k : s[i] \in ScoredCandidate /\ i \in DOMAIN s
    BY <1>1, <1>2, <2>1
  <2>3. /\ d.roots \in Seq(ScoredCandidate)
        /\ Len(d.roots) = k
        /\ \A i \in 1..k : d.roots[i] = s[i]
    BY <2>1, <2>2, SubSeqProperties
  <2>4. DOMAIN d.roots = 1..k
    BY <2>3, LenProperties
  <2> QED BY <1>5, <2>2, <2>3, <2>4 DEF Verdicts
<1>6. CASE d.verdict = "no_root_cause_found" /\ d.roots = <<>>
  BY <1>6, EmptySeq DEF Verdicts
<1>7. \/ d.verdict = "multi_factor" /\ \E i, j \in DOMAIN s : d.roots = <<s[i], s[j]>>
      \/ d.verdict = "root_cause_found" /\ d.roots = <<s[1]>>
      \/ /\ d.verdict = "top_hypotheses"
         /\ \E k \in 1..3 : k <= Len(s) /\ d.roots = SubSeq(s, 1, k)
      \/ d.verdict = "no_root_cause_found" /\ d.roots = <<>>
  BY VerdictCases
<1> QED BY <1>3, <1>4, <1>5, <1>6, <1>7

----------------------------------------------------------------------------
(* The invariant is inductive *)

LEMMA IncidentFacts ==
  ASSUME incident \in Incidents
  PROVE  /\ incident.nodes \subseteq Node
         /\ incident.deviating \subseteq Node
         /\ incident.calls \subseteq Node \X Node
         /\ incident.telemetry \in [Node -> Telemetry]
BY ConstantsAssumption DEF Incident

(* An analysis starts with nothing investigated and nothing answered. *)
LEMMA InitIInv == Init => IInv
<1> SUFFICES ASSUME Init PROVE IInv
  OBVIOUS
<1>1. NoResult \in [verdict : Verdicts \cup {"pending"}, roots : Seq(ScoredCandidate),
                   weak_signals : SUBSET Node, failed : BOOLEAN]
  BY EmptySeq DEF NoResult, Answered
<1>2. 1 \in 1..MAX_ITERATIONS
  BY ConstantsAssumption
<1>3. TypeOK
  <2>1. DOMAIN candidates = {}
    BY DEF Init
  <2>2. /\ ranked \in Seq(Node)
        /\ enriched \in Seq(EnrichedCandidate)
        /\ all_enriched \in Seq(EnrichedCandidate)
        /\ scored \in Seq(ScoredCandidate)
    BY EmptySeq DEF Init
  <2> QED
    BY <1>1, <1>2, <2>1, <2>2 DEF Init, TypeOK, Stage
<1> QED
  BY <1>3 DEF Init, IInv, Progress, Fresh, Batch, Earlier, Ranking,
              ResultsMatchInvestigated, OriginAtInclusion

(* Localize picks nodes of the graph that are not investigated yet. *)
LEMMA LocalizeIInv == IInv /\ Localize => IInv'
<1> SUFFICES ASSUME IInv, Localize PROVE IInv'
  OBVIOUS
<1>1. TypeOK'
  <2>1. CandidateIds \subseteq Node
    BY IncidentFacts DEF IInv, TypeOK, CandidateIds
  <2>2. \A n \in CandidateIds : InclusionReason(n) \in
          {"metric_anomaly", "change_event", "investigation_hint"}
    BY DEF InclusionReason
  <2>3. \A n \in CandidateIds : IsPotentialOrigin(n) \in BOOLEAN
    BY DEF IsPotentialOrigin
  <2>4. /\ DOMAIN candidates' = CandidateIds
        /\ \A n \in CandidateIds : candidates'[n] =
             [reason |-> InclusionReason(n), origin |-> IsPotentialOrigin(n)]
    BY DEF Localize
  <2>5. \A n \in DOMAIN candidates' : candidates'[n] \in CandidateInfo
    BY <2>2, <2>3, <2>4 DEF CandidateInfo
  <2> QED
    BY <2>1, <2>4, <2>5 DEF IInv, TypeOK, Localize, Stage
<1>2. Progress'
  BY DEF IInv, Localize, Progress
<1>3. Fresh'
  <2>1. DOMAIN candidates' = CandidateIds /\ CandidateIds \cap known = {}
    BY DEF Localize, CandidateIds
  <2>2. \A n \in CandidateIds : candidates'[n].origin <=>
          \A s \in known \cup CandidateIds : <<n, s>> \notin incident.calls
    BY DEF Localize, IsPotentialOrigin
  <2> QED
    BY <2>1, <2>2 DEF Fresh, Localize
<1>4. Batch' /\ Earlier' /\ Ranking'
  BY DEF IInv, Localize, Batch, Earlier, Ranking
<1>5. ResultsMatchInvestigated' /\ OriginAtInclusion'
  BY DEF IInv, Localize, ResultsMatchInvestigated, OriginAtInclusion
<1> QED
  BY <1>1, <1>2, <1>3, <1>4, <1>5 DEF IInv

(* Ranking starts a batch of candidates, without results. *)
LEMMA RankIInv == IInv /\ Rank => IInv'
<1> SUFFICES ASSUME IInv, Rank PROVE IInv'
  OBVIOUS
<1> DEFINE S == DOMAIN candidates
<1>1. S \in SUBSET Node /\ S # {}
  BY DEF IInv, TypeOK, Progress, Rank
<1>2. /\ ranked' \in Seq(S)
      /\ ranked' # <<>>
      /\ Len(ranked') <= TopK
      /\ \A i, j \in DOMAIN ranked' : ranked'[i] = ranked'[j] => i = j
  BY <1>1, RankingsProperties DEF Rank
<1>3. ranked' \in Seq(Node)
  BY <1>1, <1>2, SeqMonotonic
<1>4. \A i \in DOMAIN ranked' : ranked'[i] \in S
  BY <1>2, LenProperties
<1>5. TypeOK'
  BY <1>3 DEF IInv, TypeOK, Rank, Stage
<1>6. Progress' /\ Fresh'
  BY DEF IInv, Rank, Progress, Fresh
<1>7. Batch'
  <2>1. enriched' = <<>> /\ candidates' = candidates
    BY DEF IInv, Progress, Rank
  <2>2. Len(enriched') <= Len(ranked')
    BY <1>3, <2>1, LenProperties, EmptySeq
  <2> QED
    BY <1>2, <1>4, <2>1, <2>2 DEF Batch
<1>8. Earlier' /\ Ranking'
  BY DEF IInv, Rank, Earlier, Ranking
<1>9. ResultsMatchInvestigated' /\ OriginAtInclusion'
  BY DEF IInv, Rank, ResultsMatchInvestigated, OriginAtInclusion
<1> QED
  BY <1>5, <1>6, <1>7, <1>8, <1>9 DEF IInv

(* A failed analysis names nothing. *)
LEMMA FailIInv == IInv /\ Fail => IInv'
<1> SUFFICES ASSUME IInv, Fail PROVE IInv'
  OBVIOUS
<1>1. result' \in [verdict : Verdicts \cup {"pending"}, roots : Seq(ScoredCandidate),
                  weak_signals : SUBSET Node, failed : BOOLEAN]
  BY EmptySeq DEF Fail, FailedResult, Answered, Verdicts
<1>2. TypeOK'
  BY <1>1 DEF IInv, TypeOK, Fail, Stage
<1>3. Progress' /\ Fresh' /\ Batch' /\ Earlier' /\ Ranking'
  BY DEF Fail, Progress, Fresh, Batch, Earlier, Ranking
<1>4. ResultsMatchInvestigated' /\ OriginAtInclusion'
  BY DEF IInv, Fail, ResultsMatchInvestigated, OriginAtInclusion
<1> QED
  BY <1>2, <1>3, <1>4 DEF IInv

(* An investigation adds the result of the next node of the batch. *)
LEMMA InvestigateIInv == IInv /\ Investigate => IInv'
<1> SUFFICES ASSUME IInv, Investigate PROVE IInv'
  OBVIOUS
<1> DEFINE k == Len(enriched) + 1
           n == ranked[k]
<1>1. /\ k \in DOMAIN ranked
      /\ Len(enriched) \in Nat
      /\ DOMAIN enriched = 1..Len(enriched)
  BY LenProperties DEF IInv, TypeOK, Investigate
<1>2. n \in DOMAIN candidates /\ n \in Node
  BY <1>1 DEF IInv, TypeOK, Batch, Investigate
<1> HIDE DEF k, n
<1>3. PICK d \in Diagnoses(n), scanned \in BOOLEAN :
        /\ enriched' = Append(enriched,
             [node |-> n, domain |-> d.domain, evidence |-> d.evidence,
              origin |-> candidates[n].origin, found |-> iteration,
              scanned |-> scanned])
        /\ raised' = IF scanned
             THEN raised \cup Scan(n, incident.calls, incident.telemetry,
                                   known \cup BatchIds)
             ELSE raised
  BY DEF Investigate, k, n
<1> DEFINE c == [node |-> n, domain |-> d.domain, evidence |-> d.evidence,
                 origin |-> candidates[n].origin, found |-> iteration,
                 scanned |-> scanned]
<1>4. c \in EnrichedCandidate
  <2>1. TypeOf[n] \in NodeType
    BY <1>2, ConstantsAssumption
  <2>2. DomainsOf(TypeOf[n]) \subseteq Domain
    BY <2>1 DEF DomainsOf, NodeType, Domain
  <2>3. NoEvidence \in EvidenceCount /\ Evidence \subseteq EvidenceCount
    BY ConstantsAssumption DEF NoEvidence, EvidenceCount
  <2>4. d.domain \in Domain /\ d.evidence \in EvidenceCount
    BY <2>2, <2>3 DEF Diagnoses, Domain
  <2>5. candidates[n].origin \in BOOLEAN /\ iteration \in 1..MAX_ITERATIONS
    BY <1>2 DEF IInv, TypeOK, CandidateInfo
  <2> QED
    BY <1>2, <2>4, <2>5 DEF EnrichedCandidate
<1>5. /\ enriched' \in Seq(EnrichedCandidate)
      /\ DOMAIN enriched' = 1..k
      /\ Len(enriched') = k
      /\ \A i \in DOMAIN enriched : enriched'[i] = enriched[i]
      /\ enriched'[k] = c
  <2> HIDE DEF c
  <2>1. enriched' = Append(enriched, c) /\ enriched \in Seq(EnrichedCandidate)
    BY <1>3 DEF IInv, TypeOK, c
  <2> QED
    BY <1>1, <1>4, <2>1, AppendProperties, LenProperties DEF k
<1>6. raised' \subseteq HintSet
  <2>1. raised \subseteq HintSet /\ incident.telemetry \in [Node -> Telemetry]
    BY IncidentFacts DEF IInv, TypeOK
  <2>2. Scan(n, incident.calls, incident.telemetry, known \cup BatchIds)
          \subseteq HintSet
    BY <1>2, <2>1, ScanHints
  <2> QED
    BY <1>3, <2>1, <2>2
<1>7. TypeOK'
  BY <1>5, <1>6 DEF IInv, TypeOK, Investigate
<1>8. Progress' /\ Fresh' /\ Earlier' /\ Ranking'
  BY DEF IInv, Investigate, Progress, Fresh, Earlier, Ranking
<1>9. Batch'
  <2>1. k <= Len(ranked)
    BY <1>1, LenProperties DEF IInv, TypeOK
  <2>2. \A i \in 1..k : i = k \/ i \in DOMAIN enriched
    BY <1>1 DEF k
  <2>3. \A i \in DOMAIN enriched :
          /\ enriched[i].node = ranked[i]
          /\ enriched[i].found = iteration
          /\ enriched[i].origin = candidates[ranked[i]].origin
    BY DEF IInv, Batch, Investigate
  <2>4. \A i \in 1..k :
          /\ enriched'[i].node = ranked[i]
          /\ enriched'[i].found = iteration
          /\ enriched'[i].origin = candidates[ranked[i]].origin
    BY <1>5, <2>2, <2>3 DEF n
  <2> QED
    BY <1>5, <2>1, <2>4 DEF IInv, Batch, Investigate
<1>10. ResultsMatchInvestigated' /\ OriginAtInclusion'
  BY DEF IInv, Investigate, ResultsMatchInvestigated, OriginAtInclusion
<1> QED
  BY <1>7, <1>8, <1>9, <1>10 DEF IInv

(* What an investigated batch adds: one result for each of its nodes, none of
   them investigated before, all found in this iteration. *)
LEMMA CloseBatchAdds ==
  ASSUME IInv, CloseBatch, incident' = incident
  PROVE  /\ all_enriched' \in Seq(EnrichedCandidate)
         /\ flagged' \in BOOLEAN
         /\ known' \subseteq Node
         /\ \A i \in DOMAIN all_enriched' : all_enriched'[i].found <= iteration
         /\ ResultsMatchInvestigated'
         /\ OriginAtInclusion'
<1> DEFINE a == Len(all_enriched)
           b == Len(enriched)
<1>1. /\ all_enriched \in Seq(EnrichedCandidate)
      /\ enriched \in Seq(EnrichedCandidate)
      /\ all_enriched' = all_enriched \o enriched
  BY DEF IInv, TypeOK, CloseBatch
<1>2. /\ a \in Nat /\ DOMAIN all_enriched = 1..a
      /\ b \in Nat /\ DOMAIN enriched = 1..b
      /\ DOMAIN ranked = 1..b
  BY <1>1, LenProperties DEF IInv, TypeOK, CloseBatch
<1>3. /\ all_enriched' \in Seq(EnrichedCandidate)
      /\ Len(all_enriched') = a + b
      /\ \A i \in 1..a+b : all_enriched'[i] =
             IF i <= a THEN all_enriched[i] ELSE enriched[i - a]
  BY <1>1, ConcatProperties
<1> HIDE DEF a, b
<1>4. DOMAIN all_enriched' = 1..a+b
  BY <1>3, LenProperties
<1>5. \A i \in 1..a : /\ i \in DOMAIN all_enriched'
                      /\ all_enriched'[i] = all_enriched[i]
  BY <1>2, <1>3, <1>4
<1>6. \A i \in 1..b : /\ a + i \in DOMAIN all_enriched'
                      /\ all_enriched'[a + i] = enriched[i]
  BY <1>2, <1>3, <1>4
<1>7. \A i \in DOMAIN all_enriched' : i \in 1..a \/ \E j \in 1..b : i = a + j
  <2>1. ASSUME NEW i \in 1..a+b, i \notin 1..a
        PROVE  i - a \in 1..b /\ i = a + (i - a)
    BY <1>2, <2>1
  <2> QED
    BY <1>4, <2>1
<1>8. \A i \in 1..b :
        /\ enriched[i].node = ranked[i]
        /\ enriched[i].found = iteration
        /\ enriched[i].origin = candidates[ranked[i]].origin
        /\ ranked[i] \in DOMAIN candidates
        /\ ranked[i] \notin known
  BY <1>2 DEF IInv, Batch, Fresh, CloseBatch
<1>9. \A i \in 1..a : /\ all_enriched[i].found < iteration
                      /\ all_enriched[i].node \in known
  BY <1>2 DEF IInv, Earlier, ResultsMatchInvestigated, CloseBatch
<1>10. iteration \in Nat /\ \A i \in 1..a : all_enriched[i].found \in Nat
  <2>1. \A i \in 1..a : all_enriched[i] \in EnrichedCandidate
    BY <1>1, <1>2, ElementOfSeq DEF a
  <2> QED
    BY <2>1, ConstantsAssumption DEF IInv, TypeOK, EnrichedCandidate
<1>11. \A i \in DOMAIN all_enriched' : all_enriched'[i].found <= iteration
  BY <1>5, <1>6, <1>7, <1>8, <1>9, <1>10
<1>12. known' = known \cup BatchIds /\ BatchIds = {ranked[i] : i \in 1..b}
  BY <1>2 DEF CloseBatch, BatchIds
<1>13. known' \subseteq Node /\ flagged' \in BOOLEAN
  <2>1. \A i \in 1..b : ranked[i] \in Node
    BY <1>8 DEF IInv, TypeOK
  <2>2. MultiFactorFlagged(enriched) \in BOOLEAN
    BY DEF MultiFactorFlagged
  <2> QED
    BY <1>12, <2>1, <2>2 DEF IInv, TypeOK, CloseBatch
<1>14. ResultsMatchInvestigated'
  <2>1. known' = {all_enriched'[i].node : i \in DOMAIN all_enriched'}
    <3>1. known = {all_enriched[i].node : i \in 1..a}
      BY <1>2 DEF IInv, ResultsMatchInvestigated
    <3>2. known' \subseteq {all_enriched'[i].node : i \in DOMAIN all_enriched'}
      BY <1>5, <1>6, <1>8, <1>12, <3>1
    <3>3. ASSUME NEW i \in DOMAIN all_enriched' PROVE all_enriched'[i].node \in known'
      BY <1>5, <1>6, <1>7, <1>8, <1>9, <1>12
    <3> QED
      BY <3>2, <3>3
  <2>2. ASSUME NEW i \in DOMAIN all_enriched', NEW j \in DOMAIN all_enriched',
               all_enriched'[i].node = all_enriched'[j].node
        PROVE  i = j
    <3>1. CASE i \in 1..a /\ j \in 1..a
      BY <1>2, <1>5, <2>2, <3>1 DEF IInv, ResultsMatchInvestigated
    <3>2. CASE i \in 1..a /\ \E m \in 1..b : j = a + m
      BY <1>5, <1>6, <1>8, <1>9, <2>2, <3>2
    <3>3. CASE j \in 1..a /\ \E m \in 1..b : i = a + m
      BY <1>5, <1>6, <1>8, <1>9, <2>2, <3>3
    <3>4. ASSUME NEW l \in 1..b, NEW m \in 1..b, i = a + l, j = a + m PROVE i = j
      <4>1. ranked[l] = ranked[m]
        BY <1>6, <1>8, <2>2, <3>4
      <4>2. l = m
        BY <1>2, <4>1 DEF IInv, Batch, CloseBatch
      <4> QED
        BY <3>4, <4>2
    <3> QED
      BY <1>7, <3>1, <3>2, <3>3, <3>4
  <2> QED
    BY <2>1, <2>2 DEF ResultsMatchInvestigated
<1>15. OriginAtInclusion'
  <2>1. SUFFICES ASSUME NEW i \in DOMAIN all_enriched', NEW j \in DOMAIN all_enriched',
                        all_enriched'[i].origin,
                        <<all_enriched'[i].node, all_enriched'[j].node>> \in incident.calls
                 PROVE  all_enriched'[j].found > all_enriched'[i].found
    BY DEF OriginAtInclusion
  <2>2. CASE i \in 1..a /\ j \in 1..a
    BY <1>2, <1>5, <2>1, <2>2 DEF IInv, OriginAtInclusion
  <2>3. CASE i \in 1..a /\ \E m \in 1..b : j = a + m
    BY <1>5, <1>6, <1>8, <1>9, <1>10, <2>3
  <2>4. ASSUME NEW l \in 1..b, i = a + l PROVE FALSE
    <3>1. /\ all_enriched'[i].node = ranked[l]
          /\ candidates[ranked[l]].origin
      BY <1>6, <1>8, <2>1, <2>4
    <3>2. \A s \in known \cup DOMAIN candidates : <<ranked[l], s>> \notin incident.calls
      BY <1>8, <3>1 DEF IInv, Fresh, CloseBatch
    <3>3. all_enriched'[j].node \in known \cup DOMAIN candidates
      BY <1>5, <1>6, <1>7, <1>8, <1>9
    <3> QED
      BY <2>1, <3>1, <3>2, <3>3
  <2> QED
    BY <1>7, <2>2, <2>3, <2>4
<1> QED
  BY <1>3, <1>11, <1>13, <1>14, <1>15

(* New hints start another iteration, with nothing localized yet. *)
LEMMA IterateIInv == IInv /\ Iterate => IInv'
<1> SUFFICES ASSUME IInv, Iterate PROVE IInv'
  OBVIOUS
<1>1. /\ all_enriched' \in Seq(EnrichedCandidate)
      /\ flagged' \in BOOLEAN
      /\ known' \subseteq Node
      /\ \A i \in DOMAIN all_enriched' : all_enriched'[i].found <= iteration
      /\ ResultsMatchInvestigated'
      /\ OriginAtInclusion'
  BY CloseBatchAdds DEF Iterate
<1>2. iteration \in Nat /\ iteration' = iteration + 1 /\ iteration' \in 1..MAX_ITERATIONS
  BY ConstantsAssumption DEF IInv, TypeOK, Iterate
<1>3. TypeOK'
  <2>1. hints' \subseteq HintSet
    BY DEF IInv, TypeOK, Iterate, NewHints
  <2>2. DOMAIN candidates' = {}
    BY DEF Iterate
  <2>3. ranked' \in Seq(Node) /\ enriched' \in Seq(EnrichedCandidate)
    BY EmptySeq DEF Iterate
  <2> QED
    BY <1>1, <1>2, <2>1, <2>2, <2>3 DEF IInv, TypeOK, Iterate, Stage
<1>4. Progress' /\ Fresh' /\ Batch' /\ Ranking'
  BY DEF IInv, Iterate, CloseBatch, Progress, Fresh, Batch, Ranking
<1>5. Earlier'
  <2>1. \A i \in DOMAIN all_enriched' : all_enriched'[i].found \in Nat
    <3>1. \A i \in DOMAIN all_enriched' : all_enriched'[i] \in EnrichedCandidate
      BY <1>1, LenProperties, ElementOfSeq
    <3> QED
      BY <3>1, ConstantsAssumption DEF EnrichedCandidate
  <2> QED
    BY <1>1, <1>2, <2>1 DEF Earlier
<1> QED
  BY <1>1, <1>3, <1>4, <1>5 DEF IInv

(* Without new hints, or at the cap, the results go to the scorer. *)
LEMMA StopIInv == IInv /\ Stop => IInv'
<1> SUFFICES ASSUME IInv, Stop PROVE IInv'
  OBVIOUS
<1>1. /\ all_enriched' \in Seq(EnrichedCandidate)
      /\ flagged' \in BOOLEAN
      /\ known' \subseteq Node
      /\ ResultsMatchInvestigated'
      /\ OriginAtInclusion'
  BY CloseBatchAdds DEF Stop
<1>2. TypeOK'
  BY <1>1 DEF IInv, TypeOK, Stop, Stage
<1>3. Progress' /\ Fresh' /\ Batch' /\ Earlier' /\ Ranking'
  BY DEF IInv, Stop, CloseBatch, Progress, Fresh, Batch, Earlier, Ranking
<1> QED
  BY <1>1, <1>2, <1>3 DEF IInv

(* Scoring lists every result once. *)
LEMMA ScoreIInv == IInv /\ Score => IInv'
<1> SUFFICES ASSUME IInv, Score PROVE IInv'
  OBVIOUS
<1>1. all_enriched \in Seq(EnrichedCandidate) /\ all_enriched # <<>>
  BY DEF IInv, TypeOK, Score
<1>2. PICK confidence \in Confidences : \E o \in Descending(confidence) :
        scored' = [i \in DOMAIN all_enriched |->
                     Scored(all_enriched[o[i]], confidence[o[i]])]
  BY DEF Score
<1>3. PICK o \in Descending(confidence) :
        scored' = [i \in DOMAIN all_enriched |->
                     Scored(all_enriched[o[i]], confidence[o[i]])]
  BY <1>2
<1>4. /\ scored' \in Seq(ScoredCandidate)
      /\ scored' # <<>>
      /\ DOMAIN scored' = DOMAIN all_enriched
      /\ o \in [DOMAIN scored' -> DOMAIN scored']
      /\ \A i, j \in DOMAIN scored' : o[i] = o[j] => i = j
      /\ \A i \in DOMAIN scored' : scored'[i].node = all_enriched[o[i]].node
  BY <1>1, <1>3, ScoreProperties
<1>5. TypeOK'
  BY <1>4 DEF IInv, TypeOK, Score, Stage
<1>6. Progress' /\ Fresh' /\ Batch' /\ Earlier'
  BY <1>4 DEF IInv, Score, Progress, Fresh, Batch, Earlier
<1>7. Ranking'
  BY <1>4 DEF IInv, Score, Ranking, ResultsMatchInvestigated
<1>8. ResultsMatchInvestigated' /\ OriginAtInclusion'
  BY DEF IInv, Score, ResultsMatchInvestigated, OriginAtInclusion
<1> QED
  BY <1>5, <1>6, <1>7, <1>8 DEF IInv

(* An analysis without a candidate finds no root cause. *)
LEMMA NothingToScoreIInv == IInv /\ NothingToScore => IInv'
<1> SUFFICES ASSUME IInv, NothingToScore PROVE IInv'
  OBVIOUS
<1>1. result' \in [verdict : Verdicts \cup {"pending"}, roots : Seq(ScoredCandidate),
                  weak_signals : SUBSET Node, failed : BOOLEAN]
  BY EmptySeq DEF NothingToScore, Answered, Verdicts
<1>2. TypeOK'
  BY <1>1 DEF IInv, TypeOK, NothingToScore, Stage
<1>3. Progress' /\ Fresh' /\ Batch' /\ Earlier' /\ Ranking'
  BY DEF NothingToScore, Progress, Fresh, Batch, Earlier, Ranking
<1>4. ResultsMatchInvestigated' /\ OriginAtInclusion'
  BY DEF IInv, NothingToScore, ResultsMatchInvestigated, OriginAtInclusion
<1> QED
  BY <1>2, <1>3, <1>4 DEF IInv

(* The verdict is made of scored candidates. *)
LEMMA DecideIInv == IInv /\ Decide => IInv'
<1> SUFFICES ASSUME IInv, Decide PROVE IInv'
  OBVIOUS
<1> DEFINE d == DetermineVerdict(scored, flagged)
<1>1. scored \in Seq(ScoredCandidate) /\ scored # <<>> /\ flagged \in BOOLEAN
  BY DEF IInv, TypeOK, Progress, Decide
<1>2. d.verdict \in Verdicts /\ d.roots \in Seq(ScoredCandidate)
  BY <1>1, VerdictType
<1>3. {scored[i].node : i \in DOMAIN scored} \subseteq Node
  BY DEF IInv, TypeOK, Ranking, Decide
<1>4. result' = Answered(d.verdict, d.roots,
                  IF d.verdict = "no_root_cause_found"
                  THEN {scored[i].node : i \in DOMAIN scored} ELSE {}, FALSE)
  BY DEF Decide
<1> HIDE DEF d
<1>5. TypeOK'
  BY <1>2, <1>3, <1>4 DEF IInv, TypeOK, Decide, Stage, Answered
<1>6. Progress' /\ Fresh' /\ Batch' /\ Earlier' /\ Ranking'
  BY DEF Decide, Progress, Fresh, Batch, Earlier, Ranking
<1>7. ResultsMatchInvestigated' /\ OriginAtInclusion'
  BY DEF IInv, Decide, ResultsMatchInvestigated, OriginAtInclusion
<1> QED
  BY <1>5, <1>6, <1>7 DEF IInv

(* No step of an analysis disturbs the invariant. *)
LEMMA NextIInv == IInv /\ [Next]_vars => IInv'
<1> SUFFICES ASSUME IInv, [Next]_vars PROVE IInv'
  OBVIOUS
<1>1. CASE UNCHANGED vars
  BY <1>1 DEF vars, IInv, TypeOK, Progress, Fresh, Batch, Earlier, Ranking,
              ResultsMatchInvestigated, OriginAtInclusion
<1>2. CASE Analyze
  BY <1>2, LocalizeIInv, RankIInv, FailIInv, InvestigateIInv, IterateIInv, StopIInv,
     ScoreIInv, NothingToScoreIInv, DecideIInv DEF Analyze
<1> QED
  BY <1>1, <1>2 DEF Next, Returned

----------------------------------------------------------------------------
(* The theorems *)

(* The invariant holds throughout every analysis. *)
THEOREM Invariance == Spec => []IInv
<1>1. Init => IInv
  BY InitIInv
<1>2. IInv /\ [Next]_vars => IInv'
  BY NextIInv
<1> QED
  BY <1>1, <1>2, PTL DEF Spec

(* Whatever the size of the graph and the bounds, every variable keeps its type:
   a confidence never leaves 0..95 and no iteration runs past the cap. *)
THEOREM TypeCorrect == Spec => []TypeOK
<1>1. IInv => TypeOK
  BY DEF IInv
<1> QED
  BY <1>1, Invariance, PTL

(* However many iterations run and however the batches are cut, no node is
   investigated twice and no result is dropped. *)
THEOREM ResultsAreComplete == Spec => []ResultsMatchInvestigated
<1>1. IInv => ResultsMatchInvestigated
  BY DEF IInv
<1> QED
  BY <1>1, Invariance, PTL

(* A potential origin has no callee among the nodes investigated with it or
   before it. *)
THEOREM OriginsAreSound == Spec => []OriginAtInclusion
<1>1. IInv => OriginAtInclusion
  BY DEF IInv
<1> QED
  BY <1>1, Invariance, PTL

----------------------------------------------------------------------------
(* The loop keeps the promise of RCAContract *)

(* The set of the nodes a list names is no larger than the list. *)
LEMMA NamesBound ==
  ASSUME NEW S, NEW s \in Seq(S), NEW N, N = {s[i].node : i \in DOMAIN s}
  PROVE  /\ IsFiniteSet(N)
         /\ Cardinality(N) \in Nat
         /\ Cardinality(N) <= Len(s)
         /\ s # <<>> => Cardinality(N) >= 1
<1> DEFINE f == [i \in 1..Len(s) |-> s[i].node]
<1>1. Len(s) \in Nat /\ DOMAIN s = 1..Len(s)
  BY LenProperties
<1>2. f \in Surjection(1..Len(s), N)
  BY <1>1 DEF Surjection
<1>3. IsFiniteSet(1..Len(s)) /\ Cardinality(1..Len(s)) = Len(s)
  BY <1>1, FS_Interval
<1> HIDE DEF f
<1>4. IsFiniteSet(N) /\ Cardinality(N) <= Len(s)
  BY <1>2, <1>3, FS_Surjection
<1>5. Cardinality(N) \in Nat
  BY <1>4, FS_CardinalityType
<1>6. s # <<>> => N # {}
  BY <1>1, EmptySeq
<1>7. N # {} => Cardinality(N) # 0
  BY <1>4, FS_EmptySet
<1> QED
  BY <1>4, <1>5, <1>6, <1>7

(* Without a result there is no answer. *)
LEMMA PendingNow == result = NoResult => Reply = Contract!Pending
<1> SUFFICES ASSUME result = NoResult PROVE Reply = Contract!Pending
  OBVIOUS
<1>1. result.roots = <<>> /\ result.verdict = "pending"
  BY DEF NoResult, Answered
<1>2. {result.roots[i].node : i \in DOMAIN result.roots} = {}
  BY <1>1
<1> QED
  BY <1>1, <1>2 DEF Reply, Contract!Pending

(* RCAContract counts as this module does. *)
LEMMA SameCardinality == \A S : Contract!Cardinality(S) = Cardinality(S)
BY DEF Cardinality, Contract!Cardinality

(* A closed batch is a round: some nodes, at most TopK, none taken before. *)
LEMMA CloseBatchIsRound ==
  ASSUME IInv, CloseBatch, UNCHANGED result
  PROVE  Contract!Round
<1>1. /\ ranked \in Seq(Node)
      /\ ranked # <<>>
      /\ Len(ranked) <= TopK
      /\ \A i \in DOMAIN ranked : ranked[i] \in Node \ known
  BY DEF IInv, TypeOK, Fresh, Batch, CloseBatch
<1>2. BatchIds \in SUBSET (Node \ known)
  BY <1>1 DEF BatchIds
<1>3. BatchIds # {} /\ Cardinality(BatchIds) <= TopK
  <2> DEFINE f == [i \in 1..Len(ranked) |-> ranked[i]]
  <2>1. Len(ranked) \in Nat \ {0} /\ DOMAIN ranked = 1..Len(ranked)
    BY <1>1, LenProperties, EmptySeq
  <2>2. f \in Surjection(1..Len(ranked), BatchIds)
    BY <2>1 DEF Surjection, BatchIds
  <2>3. IsFiniteSet(1..Len(ranked)) /\ Cardinality(1..Len(ranked)) = Len(ranked)
    BY <2>1, FS_Interval
  <2> HIDE DEF f
  <2>4. IsFiniteSet(BatchIds) /\ Cardinality(BatchIds) <= Len(ranked)
    BY <2>2, <2>3, FS_Surjection
  <2>5. Cardinality(BatchIds) \in Nat
    BY <2>4, FS_CardinalityType
  <2>6. ranked[1] \in BatchIds
    BY <2>1 DEF BatchIds
  <2> QED
    BY <1>1, <2>1, <2>4, <2>5, <2>6, ConstantsAssumption
<1>4. result = NoResult /\ known' = known \cup BatchIds
  BY DEF IInv, Progress, CloseBatch
<1>5. Reply = Contract!Pending
  BY <1>4, PendingNow
<1>6. Reply' = Reply
  BY DEF Reply
<1> QED
  BY <1>2, <1>3, <1>4, <1>5, <1>6, SameCardinality DEF Contract!Round

(* An answer names as many investigated nodes as its verdict calls for. *)
LEMMA AnswerIsAnswer ==
  ASSUME IInv, pc # "done", UNCHANGED known,
         result'.verdict \in Verdicts,
         {result'.roots[i].node : i \in DOMAIN result'.roots} \subseteq known,
         Cardinality({result'.roots[i].node : i \in DOMAIN result'.roots})
           \in Contract!Arity(result'.verdict)
  PROVE  Contract!Answer
<1>1. Reply = Contract!Pending
  BY PendingNow DEF IInv, Progress
<1> DEFINE R == {result'.roots[i].node : i \in DOMAIN result'.roots}
<1>2. /\ R \in SUBSET known
      /\ Cardinality(R) \in Contract!Arity(result'.verdict)
      /\ Reply' = [verdict |-> result'.verdict, roots |-> R]
  BY DEF Reply
<1> HIDE DEF R
<1> QED
  BY <1>1, <1>2, SameCardinality DEF Contract!Answer, Verdicts

(* The verdict over a duplicate-free ranking names one, two, up to three or no
   nodes, as its kind says. *)
LEMMA VerdictArity ==
  ASSUME NEW s \in Seq(ScoredCandidate), s # <<>>, NEW f \in BOOLEAN,
         NEW d, d = DetermineVerdict(s, f),
         \A i, j \in DOMAIN s : s[i].node = s[j].node => i = j
  PROVE  Cardinality({d.roots[i].node : i \in DOMAIN d.roots})
           \in Contract!Arity(d.verdict)
<1> DEFINE N == {d.roots[i].node : i \in DOMAIN d.roots}
<1>1. d.roots \in Seq(ScoredCandidate)
  BY VerdictType
<1>2. /\ Cardinality(N) \in Nat
      /\ Cardinality(N) <= Len(d.roots)
      /\ d.roots # <<>> => Cardinality(N) >= 1
  BY <1>1, NamesBound
<1>3. Len(s) \in Nat \ {0} /\ DOMAIN s = 1..Len(s)
  BY EmptySeq, LenProperties
<1>4. ASSUME d.verdict = "multi_factor",
             NEW i \in DOMAIN s, NEW j \in DOMAIN s,
             s[i].domain # s[j].domain, d.roots = <<s[i], s[j]>>
      PROVE  Cardinality(N) = 2
  <2>1. s[i].node # s[j].node
    BY <1>4
  <2>2. N = {s[i].node} \cup {s[j].node}
    <3>1. DOMAIN d.roots = {1, 2} /\ d.roots[1] = s[i] /\ d.roots[2] = s[j]
      BY <1>4
    <3> QED
      BY <3>1
  <2> HIDE DEF N
  <2>3. IsFiniteSet({s[i].node}) /\ Cardinality({s[i].node}) = 1
    BY FS_Singleton
  <2>4. Cardinality({s[i].node} \cup {s[j].node}) =
          IF s[j].node \in {s[i].node} THEN Cardinality({s[i].node})
                                       ELSE Cardinality({s[i].node}) + 1
    BY <2>3, FS_AddElement
  <2> QED
    BY <2>1, <2>2, <2>3, <2>4
<1>5. ASSUME d.verdict = "root_cause_found", d.roots = <<s[1]>>
      PROVE  Cardinality(N) = 1
  <2>1. N = {s[1].node}
    <3>1. DOMAIN d.roots = {1} /\ d.roots[1] = s[1]
      BY <1>5
    <3> QED
      BY <3>1
  <2> HIDE DEF N
  <2> QED
    BY <2>1, FS_Singleton
<1>6. ASSUME d.verdict = "top_hypotheses",
             NEW k \in 1..3, k <= Len(s), d.roots = SubSeq(s, 1, k)
      PROVE  Cardinality(N) \in {1, 2, 3}
  <2>1. \A i \in 1..k : s[i] \in ScoredCandidate
    BY <1>3, <1>6, ElementOfSeq
  <2>2. Len(d.roots) = k
    BY <1>6, <2>1, SubSeqProperties
  <2>3. d.roots # <<>>
    BY <1>1, <2>2, EmptySeq
  <2> HIDE DEF N
  <2> QED
    BY <1>2, <2>2, <2>3
<1>7. ASSUME d.verdict = "no_root_cause_found", d.roots = <<>>
      PROVE  Cardinality(N) = 0
  <2>1. N = {}
    BY <1>7
  <2> HIDE DEF N
  <2> QED
    BY <2>1, FS_EmptySet
<1>8. \/ /\ d.verdict = "multi_factor"
         /\ \E i, j \in DOMAIN s : s[i].domain # s[j].domain
                                /\ d.roots = <<s[i], s[j]>>
      \/ d.verdict = "root_cause_found" /\ d.roots = <<s[1]>>
      \/ /\ d.verdict = "top_hypotheses"
         /\ \E k \in 1..3 : k <= Len(s) /\ d.roots = SubSeq(s, 1, k)
      \/ d.verdict = "no_root_cause_found" /\ d.roots = <<>>
  BY VerdictCases
<1> HIDE DEF N
<1>9. Cardinality(N) \in Contract!Arity(d.verdict)
  BY <1>4, <1>5, <1>6, <1>7, <1>8 DEF Contract!Arity
<1> QED
  BY <1>9 DEF N

(* Failing, finding nothing to score and deciding are the answers. *)
LEMMA AnswersAreAnswers ==
  ASSUME IInv, Fail \/ NothingToScore \/ Decide
  PROVE  Contract!Answer
<1> DEFINE N == {result'.roots[i].node : i \in DOMAIN result'.roots}
<1>1. /\ result'.verdict \in Verdicts
      /\ N \subseteq known
      /\ Cardinality(N) \in Contract!Arity(result'.verdict)
  <2>1. CASE Fail \/ NothingToScore
    <3>1. result'.verdict = "no_root_cause_found" /\ result'.roots = <<>>
      BY <2>1 DEF Fail, NothingToScore, FailedResult, Answered
    <3>2. N = {}
      BY <3>1
    <3> HIDE DEF N
    <3> QED
      BY <3>1, <3>2, FS_EmptySet DEF Verdicts, Contract!Arity
  <2>2. CASE Decide
    <3> DEFINE d == DetermineVerdict(scored, flagged)
    <3>1. /\ scored \in Seq(ScoredCandidate) /\ scored # <<>> /\ flagged \in BOOLEAN
          /\ \A i \in DOMAIN scored : scored[i].node \in known
          /\ \A i, j \in DOMAIN scored : scored[i].node = scored[j].node => i = j
      BY <2>2 DEF IInv, TypeOK, Progress, Ranking, Decide
    <3>2. result'.verdict = d.verdict /\ result'.roots = d.roots
      BY <2>2 DEF Decide, Answered
    <3> HIDE DEF d
    <3>3. /\ d.verdict \in Verdicts
          /\ \A i \in DOMAIN d.roots : \E j \in DOMAIN scored : d.roots[i] = scored[j]
      BY <3>1, VerdictType DEF d
    <3>4. Cardinality({d.roots[i].node : i \in DOMAIN d.roots})
            \in Contract!Arity(d.verdict)
      BY <3>1, VerdictArity DEF d
    <3>5. N \subseteq known
      BY <3>1, <3>2, <3>3
    <3> QED
      BY <3>2, <3>3, <3>4, <3>5
  <2> QED
    BY <2>1, <2>2
<1>2. pc # "done" /\ UNCHANGED known
  BY DEF Fail, NothingToScore, Decide
<1> QED
  BY <1>1, <1>2, AnswerIsAnswer

(* Every analysis is one RCAContract allows: rounds of at most TopK nodes never
   taken before, then one final answer that names investigated nodes, as many as
   its verdict calls for. *)
THEOREM KeepsContract == Spec => ImplementsContract
<1>1. Init => Contract!Init
  <2>1. Init => Reply = Contract!Pending
    BY PendingNow DEF Init
  <2> QED
    BY <2>1 DEF Init, Contract!Init
<1>2. IInv /\ [Next]_vars => [Contract!Next]_Contract!contractVars
  <2> SUFFICES ASSUME IInv, [Next]_vars
               PROVE  Contract!Next \/ UNCHANGED Contract!contractVars
    BY DEF Contract!contractVars
  <2>1. CASE UNCHANGED <<known, result>>
    BY <2>1 DEF Reply, Contract!contractVars
  <2>2. CASE Iterate \/ Stop
    BY <2>2, CloseBatchIsRound DEF Iterate, Stop, Contract!Next
  <2>3. CASE Fail \/ NothingToScore \/ Decide
    BY <2>3, AnswersAreAnswers DEF Contract!Next
  <2>4. Localize \/ Rank \/ Investigate \/ Score \/ UNCHANGED vars
          => UNCHANGED <<known, result>>
    BY DEF Localize, Rank, Investigate, Score, vars
  <2> QED
    BY <2>1, <2>2, <2>3, <2>4 DEF Next, Analyze, Returned
<1> QED
  BY <1>1, <1>2, Invariance, PTL DEF Spec, ImplementsContract, Contract!Spec

----------------------------------------------------------------------------
(* Hints: where they lead, and what is left when they run out *)

(* Every hint leads into the graph, and an iteration that hints started has one
   the localizer can include. *)
HintsLead ==
  /\ \A h \in hints \cup raised : h.node \in incident.nodes
  /\ pc = "localize" /\ iteration > 1 => \E h \in hints : h.node \notin known

(* Of a node of the batch that was scanned, every caller or callee with error
   spans is investigated, in the batch, or hinted at. *)
Watched ==
  pc = "investigate" =>
    \A i \in DOMAIN enriched, n \in Node :
      /\ enriched[i].scanned
      /\ \/ <<enriched[i].node, n>> \in incident.calls
         \/ <<n, enriched[i].node>> \in incident.calls
      /\ incident.telemetry[n].errors
      => n \in known \cup BatchIds \/ \E h \in raised : h.node = n

HintInv ==
  /\ HintsLead
  /\ Watched
  /\ LaterIterationsAdvance
  /\ EarlyStopJustified

(* A neighbour with error spans always has some signal, whatever its other
   telemetry says. *)
LEMMA ErrorsAreASignal ==
  ASSUME NEW isSuccessor \in BOOLEAN, NEW candidateHasErrors \in BOOLEAN,
         NEW t \in Telemetry, t.errors
  PROVE  ScanNeighbour(isSuccessor, candidateHasErrors, t) # NoSignal
BY DEF ScanNeighbour, StrongSignal, ModerateSignal, NoSignal, Telemetry

(* So a scan hints at every caller and callee with error spans that is neither
   the scanned node nor investigated already. *)
LEMMA ScanFindsErrors ==
  ASSUME NEW c \in Node, NEW calls, NEW telemetry \in [Node -> Telemetry],
         NEW already, NEW n \in Node, n \notin already, n # c,
         <<c, n>> \in calls \/ <<n, c>> \in calls,
         telemetry[n].errors
  PROVE  \E h \in Scan(c, calls, telemetry, already) : h.node = n
<1> DEFINE e == telemetry[c].errors
           N(isSuccessor) ==
             {m \in DOMAIN telemetry \ (already \cup {c}) :
                /\ (IF isSuccessor THEN <<c, m>> ELSE <<m, c>>) \in calls
                /\ ScanNeighbour(isSuccessor, e, telemetry[m]) # NoSignal}
           H(m, isSuccessor) ==
             [node |-> m, by |-> c, successor |-> isSuccessor,
              signal |-> ScanNeighbour(isSuccessor, e, telemetry[m])]
<1>1. e \in BOOLEAN /\ telemetry[n] \in Telemetry
  BY DEF Telemetry
<1>2. \A isSuccessor \in BOOLEAN :
        ScanNeighbour(isSuccessor, e, telemetry[n]) # NoSignal
  BY <1>1, ErrorsAreASignal
<1>3. n \in N(TRUE) \/ n \in N(FALSE)
  BY <1>2
<1>4. \A h : h \in Scan(c, calls, telemetry, already) <=>
        h \in {H(m, FALSE) : m \in N(FALSE)} \cup {H(m, TRUE) : m \in N(TRUE)}
  BY DEF Scan
<1>5. H(n, TRUE).node = n /\ H(n, FALSE).node = n
  OBVIOUS
<1> HIDE DEF N, H
<1> QED
  BY <1>3, <1>4, <1>5

(* What a scan hints at is a caller or a callee: an end of a call. *)
LEMMA ScanFollowsCalls ==
  ASSUME NEW c \in Node, NEW calls, NEW telemetry \in [Node -> Telemetry],
         NEW already, NEW h \in Scan(c, calls, telemetry, already)
  PROVE  <<c, h.node>> \in calls \/ <<h.node, c>> \in calls
<1>1. PICK n \in Node, isSuccessor \in BOOLEAN :
        /\ (IF isSuccessor THEN <<c, n>> ELSE <<n, c>>) \in calls
        /\ h = [node |-> n, by |-> c, successor |-> isSuccessor,
                signal |-> ScanNeighbour(isSuccessor, telemetry[c].errors,
                                         telemetry[n])]
  BY DEF Scan
<1> QED
  BY <1>1

(* The results kept when a batch closes are the earlier ones, all of earlier
   iterations, and those of the batch. *)
LEMMA CloseBatchKeeps ==
  ASSUME IInv, CloseBatch
  PROVE  /\ \A i \in DOMAIN all_enriched' :
              \/ all_enriched'[i].found # iteration
              \/ \E j \in DOMAIN enriched : all_enriched'[i] = enriched[j]
         /\ \E i \in DOMAIN all_enriched' : all_enriched'[i].found = iteration
<1> DEFINE a == Len(all_enriched)
           b == Len(enriched)
<1>1. /\ all_enriched \in Seq(EnrichedCandidate)
      /\ enriched \in Seq(EnrichedCandidate)
      /\ all_enriched' = all_enriched \o enriched
  BY DEF IInv, TypeOK, CloseBatch
<1>2. b # 0
  BY EmptySeq, LenProperties DEF IInv, TypeOK, Batch, CloseBatch
<1>3. /\ a \in Nat /\ DOMAIN all_enriched = 1..a
      /\ b \in Nat /\ DOMAIN enriched = 1..b
  BY <1>1, LenProperties
<1>4. /\ all_enriched' \in Seq(EnrichedCandidate)
      /\ Len(all_enriched') = a + b
      /\ \A i \in 1..a+b : all_enriched'[i] =
             IF i <= a THEN all_enriched[i] ELSE enriched[i - a]
  BY <1>1, ConcatProperties
<1>5. /\ \A i \in 1..a : all_enriched[i] \in EnrichedCandidate
      /\ \A i \in 1..a : all_enriched[i].found < iteration
      /\ \A i \in 1..b : enriched[i].found = iteration
  BY <1>1, <1>3, ElementOfSeq DEF IInv, Earlier, Batch, CloseBatch
<1>6. iteration \in Nat /\ \A i \in 1..a : all_enriched[i].found \in Nat
  BY <1>5, ConstantsAssumption DEF IInv, TypeOK, EnrichedCandidate
<1> HIDE DEF a, b
<1>7. DOMAIN all_enriched' = 1..a+b
  BY <1>4, LenProperties
<1>8. ASSUME NEW i \in DOMAIN all_enriched'
      PROVE  \/ all_enriched'[i].found # iteration
             \/ \E j \in DOMAIN enriched : all_enriched'[i] = enriched[j]
  <2>1. CASE i <= a
    <3>1. i \in 1..a /\ all_enriched'[i] = all_enriched[i]
      BY <1>3, <1>4, <1>7, <2>1
    <3> QED
      BY <1>5, <1>6, <3>1
  <2>2. CASE ~(i <= a)
    <3>1. i - a \in 1..b /\ all_enriched'[i] = enriched[i - a]
      BY <1>3, <1>4, <1>7, <2>2
    <3> QED
      BY <1>3, <3>1
  <2> QED
    BY <2>1, <2>2
<1>9. a + 1 \in 1..a+b /\ ~(a + 1 <= a) /\ (a + 1) - a = 1 /\ 1 \in 1..b
  BY <1>2, <1>3
<1>10. all_enriched'[a + 1] = enriched[1]
  BY <1>4, <1>9
<1> QED
  BY <1>5, <1>7, <1>8, <1>9, <1>10

(* No step of an analysis loses what hints lead to. *)
LEMMA NextHintInv == IInv /\ HintInv /\ [Next]_vars => HintInv'
<1> SUFFICES ASSUME IInv, HintInv, [Next]_vars PROVE HintInv'
  OBVIOUS
<1>1. CASE UNCHANGED vars
  BY <1>1 DEF vars, HintInv, HintsLead, Watched, BatchIds, LaterIterationsAdvance,
              EarlyStopJustified, Finished
<1>2. CASE Localize
  <2>1. HintsLead' /\ Watched'
    BY <1>2 DEF HintInv, HintsLead, Watched, Localize
  <2>2. iteration > 1 => CandidateIds # {}
    BY <1>2 DEF HintInv, HintsLead, Localize, CandidateIds, Hinted
  <2>3. LaterIterationsAdvance'
    BY <1>2, <2>2 DEF Localize, LaterIterationsAdvance, Finished
  <2>4. EarlyStopJustified'
    <3>1. \A i \in DOMAIN all_enriched : all_enriched[i].found < iteration
      BY <1>2 DEF IInv, Earlier, Localize
    <3>2. iteration \in Nat
      BY ConstantsAssumption DEF IInv, TypeOK
    <3>3. \A i \in DOMAIN all_enriched : all_enriched[i].found # iteration
      BY <3>1, <3>2
    <3> QED
      BY <1>2, <3>3 DEF Localize, EarlyStopJustified
  <2> QED
    BY <2>1, <2>3, <2>4 DEF HintInv
<1>3. CASE Rank
  <2>1. enriched' = <<>>
    BY <1>3 DEF IInv, Progress, Rank
  <2>2. HintsLead' /\ Watched'
    BY <1>3, <2>1 DEF HintInv, HintsLead, Watched, Rank
  <2> QED
    BY <1>3, <2>2 DEF HintInv, Rank, LaterIterationsAdvance, EarlyStopJustified, Finished
<1>4. CASE Fail
  BY <1>4 DEF HintInv, HintsLead, Watched, Fail, LaterIterationsAdvance,
              EarlyStopJustified, Finished, FailedResult, Answered
<1>5. CASE Investigate
  <2> DEFINE k == Len(enriched) + 1
             c == ranked[k]
  <2>1. /\ k \in DOMAIN ranked
        /\ enriched \in Seq(EnrichedCandidate)
        /\ Len(enriched) \in Nat
        /\ DOMAIN enriched = 1..Len(enriched)
    BY <1>5, LenProperties DEF IInv, TypeOK, Investigate
  <2>2. c \in Node /\ c \in BatchIds
    BY <1>5, <2>1, ElementOfSeq DEF IInv, TypeOK, Batch, Investigate, BatchIds
  <2> HIDE DEF k, c
  <2>3. PICK d \in Diagnoses(c), scanned \in BOOLEAN :
          /\ enriched' = Append(enriched,
               [node |-> c, domain |-> d.domain, evidence |-> d.evidence,
                origin |-> candidates[c].origin, found |-> iteration,
                scanned |-> scanned])
          /\ raised' = IF scanned
               THEN raised \cup Scan(c, incident.calls, incident.telemetry,
                                     known \cup BatchIds)
               ELSE raised
    BY <1>5 DEF Investigate, k, c
  <2> DEFINE r == [node |-> c, domain |-> d.domain, evidence |-> d.evidence,
                   origin |-> candidates[c].origin, found |-> iteration,
                   scanned |-> scanned]
  <2>4. /\ enriched' = Append(enriched, r)
        /\ r.node = c
        /\ r.scanned = scanned
        /\ raised' = IF scanned
             THEN raised \cup Scan(c, incident.calls, incident.telemetry,
                                   known \cup BatchIds)
             ELSE raised
    BY <2>3
  <2> HIDE DEF r
  <2>5. /\ DOMAIN enriched' = 1..k
        /\ \A i \in DOMAIN enriched : enriched'[i] = enriched[i]
        /\ enriched'[k] = r
    <3>1. enriched' \in Seq(EnrichedCandidate)
      BY <1>5, InvestigateIInv DEF IInv, TypeOK
    <3> QED
      BY <2>1, <2>4, <3>1, AppendProperties, LenProperties DEF k
  <2>6. UNCHANGED <<incident, pc, iteration, hints, known, BatchIds>>
    BY <1>5 DEF Investigate, BatchIds
  <2>7. /\ incident.telemetry \in [Node -> Telemetry]
        /\ incident.calls \subseteq incident.nodes \X incident.nodes
    BY ConstantsAssumption DEF IInv, TypeOK, Incident
  <2>8. HintsLead'
    <3>1. \A h \in Scan(c, incident.calls, incident.telemetry, known \cup BatchIds) :
            h.node \in incident.nodes
      <4>1. \A h \in Scan(c, incident.calls, incident.telemetry, known \cup BatchIds) :
              \/ <<c, h.node>> \in incident.calls
              \/ <<h.node, c>> \in incident.calls
        BY <2>2, <2>7, ScanFollowsCalls
      <4> QED
        BY <2>7, <4>1
    <3>2. pc # "localize"
      BY <1>5 DEF Investigate
    <3> QED
      BY <2>4, <2>6, <3>1, <3>2 DEF HintInv, HintsLead
  <2>9. Watched'
    <3> SUFFICES ASSUME NEW i \in DOMAIN enriched', NEW n \in Node,
                        enriched'[i].scanned,
                        \/ <<enriched'[i].node, n>> \in incident.calls
                        \/ <<n, enriched'[i].node>> \in incident.calls,
                        incident.telemetry[n].errors,
                        n \notin known \cup BatchIds
                 PROVE  \E h \in raised' : h.node = n
      BY <2>6 DEF Watched
    <3>1. CASE i \in DOMAIN enriched
      <4>1. \E h \in raised : h.node = n
        BY <1>5, <2>5, <3>1 DEF HintInv, Watched, Investigate
      <4> QED
        BY <2>4, <4>1
    <3>2. CASE i = k
      <4>1. r.node = c /\ scanned
        BY <2>4, <2>5, <3>2
      <4>2. /\ n # c
            /\ n \notin known \cup BatchIds
            /\ <<c, n>> \in incident.calls \/ <<n, c>> \in incident.calls
            /\ incident.telemetry[n].errors
        BY <2>2, <2>5, <3>2, <4>1
      <4>3. \E h \in Scan(c, incident.calls, incident.telemetry, known \cup BatchIds) :
              h.node = n
        BY <2>2, <2>7, <4>2, ScanFindsErrors
      <4> QED
        BY <2>4, <4>1, <4>3
    <3>3. i \in DOMAIN enriched \/ i = k
      BY <2>1, <2>5 DEF k
    <3> QED
      BY <3>1, <3>2, <3>3
  <2>10. LaterIterationsAdvance' /\ EarlyStopJustified'
    BY <1>5 DEF Investigate, LaterIterationsAdvance, EarlyStopJustified, Finished
  <2> QED
    BY <2>8, <2>9, <2>10 DEF HintInv
<1>6. CASE Iterate
  <2>1. HintsLead'
    <3>1. known' = known \cup BatchIds /\ hints' = NewHints /\ raised' = {}
      BY <1>6 DEF Iterate, CloseBatch
    <3>2. NewHints # {} /\ NewHints \subseteq raised /\ incident' = incident
      BY <1>6 DEF Iterate, NewHints
    <3>3. \A h \in NewHints : h.node \notin known'
      BY <3>1 DEF NewHints
    <3> QED
      BY <3>1, <3>2, <3>3 DEF HintInv, HintsLead
  <2>2. Watched' /\ LaterIterationsAdvance' /\ EarlyStopJustified'
    BY <1>6 DEF Iterate, Watched, LaterIterationsAdvance, EarlyStopJustified, Finished
  <2> QED
    BY <2>1, <2>2 DEF HintInv
<1>7. CASE Stop
  <2>1. UNCHANGED <<incident, iteration, hints, raised, result>> /\ pc' = "score"
    BY <1>7 DEF Stop
  <2>2. HintsLead' /\ Watched'
    BY <2>1 DEF HintInv, HintsLead, Watched
  <2>3. LaterIterationsAdvance'
    BY <1>7, <2>1, CloseBatchKeeps DEF Stop, LaterIterationsAdvance
  <2>4. EarlyStopJustified'
    <3> SUFFICES ASSUME iteration < MAX_ITERATIONS,
                        NEW i \in DOMAIN all_enriched', NEW n \in Node,
                        all_enriched'[i].found = iteration,
                        all_enriched'[i].scanned,
                        \/ <<all_enriched'[i].node, n>> \in incident.calls
                        \/ <<n, all_enriched'[i].node>> \in incident.calls,
                        incident.telemetry[n].errors
                 PROVE  n \in known'
      BY <2>1 DEF EarlyStopJustified
    <3>1. PICK j \in DOMAIN enriched : all_enriched'[i] = enriched[j]
      BY <1>7, CloseBatchKeeps DEF Stop
    <3>2. n \in known \cup BatchIds \/ \E h \in raised : h.node = n
      BY <1>7, <3>1 DEF HintInv, Watched, Stop, CloseBatch
    <3>3. NewHints = {}
      BY <1>7, ConstantsAssumption DEF IInv, TypeOK, Stop
    <3>4. n \in known \cup BatchIds
      BY <3>2, <3>3 DEF NewHints
    <3> QED
      BY <1>7, <3>4 DEF Stop, CloseBatch
  <2> QED
    BY <2>2, <2>3, <2>4 DEF HintInv
<1>8. CASE Score \/ NothingToScore \/ Decide
  <2>1. /\ UNCHANGED <<incident, iteration, hints, raised, known, all_enriched>>
        /\ pc' \notin {"localize", "investigate"}
        /\ pc \in {"score", "decide"}
    BY <1>8 DEF Score, NothingToScore, Decide
  <2>2. HintsLead' /\ Watched'
    BY <2>1 DEF HintInv, HintsLead, Watched
  <2>3. LaterIterationsAdvance' /\ EarlyStopJustified'
    BY <2>1 DEF HintInv, LaterIterationsAdvance, EarlyStopJustified, Finished
  <2> QED
    BY <2>2, <2>3 DEF HintInv
<1> QED
  BY <1>1, <1>2, <1>3, <1>4, <1>5, <1>6, <1>7, <1>8 DEF Next, Analyze, Returned

LEMMA HintInvariance == Spec => []HintInv
<1>1. Init => HintInv
  BY ConstantsAssumption DEF Init, HintInv, HintsLead, Watched, LaterIterationsAdvance,
     EarlyStopJustified, Finished
<1> QED
  BY <1>1, NextHintInv, Invariance, PTL DEF Spec

(* Every iteration that hints started investigated something: the hints the
   engine goes on with (engine.py: new_hints) are ones the localizer includes. *)
THEOREM IterationsAdvance == Spec => []LaterIterationsAdvance
<1>1. HintInv => LaterIterationsAdvance
  BY DEF HintInv
<1> QED
  BY <1>1, HintInvariance, PTL

(* When the loop stops before the cap, every caller and callee with error spans
   of a node scanned last has been investigated. *)
THEOREM EarlyStopsAreJustified == Spec => []EarlyStopJustified
<1>1. HintInv => EarlyStopJustified
  BY DEF HintInv
<1> QED
  BY <1>1, HintInvariance, PTL

----------------------------------------------------------------------------
(* The verdict is the one the confidences call for *)

(* The scorer's list is ordered, as long as the results, and holds a confidence
   above zero exactly when some result has evidence. *)
Ordered ==
  /\ DOMAIN scored = DOMAIN all_enriched
  /\ \A i, j \in DOMAIN scored :
       i < j => scored[i].confidence >= scored[j].confidence
  /\ (\A i \in DOMAIN scored : scored[i].confidence = 0) <=>
       \A i \in DOMAIN all_enriched : all_enriched[i].evidence = NoEvidence

VerdictInv ==
  /\ pc \notin {"decide", "done"} => scored = <<>>
  /\ pc = "decide" => Ordered
  /\ VerdictMatchesEvidence

(* A confidence is zero only without evidence. *)
LEMMA ConfidenceOfNothing ==
  ASSUME NEW e \in EvidenceCount, NEW fellShort \in BOOLEAN,
         fellShort => MayFallShort(e)
  PROVE  DomainConfidence(e, fellShort) = 0 <=> e = NoEvidence
<1>1. /\ e.strong \in Nat /\ e.moderate \in Nat /\ e.weak \in Nat
      /\ e = [strong |-> e.strong, moderate |-> e.moderate, weak |-> e.weak]
  BY DEF EvidenceCount
<1>2. RawScore(e) = 0 <=> e.strong = 0 /\ e.moderate = 0 /\ e.weak = 0
  <2>1. ASSUME NEW a \in Nat, NEW b \in Nat, NEW c \in Nat
        PROVE  35 * a + 15 * b + 5 * c = 0 <=> a = 0 /\ b = 0 /\ c = 0
    OBVIOUS
  <2>2. RawScore(e) = 35 * e.strong + 15 * e.moderate + 5 * e.weak
    BY DEF RawScore, STRONG_WEIGHT, MODERATE_WEIGHT, WEAK_WEIGHT
  <2> QED
    BY <1>1, <2>1, <2>2
<1>3. e = NoEvidence <=> e.strong = 0 /\ e.moderate = 0 /\ e.weak = 0
  BY <1>1 DEF NoEvidence
<1>4. RawScore(e) \in Nat
  BY <1>1 DEF RawScore, STRONG_WEIGHT, MODERATE_WEIGHT, WEAK_WEIGHT
<1>5. DomainConfidence(e, fellShort) = 0 <=> RawScore(e) = 0
  BY <1>4 DEF DomainConfidence, Capped, FellShort, MAX_EVIDENCE_SCORE, MayFallShort
<1> QED
  BY <1>2, <1>3, <1>5

(* An injection of 1..n into itself leaves nothing out. *)
LEMMA InjectionIsOnto ==
  ASSUME NEW n \in Nat, NEW o \in [1..n -> 1..n],
         \A i, j \in 1..n : o[i] = o[j] => i = j
  PROVE  \A j \in 1..n : \E i \in 1..n : o[i] = j
<1>1. o \in Injection(1..n, 1..n)
  BY DEF Injection, IsInjective
<1>2. IsFiniteSet(1..n)
  BY FS_Interval
<1>3. o \in Surjection(1..n, 1..n)
  BY <1>1, <1>2, FS_Injection
<1> QED
  BY <1>3 DEF Surjection

(* The scorer leaves an ordered list of all the results. *)
LEMMA ScoreOrders == IInv /\ Score => Ordered'
<1> SUFFICES ASSUME IInv, Score PROVE Ordered'
  OBVIOUS
<1> DEFINE n == Len(all_enriched)
<1>1. n \in Nat /\ DOMAIN all_enriched = 1..n /\ all_enriched \in Seq(EnrichedCandidate)
  BY LenProperties DEF IInv, TypeOK
<1>2. \A i \in 1..n : all_enriched[i].evidence \in EvidenceCount
  <2>1. \A i \in 1..n : all_enriched[i] \in EnrichedCandidate
    BY <1>1, ElementOfSeq
  <2> QED
    BY <2>1 DEF EnrichedCandidate
<1> HIDE DEF n
<1>3. PICK confidence \in Confidences : \E o \in Descending(confidence) :
        scored' = [i \in DOMAIN all_enriched |->
                     Scored(all_enriched[o[i]], confidence[o[i]])]
  BY DEF Score
<1>4. PICK o \in Descending(confidence) :
        scored' = [i \in DOMAIN all_enriched |->
                     Scored(all_enriched[o[i]], confidence[o[i]])]
  BY <1>3
<1>5. PICK short \in SUBSET {i \in DOMAIN all_enriched :
                               MayFallShort(all_enriched[i].evidence)} :
        confidence = [i \in DOMAIN all_enriched |->
                        DomainConfidence(all_enriched[i].evidence, i \in short)]
  BY DEF Confidences
<1>6. DOMAIN confidence = 1..n
  BY <1>1, <1>5
<1>7. /\ o \in [1..n -> 1..n]
      /\ \A i, j \in 1..n : o[i] = o[j] => i = j
      /\ \A i, j \in 1..n : i < j => confidence[o[i]] >= confidence[o[j]]
  BY <1>1, <1>6, DescendingInjective
<1>8. \A j \in 1..n : \E i \in 1..n : o[i] = j
  BY <1>1, <1>7, InjectionIsOnto
<1>9. /\ DOMAIN scored' = 1..n
      /\ \A i \in 1..n : scored'[i].confidence = confidence[o[i]]
  BY <1>1, <1>4 DEF Scored
<1>10. \A i \in 1..n : confidence[i] = 0 <=> all_enriched[i].evidence = NoEvidence
  <2> SUFFICES ASSUME NEW i \in 1..n
               PROVE  confidence[i] = 0 <=> all_enriched[i].evidence = NoEvidence
    OBVIOUS
  <2> DEFINE e == all_enriched[i].evidence
  <2>1. /\ e \in EvidenceCount
        /\ (i \in short) \in BOOLEAN
        /\ i \in short => MayFallShort(e)
    BY <1>2, <1>5
  <2>2. confidence[i] = DomainConfidence(e, i \in short)
    BY <1>1, <1>5
  <2> HIDE DEF e
  <2>3. confidence[i] = 0 <=> e = NoEvidence
    BY <2>1, <2>2, ConfidenceOfNothing
  <2> QED
    BY <2>3 DEF e
<1>11. (\A i \in 1..n : scored'[i].confidence = 0) <=>
         \A i \in 1..n : all_enriched[i].evidence = NoEvidence
  <2>1. ASSUME \A i \in 1..n : scored'[i].confidence = 0, NEW j \in 1..n
        PROVE  all_enriched[j].evidence = NoEvidence
    <3>1. PICK i \in 1..n : o[i] = j
      BY <1>8
    <3>2. confidence[j] = 0
      BY <1>9, <2>1, <3>1
    <3> QED
      BY <1>10, <3>2
  <2>2. ASSUME \A j \in 1..n : all_enriched[j].evidence = NoEvidence, NEW i \in 1..n
        PROVE  scored'[i].confidence = 0
    <3>1. o[i] \in 1..n
      BY <1>7
    <3>2. confidence[o[i]] = 0
      BY <1>10, <2>2, <3>1
    <3> QED
      BY <1>9, <3>2
  <2> QED
    BY <2>1, <2>2
<1>12. \A i, j \in 1..n : i < j => scored'[i].confidence >= scored'[j].confidence
  BY <1>7, <1>9
<1>13. all_enriched' = all_enriched
  BY DEF Score
<1> QED
  BY <1>1, <1>9, <1>11, <1>12, <1>13 DEF Ordered

LEMMA ScoresAreNatural ==
  ASSUME NEW s \in Seq(ScoredCandidate)
  PROVE  \A i \in DOMAIN s : s[i].confidence \in Nat
<1> SUFFICES ASSUME NEW i \in DOMAIN s PROVE s[i].confidence \in Nat
  OBVIOUS
<1>1. s[i] \in ScoredCandidate
  BY LenProperties, ElementOfSeq
<1> DEFINE c == s[i].confidence
<1>2. c \in 0..95
  BY <1>1 DEF ScoredCandidate, MAX_EVIDENCE_SCORE
<1> HIDE DEF c
<1>3. c \in Nat
  BY <1>2
<1> QED
  BY <1>3 DEF c

(* Over an ordered list the verdict names the best candidate first, and the
   second of two causes is the best of the other domains. *)
LEMMA VerdictIsCalledFor ==
  ASSUME NEW s \in Seq(ScoredCandidate), s # <<>>, NEW f \in BOOLEAN,
         \A i, j \in DOMAIN s : i < j => s[i].confidence >= s[j].confidence,
         NEW d, d = DetermineVerdict(s, f),
         NEW two, two <=>
           (f /\ \E i, j \in Qualifying(s) : s[i].domain # s[j].domain)
  PROVE  /\ d.verdict = "multi_factor" <=> two
         /\ d.verdict = "root_cause_found" <=>
              ~two /\ \E i \in DOMAIN s : s[i].confidence >= CONFIDENCE_THRESHOLD
         /\ d.verdict = "no_root_cause_found" <=>
              \A i \in DOMAIN s : s[i].confidence = 0
         /\ d.roots # <<>> =>
              \A i \in DOMAIN s : s[i].confidence <= d.roots[1].confidence
         /\ two =>
              /\ d.roots[1].domain # d.roots[2].domain
              /\ \A i \in DOMAIN s :
                   s[i].domain # d.roots[1].domain
                     => s[i].confidence <= d.roots[2].confidence
<1> DEFINE Q == Qualifying(s)
           R == Rivals(s)
           q == First(Q)
           r == First(R)
<1>1. Len(s) \in Nat \ {0} /\ DOMAIN s = 1..Len(s)
  BY EmptySeq, LenProperties
<1>2. \A i \in DOMAIN s : s[i].confidence \in Nat
  BY ScoresAreNatural
<1>3. 1 \in DOMAIN s /\ \A i \in DOMAIN s : s[i].confidence <= s[1].confidence
  <2>1. 1 \in DOMAIN s /\ \A i \in DOMAIN s : i = 1 \/ 1 < i
    BY <1>1
  <2> QED
    BY <1>2, <2>1
<1>4. /\ Q \in SUBSET Nat
      /\ R \in SUBSET Nat
      /\ Q \subseteq DOMAIN s
      /\ \A i \in DOMAIN s : i \in Q <=> s[i].confidence >= MULTI_FACTOR_THRESHOLD
      /\ \A i : i \in R <=> i \in Q /\ s[i].domain # s[q].domain
  BY <1>1 DEF Qualifying, Rivals
<1>5. two <=> f /\ R # {}
  <2>1. Q # {} => q \in Q
    BY <1>4, FirstIsLeast
  <2>2. ASSUME NEW i \in Q, NEW j \in Q, s[i].domain # s[j].domain PROVE R # {}
    BY <1>4, <2>2
  <2>3. R # {} => \E i, j \in Q : s[i].domain # s[j].domain
    BY <1>4, <2>1
  <2> QED
    BY <2>2, <2>3
<1>6. CASE two
  <2>1. /\ d.verdict = "multi_factor"
        /\ d.roots = <<s[q], s[r]>>
    BY <1>5, <1>6 DEF DetermineVerdict
  <2> HIDE DEF Q, R
  <2>2. r \in R /\ \A j \in R : r <= j
    BY <1>4, <1>5, <1>6, FirstIsLeast
  <2>3. q \in Q /\ \A j \in Q : q <= j
    BY <1>4, <2>2, FirstIsLeast
  <2> HIDE DEF q, r
  <2>4. r \in DOMAIN s /\ s[r].confidence >= MULTI_FACTOR_THRESHOLD
    BY <1>4, <2>2
  <2>5. \A i \in DOMAIN s : s[i].confidence <= s[q].confidence
    <3>1. s[1].confidence >= MULTI_FACTOR_THRESHOLD
      BY <1>2, <1>3, <2>4 DEF MULTI_FACTOR_THRESHOLD
    <3>2. 1 \in Q
      BY <1>3, <1>4, <3>1
    <3>3. q = 1
      BY <1>1, <1>4, <2>3, <3>2
    <3> QED
      BY <1>3, <3>3
  <2>6. s[q].domain # s[r].domain
    BY <1>4, <2>2
  <2>7. ASSUME NEW i \in DOMAIN s, s[i].domain # s[q].domain
        PROVE  s[i].confidence <= s[r].confidence
    <3>1. CASE i \in Q
      <4>1. i \in R /\ r <= i
        BY <1>4, <2>2, <2>7, <3>1
      <4>2. i = r \/ r < i
        BY <1>1, <2>4, <4>1
      <4> QED
        BY <1>2, <2>4, <4>2
    <3>2. CASE i \notin Q
      <4>1. ~(s[i].confidence >= MULTI_FACTOR_THRESHOLD)
        BY <1>4, <3>2
      <4> QED
        BY <1>2, <2>4, <4>1 DEF MULTI_FACTOR_THRESHOLD
    <3> QED
      BY <3>1, <3>2
  <2>8. s[r].confidence # 0
    BY <1>2, <2>4 DEF MULTI_FACTOR_THRESHOLD
  <2>9. d.roots[1] = s[q] /\ d.roots[2] = s[r]
    BY <2>1
  <2> QED
    BY <1>6, <2>1, <2>4, <2>5, <2>6, <2>7, <2>8, <2>9
<1>7. CASE ~two /\ s[1].confidence >= CONFIDENCE_THRESHOLD
  <2>1. d.verdict = "root_cause_found" /\ d.roots = <<s[1]>>
    BY <1>5, <1>7 DEF DetermineVerdict
  <2>2. d.roots[1] = s[1]
    BY <2>1
  <2>3. s[1].confidence # 0
    BY <1>2, <1>3, <1>7 DEF CONFIDENCE_THRESHOLD
  <2> QED
    BY <1>3, <1>7, <2>1, <2>2, <2>3
<1>8. CASE ~two /\ ~(s[1].confidence >= CONFIDENCE_THRESHOLD)
  <2>1. ~\E i \in DOMAIN s : s[i].confidence >= CONFIDENCE_THRESHOLD
    BY <1>2, <1>3, <1>8 DEF CONFIDENCE_THRESHOLD
  <2>2. CASE \E i \in DOMAIN s : s[i].confidence > 0
    <3>1. /\ d.verdict = "top_hypotheses"
          /\ d.roots = SubSeq(s, 1, IF Len(s) < 3 THEN Len(s) ELSE 3)
      BY <1>5, <1>8, <2>2 DEF DetermineVerdict
    <3>2. d.roots[1] = s[1]
      BY <1>1, <3>1
    <3>3. ~\A i \in DOMAIN s : s[i].confidence = 0
      BY <1>2, <2>2
    <3> QED
      BY <1>3, <1>8, <2>1, <3>1, <3>2, <3>3
  <2>3. CASE ~\E i \in DOMAIN s : s[i].confidence > 0
    <3>1. d.verdict = "no_root_cause_found" /\ d.roots = <<>>
      BY <1>5, <1>8, <2>3 DEF DetermineVerdict
    <3>2. \A i \in DOMAIN s : s[i].confidence = 0
      BY <1>2, <2>3
    <3> QED
      BY <1>8, <2>1, <3>1, <3>2
  <2> QED
    BY <2>2, <2>3
<1> QED
  BY <1>6, <1>7, <1>8

(* Deciding gives the verdict the ordered list calls for. *)
LEMMA DecideVerdict == IInv /\ VerdictInv /\ Decide => VerdictMatchesEvidence'
<1> SUFFICES ASSUME IInv, VerdictInv, Decide PROVE VerdictMatchesEvidence'
  OBVIOUS
<1> DEFINE d == DetermineVerdict(scored, flagged)
           two == flagged /\ \E i, j \in Qualifying(scored) :
                               scored[i].domain # scored[j].domain
<1>1. /\ scored \in Seq(ScoredCandidate) /\ scored # <<>> /\ flagged \in BOOLEAN
      /\ Ordered
  BY DEF IInv, TypeOK, Progress, VerdictInv, Decide
<1>2. /\ d.verdict = "multi_factor" <=> two
      /\ d.verdict = "root_cause_found" <=>
           ~two /\ \E i \in DOMAIN scored : scored[i].confidence >= CONFIDENCE_THRESHOLD
      /\ d.verdict = "no_root_cause_found" <=>
           \A i \in DOMAIN scored : scored[i].confidence = 0
      /\ d.roots # <<>> =>
           \A i \in DOMAIN scored : scored[i].confidence <= d.roots[1].confidence
      /\ two =>
           /\ d.roots[1].domain # d.roots[2].domain
           /\ \A i \in DOMAIN scored :
                scored[i].domain # d.roots[1].domain
                  => scored[i].confidence <= d.roots[2].confidence
  BY <1>1, VerdictIsCalledFor DEF Ordered
<1>3. /\ result'.verdict = d.verdict
      /\ result'.roots = d.roots
      /\ UNCHANGED <<scored, flagged, all_enriched>>
  BY DEF Decide, Answered
<1>4. /\ Confident(MULTI_FACTOR_THRESHOLD) = Qualifying(scored)
      /\ Confident(CONFIDENCE_THRESHOLD) # {} <=>
           \E i \in DOMAIN scored : scored[i].confidence >= CONFIDENCE_THRESHOLD
  BY DEF Confident, Qualifying
<1>5. /\ Confident(MULTI_FACTOR_THRESHOLD)' = Confident(MULTI_FACTOR_THRESHOLD)
      /\ Confident(CONFIDENCE_THRESHOLD)' = Confident(CONFIDENCE_THRESHOLD)
  BY <1>3 DEF Confident
<1> DEFINE two2 == flagged' /\ \E i, j \in Confident(MULTI_FACTOR_THRESHOLD)' :
                                 scored'[i].domain # scored'[j].domain
<1>6. two2 <=> two
  BY <1>3, <1>4, <1>5
<1> HIDE DEF d, two, two2
<1>7. /\ result'.verdict = "multi_factor" <=> two2
      /\ result'.verdict = "root_cause_found" <=>
           ~two2 /\ Confident(CONFIDENCE_THRESHOLD)' # {}
      /\ result'.verdict = "no_root_cause_found" <=>
           \A i \in DOMAIN all_enriched' : all_enriched'[i].evidence = NoEvidence
      /\ result'.roots # <<>> =>
           \A i \in DOMAIN scored' : scored'[i].confidence <= result'.roots[1].confidence
      /\ two2 =>
           /\ result'.roots[1].domain # result'.roots[2].domain
           /\ \A i \in DOMAIN scored' :
                scored'[i].domain # result'.roots[1].domain
                  => scored'[i].confidence <= result'.roots[2].confidence
  BY <1>1, <1>2, <1>3, <1>4, <1>5, <1>6 DEF Ordered
<1> QED
  BY <1>7 DEF VerdictMatchesEvidence, two2

(* No step leaves a verdict the evidence does not call for. *)
LEMMA NextVerdictInv == IInv /\ VerdictInv /\ [Next]_vars => VerdictInv'
<1> SUFFICES ASSUME IInv, VerdictInv, [Next]_vars PROVE VerdictInv'
  OBVIOUS
<1>1. CASE UNCHANGED vars
  BY <1>1 DEF vars, VerdictInv, Ordered, VerdictMatchesEvidence, Confident
<1>2. CASE Localize \/ Rank \/ Investigate \/ Iterate \/ Stop
  BY <1>2 DEF Localize, Rank, Investigate, Iterate, Stop, CloseBatch, VerdictInv,
              VerdictMatchesEvidence
<1>3. CASE Fail
  BY <1>3 DEF Fail, FailedResult, Answered, VerdictInv, VerdictMatchesEvidence
<1>4. CASE Score
  <2>1. Ordered'
    BY <1>4, ScoreOrders
  <2> QED
    BY <1>4, <2>1 DEF Score, VerdictInv, VerdictMatchesEvidence
<1>5. CASE NothingToScore
  <2>1. /\ scored' = <<>> /\ all_enriched' = <<>> /\ pc' = "done"
        /\ result'.verdict = "no_root_cause_found" /\ result'.roots = <<>>
    BY <1>5 DEF NothingToScore, Answered, VerdictInv
  <2>2. DOMAIN scored' = {} /\ DOMAIN all_enriched' = {}
    BY <2>1
  <2>3. VerdictMatchesEvidence'
    BY <2>1, <2>2 DEF VerdictMatchesEvidence, Confident
  <2> QED
    BY <2>1, <2>3 DEF VerdictInv
<1>6. CASE Decide
  <2>1. pc' = "done"
    BY <1>6 DEF Decide
  <2> QED
    BY <1>6, <2>1, DecideVerdict DEF VerdictInv
<1> QED
  BY <1>1, <1>2, <1>3, <1>4, <1>5, <1>6 DEF Next, Analyze, Returned

(* For every evidence the engines may return and every order equal confidences
   may take, the verdict is the one the confidences of all investigated nodes
   call for. *)
THEOREM VerdictsMatchEvidence == Spec => []VerdictMatchesEvidence
<1>1. Init => VerdictInv
  BY DEF Init, VerdictInv, VerdictMatchesEvidence
<1>2. VerdictInv => VerdictMatchesEvidence
  BY DEF VerdictInv
<1> QED
  BY <1>1, <1>2, NextVerdictInv, Invariance, PTL DEF Spec

============================================================================
