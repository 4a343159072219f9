------------------------------ MODULE Verdict ------------------------------
(***************************************************************************)
(* From evidence to verdict: the evidence arbitrator's multi-factor flag   *)
(* (reasoning/evidence_arbitrator.py), the scorer's confidence             *)
(* (reasoning/scorer.py) and the verdict (engine._determine_verdict).      *)
(* Confidences are in hundredths.                                          *)
(***************************************************************************)
EXTENDS Integers, Sequences

STRONG_WEIGHT == 35
MODERATE_WEIGHT == 15
WEAK_WEIGHT == 5
MAX_EVIDENCE_SCORE == 95

CONFIDENCE_THRESHOLD == 70
MULTI_FACTOR_THRESHOLD == 65

(* How many items of each strength a candidate's evidence list holds. *)
EvidenceCount == [strong : Nat, moderate : Nat, weak : Nat]
NoEvidence == [strong |-> 0, moderate |-> 0, weak |-> 0]

Domain == {"application_code", "database", "dependency", "configuration",
           "queue", "unknown"}

----------------------------------------------------------------------------
(* arbitrate(): two candidates of one batch with STRONG evidence, in
   different domains. *)
MultiFactorFlagged(batch) ==
  \E i, j \in DOMAIN batch :
    /\ batch[i].evidence.strong > 0
    /\ batch[j].evidence.strong > 0
    /\ batch[i].domain # batch[j].domain

----------------------------------------------------------------------------
RawScore(e) == STRONG_WEIGHT * e.strong + MODERATE_WEIGHT * e.moderate
                 + WEAK_WEIGHT * e.weak

Capped(raw) == IF raw > MAX_EVIDENCE_SCORE THEN MAX_EVIDENCE_SCORE ELSE raw

(* score() adds doubles in the order of the evidence list. A sum of 0.70 never
   falls short of it, but a sum of 0.65 does in some orders (0.15 + 0.15 + 0.35
   is 0.6499999999999999): 64 stands for that value. *)
MayFallShort(e) == RawScore(e) = 65
FellShort == 64

(* Mutant: the sum is not capped. *)
DomainConfidenceUncapped(e, fellShort) ==
  IF fellShort THEN FellShort ELSE RawScore(e)

DomainConfidence(e, fellShort) ==
  IF fellShort THEN FellShort ELSE Capped(RawScore(e))

----------------------------------------------------------------------------
Verdicts == {"root_cause_found", "top_hypotheses", "multi_factor",
             "no_root_cause_found"}

(* The walk over the ranking that collects candidates over the multi-factor
   threshold, one per domain, and stops at two: the first that qualifies, then
   the first after it in another domain. *)
Qualifying(scored) ==
  {i \in DOMAIN scored : scored[i].confidence >= MULTI_FACTOR_THRESHOLD}

First(S) == CHOOSE i \in S : \A j \in S : i <= j

Rivals(scored) ==
  {j \in Qualifying(scored) :
     scored[j].domain # scored[First(Qualifying(scored))].domain}

(* Mutant: a confident top candidate ends the decision before the multi-factor
   check. *)
DetermineVerdictTopFirst(scored, flagged) ==
  LET top == scored[1]
      verdict(v, roots) == [verdict |-> v, roots |-> roots]
  IN  IF top.confidence >= CONFIDENCE_THRESHOLD
      THEN verdict("root_cause_found", <<top>>)
      ELSE IF flagged /\ Rivals(scored) # {}
      THEN verdict("multi_factor",
                   <<scored[First(Qualifying(scored))], scored[First(Rivals(scored))]>>)
      ELSE verdict("no_root_cause_found", <<>>)

DetermineVerdict(scored, flagged) ==
  LET top == scored[1]
      verdict(v, roots) == [verdict |-> v, roots |-> roots]
  IN  IF flagged /\ Rivals(scored) # {}
      THEN verdict("multi_factor",
                   <<scored[First(Qualifying(scored))], scored[First(Rivals(scored))]>>)
      ELSE IF top.confidence >= CONFIDENCE_THRESHOLD
      THEN verdict("root_cause_found", <<top>>)
      ELSE IF \E i \in DOMAIN scored : scored[i].confidence > 0
      THEN verdict("top_hypotheses",
                   SubSeq(scored, 1, IF Len(scored) < 3 THEN Len(scored) ELSE 3))
      ELSE verdict("no_root_cause_found", <<>>)
============================================================================
