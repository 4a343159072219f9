-------------------------- MODULE ServiceRCAProofs --------------------------
(***************************************************************************)
(* What the service engine guarantees for every incident: proofs about     *)
(* ServiceRCA.                                                             *)
(***************************************************************************)
EXTENDS ServiceRCA, TLAPS, SequenceTheorems, FiniteSetTheorems,
        WellFoundedInduction

----------------------------------------------------------------------------
(* The inductive invariant *)

(* A match was found by a search that an accepted change allows, at a level that
   some frame of some error span has. *)
Matched ==
  match.level # "none" =>
    /\ ChangeAccepted
    /\ inc.code_access_enabled
    /\ match.level \in Levels

HasStrong(evidence) == \E i \in DOMAIN evidence : evidence[i].strength = "STRONG"

(* The stages after the question whether the change is a smoking gun. *)
AfterMatch == {"end_code", "changes", "assess", "arbitrate", "done"}

(* A smoking gun rests on a match and an answer, and its evidence is there. *)
Smoked ==
  smoking =>
    /\ pc \in AfterMatch
    /\ match.level \in {"exact_line", "function_match"}
    /\ \E i \in DOMAIN answers : answers[i] = [call |-> "case_b", reply |-> "likely"]
    /\ HasStrong(code)

(* What a smoking gun makes of the answer. *)
Decided ==
  Diagnosed /\ smoking =>
    /\ result.domain = "application_code"
    /\ result.failure_type = "code_regression"
    /\ result.priority = 95

IInv ==
  /\ TypeOK
  /\ Matched
  /\ Smoked
  /\ Decided

----------------------------------------------------------------------------
(* Least elements *)

(* A non-empty set of naturals has a least element. *)
LEMMA LeastNat ==
  ASSUME NEW S \in SUBSET Nat, S # {}
  PROVE  \E x \in S : \A y \in S : x <= y
<1> DEFINE R == OpToRel(<, Nat)
<1>1. IsWellFoundedOn(R, Nat)
  BY NatLessThanWellFounded
<1>2. \A x, y \in Nat : x < y => <<x, y>> \in R
  BY DEF OpToRel
<1> HIDE DEF R
<1>3. PICK x \in S : \A y \in S : <<y, x>> \notin R
  BY <1>1, WFMin
<1>4. ASSUME NEW y \in S PROVE x <= y
  <2>1. x \in Nat /\ y \in Nat
    OBVIOUS
  <2>2. ~(y < x)
    BY <1>2, <1>3, <2>1
  <2> QED BY <2>1, <2>2
<1> QED BY <1>4

LEMMA FirstMember ==
  ASSUME NEW S \in SUBSET Nat, S # {}
  PROVE  First(S) \in S
BY LeastNat DEF First

(* A non-empty set of positions has one that comes before all others. *)
LEMMA FirstPosition ==
  ASSUME NEW T \in SUBSET (Nat \X Nat), T # {}
  PROVE  \E p \in T : \A q \in T : p = q \/ Before(p, q)
<1> DEFINE A == {p[1] : p \in T}
<1>1. A \in SUBSET Nat /\ A # {}
  OBVIOUS
<1>2. PICK a \in A : \A x \in A : a <= x
  BY <1>1, LeastNat
<1> DEFINE B == {p[2] : p \in {r \in T : r[1] = a}}
<1>3. B \in SUBSET Nat /\ B # {}
  BY <1>2
<1> HIDE DEF B
<1>4. PICK b \in B : \A y \in B : b <= y
  BY <1>3, LeastNat
<1>5. PICK p \in T : p[1] = a /\ p[2] = b
  BY <1>4 DEF B
<1>6. ASSUME NEW q \in T PROVE p = q \/ Before(p, q)
  <2>1. /\ q \in Nat \X Nat /\ p \in Nat \X Nat
        /\ a \in Nat /\ b \in Nat
        /\ a <= q[1]
    BY <1>1, <1>2, <1>3, <1>4
  <2>2. CASE a = q[1]
    <3>1. b <= q[2]
      BY <1>4, <2>2 DEF B
    <3> QED BY <1>5, <2>1, <2>2, <3>1 DEF Before
  <2>3. CASE a # q[1]
    BY <1>5, <2>1, <2>3 DEF Before
  <2> QED BY <2>2, <2>3
<1> QED BY <1>6

----------------------------------------------------------------------------
(* The operators of the engines *)

LEMMA LevelType ==
  ASSUME NEW frame, NEW f
  PROVE  Level(frame, f) \in MatchLevel
BY DEF Level, MatchLevel

(* An error span is a span, with frames to compare; the change has functions. *)
LEMMA SpanType ==
  ASSUME inc \in Incident, NEW i \in ErrorSpans
  PROVE  /\ i \in Nat
         /\ inc.spans[i].frames \in Seq(Frame)
         /\ inc.change.functions \in Seq(FunctionChange)
<1>1. inc.spans \in Seq(Span) /\ inc.change \in CodeChange
  BY DEF Incident
<1>2. i \in DOMAIN inc.spans
  BY DEF ErrorSpans
<1>3. inc.spans[i] \in Span /\ i \in Nat
  <2> DEFINE s == inc.spans
  <2>1. s \in Seq(Span) /\ i \in DOMAIN s
    BY <1>1, <1>2
  <2> HIDE DEF s
  <2>2. s[i] \in Span /\ i \in Nat
    BY <2>1, ElementOfSeq, LenProperties
  <2> QED BY <2>2 DEF s
<1>4. inc.spans[i].frames \in Seq(Frame)
  BY <1>3 DEF Span
<1>5. inc.change.functions \in Seq(FunctionChange)
  BY <1>1 DEF CodeChange
<1> QED BY <1>3, <1>4, <1>5

LEMMA RankType ==
  ASSUME NEW level \in MatchLevel
  PROVE  Rank(level) \in {-1, 0, 1, 2}
BY DEF Rank, MatchLevel

(* A rank has a highest value on a non-empty set. *)
LEMMA HighestRank ==
  ASSUME NEW S, S # {}, NEW rank \in [S -> {-1, 0, 1, 2}]
  PROVE  \E p \in S : \A q \in S : rank[q] <= rank[p]
OBVIOUS

(* The search in a span ends at one of its frames and a changed function, and
   reports the level of these two; no others meet at a higher one. *)
LEMMA BestInProperties ==
  ASSUME inc \in Incident, NEW i \in ErrorSpans
  PROVE  /\ BestIn(i) \in Match
         /\ BestIn(i).level # "none" => BestIn(i).level \in Levels
         /\ \A p \in (DOMAIN inc.spans[i].frames) \X (DOMAIN inc.change.functions) :
              Rank(Level(inc.spans[i].frames[p[1]], inc.change.functions[p[2]]))
                <= Rank(BestIn(i).level)
<1> DEFINE functions == inc.change.functions
           frames == inc.spans[i].frames
           level(p) == Level(frames[p[1]], functions[p[2]])
           pairs == (DOMAIN frames) \X (DOMAIN functions)
           best == {p \in pairs : \A q \in pairs : Rank(level(q)) <= Rank(level(p))}
           first == CHOOSE p \in best : \A q \in best : p = q \/ Before(p, q)
<1>1. /\ i \in DOMAIN inc.spans
      /\ functions \in Seq(FunctionChange)
      /\ frames \in Seq(Frame)
  BY SpanType DEF ErrorSpans
<1>2. BestIn(i) = IF pairs = {} \/ level(first) = "none" THEN Unmatched
                  ELSE [level |-> level(first), code |-> functions[first[2]].code]
  BY DEF BestIn
<1>3. \A p : level(p) \in MatchLevel
  BY LevelType
<1>4. pairs \in SUBSET (Nat \X Nat)
  <2> HIDE DEF functions, frames
  <2>1. DOMAIN frames \in SUBSET Nat /\ DOMAIN functions \in SUBSET Nat
    BY <1>1, LenProperties
  <2> QED BY <2>1
<1>5. ASSUME pairs # {}
      PROVE  first \in pairs /\ \A q \in pairs : Rank(level(q)) <= Rank(level(first))
  <2> DEFINE rank == [p \in pairs |-> Rank(level(p))]
  <2>1. \A p : Rank(level(p)) \in {-1, 0, 1, 2}
    <3> HIDE DEF level
    <3> QED BY <1>3, RankType
  <2> HIDE DEF pairs, level
  <2>2. rank \in [pairs -> {-1, 0, 1, 2}]
    BY <2>1
  <2>3. PICK p \in pairs : \A q \in pairs : rank[q] <= rank[p]
    <3> HIDE DEF rank
    <3> QED BY <1>5, <2>2, HighestRank
  <2>4. p \in best
    BY <2>3
  <2>5. best # {} /\ best \in SUBSET (Nat \X Nat)
    BY <1>4, <2>4
  <2> HIDE DEF best
  <2>6. \E r \in best : \A q \in best : r = q \/ Before(r, q)
    BY <2>5, FirstPosition
  <2>7. first \in best
    BY <2>6
  <2> QED BY <2>7 DEF best
<1>6. CASE pairs = {} \/ level(first) = "none"
  <2>1. \A q \in pairs : Rank(level(q)) <= Rank("none")
    <3> HIDE DEF pairs, level, first
    <3> QED BY <1>5, <1>6
  <2>2. BestIn(i) = Unmatched
    <3> HIDE DEF pairs, level, first
    <3> QED BY <1>2, <1>6
  <2>3. BestIn(i) \in Match /\ BestIn(i).level = "none"
    BY <2>2 DEF Unmatched, Match, MatchLevel
  <2> QED BY <2>1, <2>3
<1>7. CASE ~(pairs = {} \/ level(first) = "none")
  <2>1. first \in pairs
    BY <1>5, <1>7
  <2>2. BestIn(i) = [level |-> level(first), code |-> functions[first[2]].code]
    BY <1>2, <1>7
  <2>3. level(first) \in MatchLevel
    BY <1>3
  <2> HIDE DEF first
  <2>4. first[1] \in DOMAIN frames /\ first[2] \in DOMAIN functions
    BY <2>1
  <2>5. functions[first[2]].code \in BOOLEAN
    <3> HIDE DEF functions
    <3>1. functions[first[2]] \in FunctionChange
      BY <1>1, <2>4, ElementOfSeq, LenProperties
    <3> QED BY <3>1 DEF FunctionChange
  <2>6. level(first) \in Levels
    BY <2>4 DEF Levels
  <2>7. BestIn(i) \in Match /\ BestIn(i).level = level(first)
    <3> HIDE DEF level, functions
    <3> QED BY <2>2, <2>3, <2>5 DEF Match
  <2>8. \A q \in pairs : Rank(level(q)) <= Rank(level(first))
    BY <1>5, <1>7
  <2> QED BY <2>6, <2>7, <2>8
<1> QED BY <1>6, <1>7

(* The search begins at level none and keeps to the levels it has seen. *)
LEMMA BetterProperties ==
  ASSUME NEW found \in Match,
         match \in Match
  PROVE  /\ Better(found) \in Match
         /\ \/ Better(found) = match
            \/ Better(found) = found
BY DEF Better

(* An assessment adds evidence of the right type, and strong evidence if it is
   favourable. *)
LEMMA AssessmentType ==
  ASSUME NEW signal \in Signals, NEW reply \in Replies, NEW likely \in BOOLEAN
  PROVE  /\ Assessment(signal, reply, likely) \in Seq(EvidenceItem)
         /\ Finding(reply) = "likely" /\ likely =>
              Assessment(signal, reply, likely) = <<Item(signal, "STRONG")>>
<1> DEFINE found == Finding(reply)
           strong == Item(signal, "STRONG")
           weak == Item(signal, "WEAK")
<1>1. strong \in EvidenceItem /\ weak \in EvidenceItem
  BY DEF Item, EvidenceItem, Strengths
<1>2. found \in {"likely", "unlikely", "uncertain"}
  BY DEF Finding, Replies
<1>3. Assessment(signal, reply, likely)
        = CASE found = "likely" /\ likely -> <<strong>>
            [] found = "unlikely" -> <<weak>>
            [] OTHER -> <<>>
  BY DEF Assessment
<1> HIDE DEF found, strong, weak
<1>4. <<strong>> \in Seq(EvidenceItem) /\ <<weak>> \in Seq(EvidenceItem)
      /\ <<>> \in Seq(EvidenceItem)
  BY <1>1
<1>5. CASE found = "likely" /\ likely
  BY <1>3, <1>4, <1>5 DEF found, strong
<1>6. CASE found = "unlikely"
  BY <1>3, <1>4, <1>6 DEF found
<1>7. CASE ~(found = "likely" /\ likely) /\ found # "unlikely"
  BY <1>3, <1>4, <1>7 DEF found
<1> QED BY <1>5, <1>6, <1>7

(* Evidence that is appended is evidence. *)
LEMMA ItemType ==
  ASSUME NEW signal \in Signals, NEW strength \in Strengths
  PROVE  Item(signal, strength) \in EvidenceItem
BY DEF Item, EvidenceItem

LEMMA StrongStays ==
  ASSUME NEW s \in Seq(EvidenceItem), NEW t \in Seq(EvidenceItem),
         HasStrong(s) \/ HasStrong(t)
  PROVE  HasStrong(s \o t)
<1>1. /\ Len(s) \in Nat /\ Len(t) \in Nat
      /\ DOMAIN s = 1..Len(s) /\ DOMAIN t = 1..Len(t)
      /\ Len(s \o t) = Len(s) + Len(t)
      /\ DOMAIN (s \o t) = 1..(Len(s) + Len(t))
  BY ConcatProperties, LenProperties
<1>2. CASE HasStrong(s)
  <2>1. PICK i \in DOMAIN s : s[i].strength = "STRONG"
    BY <1>2 DEF HasStrong
  <2>2. i \in DOMAIN (s \o t) /\ (s \o t)[i] = s[i]
    BY <1>1, ConcatProperties
  <2> QED BY <2>1, <2>2 DEF HasStrong
<1>3. CASE HasStrong(t)
  <2>1. PICK i \in DOMAIN t : t[i].strength = "STRONG"
    BY <1>3 DEF HasStrong
  <2>2. Len(s) + i \in DOMAIN (s \o t) /\ (s \o t)[Len(s) + i] = t[i]
    BY <1>1, ConcatProperties
  <2> QED BY <2>1, <2>2 DEF HasStrong
<1> QED BY <1>2, <1>3

(* Strong evidence is counted. *)
LEMMA StrongCount ==
  ASSUME NEW s \in Seq(EvidenceItem)
  PROVE  /\ Strong(s) \in Nat
         /\ HasStrong(s) <=> Strong(s) >= 1
<1> DEFINE S == {i \in DOMAIN s : s[i].strength = "STRONG"}
<1>1. IsFiniteSet(DOMAIN s)
  BY FS_Interval, LenProperties
<1>2. IsFiniteSet(S)
  BY <1>1, FS_Subset
<1>3. Cardinality(S) \in Nat /\ (Cardinality(S) = 0 <=> S = {})
  BY <1>2, FS_CardinalityType, FS_EmptySet
<1>4. Strong(s) = Cardinality(S)
  BY DEF Strong, CountOf
<1>5. HasStrong(s) <=> S # {}
  BY DEF HasStrong
<1> QED BY <1>3, <1>4, <1>5

(* Evidence that grows stays evidence, and keeps what is strong. *)
LEMMA AppendEvidence ==
  ASSUME NEW s \in Seq(EvidenceItem), NEW signal \in Signals, NEW strength \in Strengths
  PROVE  /\ Append(s, Item(signal, strength)) \in Seq(EvidenceItem)
         /\ <<Item(signal, strength)>> \in Seq(EvidenceItem)
<1> DEFINE item == Item(signal, strength)
<1>1. item \in EvidenceItem
  BY ItemType
<1> HIDE DEF item
<1>2. Append(s, item) \in Seq(EvidenceItem) /\ <<item>> \in Seq(EvidenceItem)
  BY <1>1
<1> QED BY <1>2 DEF item

----------------------------------------------------------------------------
(* The invariant holds at the start *)

LEMMA InitInv ==
  ASSUME Init
  PROVE  IInv
<1>1. inc \in Incident
  BY ServiceAssumption DEF Init
<1>2. NoOutcome \in Outcomes
  BY DEF NoOutcome, Outcome, Outcomes
<1>3. Unmatched \in Match
  BY DEF Unmatched, Match, MatchLevel
<1>4. TypeOK
  <2>1. /\ code \in Seq(EvidenceItem) /\ config \in Seq(EvidenceItem)
        /\ changes \in Seq({"flag", "config"}) /\ answers \in Seq(Answer)
    BY DEF Init
  <2> QED BY <1>1, <1>2, <1>3, <2>1 DEF Init, TypeOK, Stages
<1>5. Matched /\ Smoked /\ Decided
  BY DEF Init, Matched, Smoked, Decided, Unmatched
<1> QED BY <1>4, <1>5 DEF IInv

(* What is derived from the incident changes only with it. *)
LEMMA SameIncident ==
  ASSUME inc' = inc
  PROVE  /\ ErrorSpans' = ErrorSpans
         /\ Levels' = Levels
         /\ ChangeAccepted' = ChangeAccepted
<1>1. ErrorSpans' = ErrorSpans
  BY DEF ErrorSpans
<1>2. Levels' = Levels
  BY <1>1 DEF Levels
<1>3. ChangeAccepted' = ChangeAccepted
  BY DEF ChangeAccepted, deploy_found, DeploysInWindow, RecentDeploy
<1> QED BY <1>1, <1>2, <1>3

----------------------------------------------------------------------------
(* Every step keeps it.  First, the parts a step leaves alone. *)

LEMMA QuietMatched ==
  ASSUME Matched, inc' = inc, match' = match
  PROVE  Matched'
BY SameIncident DEF Matched

(* Before the question there is no smoking gun, and none comes about. *)
LEMMA QuietBefore ==
  ASSUME IInv, pc \notin AfterMatch, pc' # "done", smoking' = smoking
  PROVE  Smoked' /\ Decided'
BY DEF IInv, Smoked, Decided, Diagnosed

(* After it, the code engine's evidence only grows, and the answers do. *)
LEMMA QuietAfter ==
  ASSUME IInv, match' = match, smoking' = smoking,
         pc' \in AfterMatch, pc' # "done",
         \/ answers' = answers
         \/ \E a : answers' = Append(answers, a),
         HasStrong(code) => HasStrong(code')
  PROVE  Smoked' /\ Decided'
<1>1. Decided'
  BY DEF Decided, Diagnosed
<1>2. ASSUME smoking' PROVE \E i \in DOMAIN answers' :
         answers'[i] = [call |-> "case_b", reply |-> "likely"]
  <2> DEFINE gun == [call |-> "case_b", reply |-> "likely"]
  <2>1. PICK i \in DOMAIN answers : answers[i] = gun
    BY <1>2 DEF IInv, Smoked
  <2> HIDE DEF gun
  <2>2. answers \in Seq(Answer)
    BY DEF IInv, TypeOK
  <2>3. CASE answers' = answers
    BY <2>1, <2>3 DEF gun
  <2>4. CASE \E a : answers' = Append(answers, a)
    <3>1. PICK a : answers' = Append(answers, a)
      BY <2>4
    <3>2. i \in DOMAIN Append(answers, a) /\ Append(answers, a)[i] = answers[i]
      BY <2>1, <2>2
    <3> QED BY <2>1, <3>1, <3>2 DEF gun
  <2> QED BY <2>3, <2>4
<1>3. Smoked'
  BY <1>2 DEF IInv, Smoked, HasStrong
<1> QED BY <1>1, <1>3

(* An exception costs the diagnosis. *)
LEMMA RaiseStep ==
  ASSUME IInv, Raise
  PROVE  IInv'
<1>1. FailedOutcome \in Outcomes
  BY DEF FailedOutcome, Outcome, Outcomes
<1>2. TypeOK'
  BY <1>1 DEF IInv, TypeOK, Raise, Stages
<1>3. Matched'
  BY QuietMatched DEF IInv, Raise
<1>4. Smoked'
  BY DEF IInv, Smoked, Raise, AfterMatch, HasStrong
<1>5. result'.failure_type = "unknown"
  BY DEF Raise, FailedOutcome, Outcome
<1>6. Decided'
  BY <1>5 DEF Decided, Diagnosed
<1> QED BY <1>2, <1>3, <1>4, <1>6 DEF IInv

----------------------------------------------------------------------------
(* The code engine *)

LEMMA DetectDeployStep ==
  ASSUME IInv, DetectDeploy
  PROVE  IInv'
<1>1. \A age : <<DeployEvidence(age)>> \in Seq(EvidenceItem)
  <2> TAKE age
  <2>1. DeployEvidence(age) \in EvidenceItem
    BY ItemType DEF DeployEvidence, Signals, Strengths
  <2> HIDE DEF DeployEvidence
  <2> QED BY <2>1
<1>2. code' \in Seq(EvidenceItem)
  BY <1>1 DEF DetectDeploy
<1>3. TypeOK'
  BY <1>2 DEF IInv, TypeOK, DetectDeploy, Stages
<1>4. Matched'
  BY QuietMatched DEF IInv, DetectDeploy
<1>5. Smoked' /\ Decided'
  BY QuietBefore DEF DetectDeploy, AfterMatch
<1> QED BY <1>3, <1>4, <1>5 DEF IInv

LEMMA ExtractExceptionStep ==
  ASSUME IInv, ExtractException
  PROVE  IInv'
<1>1. code' \in Seq(EvidenceItem)
  <2>1. "exception_in_spans" \in Signals /\ "MODERATE" \in Strengths
    BY DEF Signals, Strengths
  <2> QED BY <2>1, AppendEvidence DEF IInv, TypeOK, ExtractException
<1>2. pc' \in {"case_a", "match"}
  BY DEF ExtractException
<1>3. TypeOK'
  BY <1>1, <1>2 DEF IInv, TypeOK, ExtractException, Stages
<1>4. Matched'
  BY QuietMatched DEF IInv, ExtractException
<1>5. Smoked' /\ Decided'
  BY <1>2, QuietBefore DEF ExtractException, AfterMatch
<1> QED BY <1>3, <1>4, <1>5 DEF IInv

(* What is asked is written down with its answer. *)
LEMMA AskedType ==
  ASSUME IInv, NEW call \in {"case_a", "case_b", "flag", "config"}, NEW reply \in Replies
  PROVE  Asked(call, reply) \in Seq(Answer)
<1> DEFINE a == [call |-> call, reply |-> reply]
<1>1. a \in Answer
  BY DEF Answer
<1>2. answers \in Seq(Answer)
  BY DEF IInv, TypeOK
<1> HIDE DEF a
<1>3. Append(answers, a) \in Seq(Answer)
  BY <1>1, <1>2
<1> QED BY <1>3 DEF a, Asked

LEMMA AssessDeployStep ==
  ASSUME IInv, AssessDeploy
  PROVE  IInv'
<1>1. PICK reply \in Replies :
        /\ answers' = Asked("case_a", reply)
        /\ code' = code \o Assessment("llm_causal_assessment", reply, TRUE)
  BY DEF AssessDeploy
<1>2. Assessment("llm_causal_assessment", reply, TRUE) \in Seq(EvidenceItem)
  BY AssessmentType DEF Signals
<1>3. code' \in Seq(EvidenceItem)
  BY <1>1, <1>2, ConcatProperties DEF IInv, TypeOK
<1>4. answers' \in Seq(Answer)
  BY <1>1, AskedType
<1>5. TypeOK'
  BY <1>3, <1>4 DEF IInv, TypeOK, AssessDeploy, Stages
<1>6. Matched'
  BY QuietMatched DEF IInv, AssessDeploy
<1>7. Smoked' /\ Decided'
  BY QuietBefore DEF AssessDeploy, AfterMatch
<1> QED BY <1>5, <1>6, <1>7 DEF IInv

(* The search replaces the match by what it finds in an error span, and it only
   runs for an accepted change. *)
LEMMA MatchSpanStep ==
  ASSUME IInv, MatchSpan
  PROVE  IInv'
<1> DEFINE i == First(NextErrorSpan)
           found == BestIn(i)
<1>1. inc \in Incident /\ match \in Match
  BY DEF IInv, TypeOK
<1>2. NextErrorSpan \in SUBSET ErrorSpans /\ NextErrorSpan # {}
  BY DEF NextErrorSpan, MatchSpan, Searching
<1>3. \A s \in ErrorSpans : s \in Nat
  BY <1>1, SpanType
<1>4. i \in NextErrorSpan
  BY <1>2, <1>3, FirstMember
<1>5. i \in ErrorSpans /\ i \in Nat
  BY <1>2, <1>3, <1>4
<1> HIDE DEF i
<1>6. /\ found \in Match
      /\ found.level # "none" => found.level \in Levels
  BY <1>1, <1>5, BestInProperties
<1>7. match' = Better(found) /\ cursor' = i
  BY DEF MatchSpan, i
<1> HIDE DEF found
<1>8. match' \in Match /\ (match' = match \/ match' = found)
  BY <1>1, <1>6, <1>7, BetterProperties
<1>9. TypeOK'
  BY <1>5, <1>7, <1>8 DEF IInv, TypeOK, MatchSpan
<1>10. Matched'
  <2>1. ChangeAccepted /\ inc.code_access_enabled
    BY DEF MatchSpan, Searching
  <2>2. match'.level # "none" => match'.level \in Levels
    BY <1>6, <1>8 DEF IInv, Matched
  <2>3. inc' = inc
    BY DEF MatchSpan
  <2> QED BY <2>1, <2>2, <2>3, SameIncident DEF Matched
<1>11. pc = "match" /\ pc' = pc /\ smoking' = smoking
  BY DEF MatchSpan, Searching
<1>12. Smoked' /\ Decided'
  BY <1>11, QuietBefore DEF AfterMatch
<1> QED BY <1>9, <1>10, <1>12 DEF IInv

LEMMA EndMatchStep ==
  ASSUME IInv, EndMatch
  PROVE  IInv'
<1>1. StacktraceEvidence \in Seq(EvidenceItem)
  <2>1. "stacktrace_match" \in Signals
    BY DEF Signals
  <2>2. StacktraceStrength(match.level) \in Strengths
    BY DEF StacktraceStrength, Strengths
  <2>3. code \in Seq(EvidenceItem)
    BY DEF IInv, TypeOK
  <2> HIDE DEF StacktraceStrength
  <2> QED BY <2>1, <2>2, <2>3, AppendEvidence DEF StacktraceEvidence
<1>2. pc' \in {"case_b", "end_code"} /\ code' = StacktraceEvidence
  BY DEF EndMatch
<1>3. TypeOK'
  BY <1>1, <1>2 DEF IInv, TypeOK, EndMatch, Stages
<1>4. Matched'
  BY QuietMatched DEF IInv, EndMatch
<1>5. pc = "match" /\ smoking' = smoking
  BY DEF EndMatch
<1>6. Smoked' /\ Decided'
  BY <1>2, <1>5, QuietBefore DEF AfterMatch
<1> QED BY <1>3, <1>4, <1>6 DEF IInv

(* The smoking gun comes about with its answer and its evidence. *)
LEMMA AssessChangeStep ==
  ASSUME IInv, AssessChange
  PROVE  IInv'
<1>1. PICK reply \in Replies :
        /\ answers' = Asked("case_b", reply)
        /\ smoking' = IsSmokingGun(reply)
        /\ code' = code \o Assessment("llm_case_b_analysis", reply, IsSmokingGun(reply))
  BY DEF AssessChange
<1> DEFINE gun == IsSmokingGun(reply)
           added == Assessment("llm_case_b_analysis", reply, gun)
<1>2. gun \in BOOLEAN
  BY DEF IsSmokingGun
<1>3. /\ added \in Seq(EvidenceItem)
      /\ gun => added = <<Item("llm_case_b_analysis", "STRONG")>>
  <2>1. gun => Finding(reply) = "likely"
    BY DEF IsSmokingGun
  <2> HIDE DEF gun
  <2>2. "llm_case_b_analysis" \in Signals
    BY DEF Signals
  <2> QED BY <1>2, <2>1, <2>2, AssessmentType
<1>4. code \in Seq(EvidenceItem) /\ answers \in Seq(Answer)
  BY DEF IInv, TypeOK
<1>5. /\ pc' = "end_code" /\ inc' = inc /\ match' = match
      /\ smoking' = gun /\ code' = code \o added
  BY <1>1 DEF AssessChange
<1>6. answers' \in Seq(Answer)
  BY <1>1, AskedType
<1>7. TypeOK'
  <2>1. code' \in Seq(EvidenceItem)
    BY <1>3, <1>4, <1>5, ConcatProperties
  <2> HIDE DEF gun, added
  <2> QED BY <1>2, <1>5, <1>6, <2>1 DEF IInv, TypeOK, AssessChange, Stages
<1>8. Matched'
  BY <1>5, QuietMatched DEF IInv
<1>9. Smoked'
  <2> SUFFICES ASSUME smoking' PROVE Smoked'
    BY DEF Smoked
  <2>1. gun
    BY <1>5
  <2>2. match'.level \in {"exact_line", "function_match"} /\ reply = "likely"
    BY <1>5, <2>1 DEF IsSmokingGun, Finding, Replies
  <2>3. HasStrong(added)
    <3> DEFINE item == Item("llm_case_b_analysis", "STRONG")
    <3>1. added = <<item>>
      BY <1>3, <2>1
    <3>2. item.strength = "STRONG"
      BY DEF Item
    <3> HIDE DEF added, item
    <3>3. 1 \in DOMAIN <<item>> /\ <<item>>[1] = item
      OBVIOUS
    <3>4. 1 \in DOMAIN added /\ added[1].strength = "STRONG"
      BY <3>1, <3>2, <3>3
    <3> QED BY <3>4 DEF HasStrong
  <2>4. HasStrong(code')
    <3> HIDE DEF added
    <3> QED BY <1>3, <1>4, <1>5, <2>3, StrongStays DEF HasStrong
  <2>5. \E i \in DOMAIN answers' :
          answers'[i] = [call |-> "case_b", reply |-> "likely"]
    <3> DEFINE a == [call |-> "case_b", reply |-> "likely"]
    <3>1. answers' = Append(answers, a)
      BY <1>1, <2>2 DEF Asked
    <3> HIDE DEF a
    <3>2. /\ Len(answers) + 1 \in DOMAIN Append(answers, a)
          /\ Append(answers, a)[Len(answers) + 1] = a
      BY <1>4
    <3>3. \E i \in DOMAIN answers' : answers'[i] = a
      BY <3>1, <3>2
    <3> QED BY <3>3 DEF a
  <2> QED BY <1>5, <2>2, <2>4, <2>5 DEF Smoked, AfterMatch, HasStrong
<1>10. Decided'
  BY <1>5 DEF Decided, Diagnosed
<1> QED BY <1>7, <1>8, <1>9, <1>10 DEF IInv

LEMMA EndCodeStep ==
  ASSUME IInv, EndCode
  PROVE  IInv'
<1> DEFINE s == IF ErrorSpans # {} THEN <<Item("degraded_operation", "WEAK")>> ELSE <<>>
           d == IF deploy_found THEN <<>> ELSE <<Item("no_deploy_in_window", "WEAK")>>
<1>1. s \in Seq(EvidenceItem) /\ d \in Seq(EvidenceItem)
  <2>1. /\ {"degraded_operation", "no_deploy_in_window"} \subseteq Signals
        /\ "WEAK" \in Strengths
    BY DEF Signals, Strengths
  <2>2. /\ <<Item("degraded_operation", "WEAK")>> \in Seq(EvidenceItem)
        /\ <<Item("no_deploy_in_window", "WEAK")>> \in Seq(EvidenceItem)
    BY <2>1, AppendEvidence DEF IInv, TypeOK
  <2> QED BY <2>2
<1>2. code' = (code \o s) \o d
  BY DEF EndCode
<1>3. code \in Seq(EvidenceItem)
  BY DEF IInv, TypeOK
<1> HIDE DEF s, d
<1>4. code \o s \in Seq(EvidenceItem) /\ code' \in Seq(EvidenceItem)
  BY <1>1, <1>2, <1>3, ConcatProperties
<1>5. HasStrong(code) => HasStrong(code')
  <2>1. HasStrong(code) => HasStrong(code \o s)
    BY <1>1, <1>3, StrongStays
  <2>2. HasStrong(code \o s) => HasStrong((code \o s) \o d)
    BY <1>1, <1>4, StrongStays
  <2> QED BY <1>2, <2>1, <2>2 DEF HasStrong
<1>6. TypeOK'
  BY <1>4 DEF IInv, TypeOK, EndCode, Stages
<1>7. Matched'
  BY QuietMatched DEF IInv, EndCode
<1>8. Smoked' /\ Decided'
  BY <1>5, QuietAfter DEF EndCode, AfterMatch
<1> QED BY <1>6, <1>7, <1>8 DEF IInv

----------------------------------------------------------------------------
(* The configuration engine leaves the code engine's findings alone. *)

LEMMA QuietConfig ==
  ASSUME IInv, pc \in {"changes", "assess"}, pc' \in {"changes", "assess", "arbitrate"},
         UNCHANGED <<inc, code, match, smoking, result>>,
         \/ answers' = answers
         \/ \E a : answers' = Append(answers, a)
  PROVE  Matched' /\ Smoked' /\ Decided'
<1>1. Matched'
  BY QuietMatched DEF IInv
<1>2. Smoked' /\ Decided'
  BY QuietAfter DEF AfterMatch, HasStrong
<1> QED BY <1>1, <1>2

LEMMA KindType ==
  ASSUME NEW i
  PROVE  Kind(i) \in {"flag", "config"}
BY DEF Kind

LEMMA DetectChangeStep ==
  ASSUME IInv, DetectChange
  PROVE  IInv'
<1> DEFINE i == cursor + 1
           kind == Kind(i)
           age == Attached[i]
           item == ChangeEvidence(kind, age)
<1>1. i \in Nat
  BY DEF IInv, TypeOK
<1>2. kind \in {"flag", "config"}
  BY KindType
<1>3. item \in EvidenceItem
  BY ItemType DEF ChangeEvidence, Signals, Strengths
<1>4. /\ pc = "changes" /\ pc' = pc /\ cursor' = i
      /\ UNCHANGED <<inc, code, match, smoking, answers, result>>
      /\ changes' = changes \/ changes' = Append(changes, kind)
      /\ config' = config \/ config' = Append(config, item)
  BY DEF DetectChange
<1> HIDE DEF i, kind, item
<1>5. TypeOK'
  <2> HIDE DEF age
  <2>0. changes \in Seq({"flag", "config"}) /\ config \in Seq(EvidenceItem)
    BY DEF IInv, TypeOK
  <2>1. changes' \in Seq({"flag", "config"})
    BY <1>2, <1>4, <2>0, AppendProperties
  <2>2. config' \in Seq(EvidenceItem)
    BY <1>3, <1>4, <2>0, AppendProperties
  <2> QED BY <1>1, <1>4, <2>1, <2>2 DEF IInv, TypeOK
<1>6. Matched' /\ Smoked' /\ Decided'
  BY <1>4, QuietConfig
<1> QED BY <1>5, <1>6 DEF IInv

LEMMA EndDetectStep ==
  ASSUME IInv, EndDetect
  PROVE  IInv'
<1>1. TypeOK'
  BY DEF IInv, TypeOK, EndDetect, Stages
<1>2. Matched' /\ Smoked' /\ Decided'
  BY QuietConfig DEF EndDetect
<1> QED BY <1>1, <1>2 DEF IInv

(* Only so many changes are assessed as there are. *)
LEMMA ToAssessBound ==
  ASSUME IInv, cursor < ToAssess
  PROVE  changes[cursor + 1] \in {"flag", "config"}
<1>1. changes \in Seq({"flag", "config"}) /\ cursor \in Nat
  BY DEF IInv, TypeOK
<1>2. Len(changes) \in Nat /\ ToAssess <= Len(changes) /\ ToAssess \in Nat
  BY <1>1, LenProperties DEF ToAssess, MAX_CONFIG_CALLS
<1>3. cursor + 1 \in 1..Len(changes)
  BY <1>1, <1>2
<1> QED BY <1>1, <1>3, ElementOfSeq

LEMMA AssessConfigChangeStep ==
  ASSUME IInv, AssessConfigChange
  PROVE  IInv'
<1>1. PICK reply \in Replies :
        /\ answers' = Asked(changes[cursor + 1], reply)
        /\ config' = config \o Assessment("llm_config_assessment", reply, TRUE)
  BY DEF AssessConfigChange
<1>2. changes[cursor + 1] \in {"flag", "config"}
  BY ToAssessBound DEF AssessConfigChange
<1>3. answers' \in Seq(Answer)
  BY <1>1, <1>2, AskedType
<1>4. Assessment("llm_config_assessment", reply, TRUE) \in Seq(EvidenceItem)
  BY AssessmentType DEF Signals
<1>5. config' \in Seq(EvidenceItem)
  BY <1>1, <1>4, ConcatProperties DEF IInv, TypeOK
<1>6. cursor' \in Nat
  BY DEF AssessConfigChange, IInv, TypeOK
<1>7. TypeOK'
  BY <1>3, <1>5, <1>6 DEF IInv, TypeOK, AssessConfigChange
<1>8. \E a : answers' = Append(answers, a)
  BY <1>1 DEF Asked
<1>9. Matched' /\ Smoked' /\ Decided'
  BY <1>8, QuietConfig DEF AssessConfigChange
<1> QED BY <1>7, <1>9 DEF IInv

LEMMA LateEvidenceType == LateEvidence \in Seq(EvidenceItem)
<1> DEFINE e == <<Item("post_change_errors", "MODERATE")>>
           s == <<Item("simultaneous_change", "MODERATE")>>
<1>1. /\ {"post_change_errors", "simultaneous_change"} \subseteq Signals
      /\ "MODERATE" \in Strengths /\ <<>> \in Seq(EvidenceItem)
  BY DEF Signals, Strengths
<1>2. e \in Seq(EvidenceItem) /\ s \in Seq(EvidenceItem)
  BY <1>1, AppendEvidence
<1> HIDE DEF e, s
<1>3. \A p, q \in {e, s, <<>>} : p \o q \in Seq(EvidenceItem)
  BY <1>1, <1>2, ConcatProperties
<1>4. \E p, q \in {e, s, <<>>} : LateEvidence = p \o q
  BY DEF LateEvidence, e, s
<1> QED BY <1>3, <1>4

LEMMA EndConfigStep ==
  ASSUME IInv, EndConfig
  PROVE  IInv'
<1>1. config' \in Seq(EvidenceItem)
  BY LateEvidenceType, ConcatProperties DEF EndConfig, IInv, TypeOK
<1>2. TypeOK'
  BY <1>1 DEF IInv, TypeOK, EndConfig, Stages
<1>3. Matched' /\ Smoked' /\ Decided'
  BY QuietConfig DEF EndConfig
<1> QED BY <1>2, <1>3 DEF IInv

----------------------------------------------------------------------------
(* The arbitration *)

(* A smoking gun gives the code engine strong evidence, and so the last word. *)
LEMMA SmokingGunNames ==
  ASSUME IInv, smoking
  PROVE  CodeNamesCause
<1>1. code \in Seq(EvidenceItem) /\ config \in Seq(EvidenceItem) /\ HasStrong(code)
  BY DEF IInv, TypeOK, Smoked
<1>2. /\ Strong(code) \in Nat /\ Strong(code) >= 1
      /\ Strong(config) \in Nat
  BY <1>1, StrongCount
<1>3. CASE Strong(config) >= 1
  BY <1>2, <1>3 DEF CodeNamesCause, BothStrong
<1>4. CASE ~(Strong(config) >= 1)
  BY <1>2, <1>4 DEF CodeNamesCause, CodeWins
<1> QED BY <1>3, <1>4

LEMMA PriorityType ==
  ASSUME IInv, NEW winner
  PROVE  /\ Priority(winner) \in {0, 10, 20, 95}
         /\ smoking => Priority(winner) = 95
<1> DEFINE s == Strong(winner)
           m == Moderate(winner)
<1>1. smoking \in BOOLEAN
  BY DEF IInv, TypeOK
<1>2. Priority(winner) =
        CASE smoking -> 95
          [] ~smoking /\ s >= 1 -> 20
          [] ~smoking /\ s = 0 /\ m >= 2 -> 10
          [] OTHER -> 0
  BY DEF Priority, PRIORITY_OVERRIDE_SMOKING_GUN, PRIORITY_BOOST_STRONG,
         PRIORITY_BOOST_MODERATE
<1> HIDE DEF s, m
<1>3. CASE smoking
  BY <1>2, <1>3
<1>4. CASE ~smoking /\ s >= 1
  BY <1>2, <1>4
<1>5. CASE ~smoking /\ ~(s >= 1) /\ s = 0 /\ m >= 2
  BY <1>2, <1>5
<1>6. CASE ~smoking /\ ~(s >= 1) /\ ~(s = 0 /\ m >= 2)
  BY <1>2, <1>6
<1> QED BY <1>1, <1>3, <1>4, <1>5, <1>6

LEMMA ArbitrateStep ==
  ASSUME IInv, Arbitrate
  PROVE  IInv'
<1> DEFINE winner == IF CodeWins THEN code ELSE config
           domain == IF CodeNamesCause THEN "application_code" ELSE ConfigDomain
           failure == IF CodeNamesCause THEN CodeFailure ELSE ConfigFailure
           evidence == IF CodeWins THEN code \o config ELSE config \o code
           priority == Priority(winner)
<1>1. /\ result' = Outcome(domain, failure, evidence, priority, IsMarked)
      /\ pc' = "done"
      /\ UNCHANGED <<inc, code, config, changes, cursor, match, smoking, answers>>
  BY DEF Arbitrate
<1>2. domain \in {"application_code", "configuration"}
  BY DEF ConfigDomain
<1>3. failure \in {"code_regression", "runtime_error", "application_error",
                   "feature_flag_regression", "config_regression"}
  <2>1. CodeFailure \in {"code_regression", "runtime_error", "application_error"}
    BY DEF CodeFailure
  <2>2. ConfigFailure \in {"application_error", "feature_flag_regression", "config_regression"}
    <3> DEFINE flag == "flag" \in Kinds
               setting == "config" \in Kinds
    <3>1. ConfigFailure =
            CASE flag -> "feature_flag_regression"
              [] ~flag /\ setting -> "config_regression"
              [] OTHER -> "application_error"
      BY DEF ConfigFailure
    <3> HIDE DEF flag, setting
    <3>2. CASE flag
      BY <3>1, <3>2
    <3>3. CASE ~flag /\ setting
      BY <3>1, <3>3
    <3>4. CASE ~flag /\ ~setting
      BY <3>1, <3>4
    <3> QED BY <3>2, <3>3, <3>4
  <2> QED BY <2>1, <2>2
<1>4. evidence \in Seq(EvidenceItem)
  BY ConcatProperties DEF IInv, TypeOK
<1>5. priority \in {0, 10, 20, 95} /\ (smoking => priority = 95)
  BY PriorityType
<1>6. IsMarked \in BOOLEAN
  BY DEF IsMarked
<1>7. smoking => domain = "application_code" /\ failure = "code_regression"
  BY SmokingGunNames DEF CodeFailure
<1> HIDE DEF domain, failure, evidence, priority
<1>8. result' \in Outcomes
  BY <1>1, <1>2, <1>3, <1>4, <1>5, <1>6 DEF Outcome, Outcomes
<1>9. TypeOK'
  BY <1>1, <1>8 DEF IInv, TypeOK, Stages
<1>10. Matched'
  BY <1>1, QuietMatched DEF IInv
<1>11. Smoked'
  BY <1>1 DEF IInv, Smoked, AfterMatch, HasStrong
<1>12. Decided'
  BY <1>1, <1>5, <1>7 DEF Decided, Outcome
<1> QED BY <1>9, <1>10, <1>11, <1>12 DEF IInv

----------------------------------------------------------------------------
(* The theorems *)

LEMMA NextInv ==
  ASSUME IInv, [Next]_vars
  PROVE  IInv'
<1>1. CASE CodeEngine
  BY <1>1, DetectDeployStep, ExtractExceptionStep, RaiseStep, AssessDeployStep,
     MatchSpanStep, EndMatchStep, AssessChangeStep, EndCodeStep
     DEF CodeEngine, ExtractionFails, MatchFails
<1>2. CASE ConfigEngine
  BY <1>2, DetectChangeStep, EndDetectStep, RaiseStep, AssessConfigChangeStep,
     EndConfigStep DEF ConfigEngine, PatternFails
<1>3. CASE Arbitrate
  BY <1>3, ArbitrateStep
<1>4. CASE UNCHANGED vars
  <2>1. TypeOK'
    BY <1>4 DEF vars, IInv, TypeOK
  <2>2. Matched'
    BY <1>4, QuietMatched DEF vars, IInv
  <2>3. Smoked' /\ Decided'
    BY <1>4 DEF vars, IInv, Smoked, Decided, Diagnosed, HasStrong
  <2> QED BY <2>1, <2>2, <2>3 DEF IInv
<1> QED BY <1>1, <1>2, <1>3, <1>4 DEF Next, Returned

LEMMA Invariance == Spec => []IInv
<1>1. Init => IInv
  BY InitInv
<1>2. IInv /\ [Next]_vars => IInv'
  BY NextInv
<1> QED BY <1>1, <1>2, PTL DEF Spec

(* The variables of the engine keep to their types, for every set of incidents. *)
THEOREM TypeCorrect == Spec => []TypeOK
<1>1. IInv => TypeOK
  BY DEF IInv
<1> QED BY <1>1, Invariance, PTL

(* A change that the search accepts is one that is linked to its service, window
   and deploy. *)
LEMMA AcceptedIsLinked ==
  ASSUME inc \in Incident, ChangeAccepted, inc.code_access_enabled
  PROVE  LinkedChange
<1>1. inc.change.age \in Int
  BY DEF Incident, CodeChange
<1>2. inc.change.age \in 0..30
  BY <1>1 DEF ChangeAccepted, InLookback, DEPLOY_LOOKBACK_MINUTES
<1> QED BY <1>2 DEF ChangeAccepted, LinkedChange

(* A smoking gun always rests on a stack frame that meets a change of this
   service and deploy, and on the model's word; and it always decides. *)
THEOREM SmokingGunIsSound == Spec => []SmokingGunDecides
<1>1. ASSUME IInv PROVE SmokingGunDecides
  <2> SUFFICES ASSUME Diagnosed, smoking PROVE SmokingGunDecides
    BY DEF SmokingGunDecides
  <2>1. /\ match.level \in {"exact_line", "function_match"}
        /\ \E i \in DOMAIN answers : answers[i] = [call |-> "case_b", reply |-> "likely"]
    BY <1>1 DEF IInv, Smoked
  <2>2. ChangeAccepted /\ inc.code_access_enabled /\ match.level \in Levels
    BY <1>1, <2>1 DEF IInv, Matched
  <2>3. LinkedChange
    BY <1>1, <2>2, AcceptedIsLinked DEF IInv, TypeOK
  <2>4. {"exact_line", "function_match"} \cap Levels # {}
    BY <2>1, <2>2
  <2>5. /\ result.domain = "application_code"
        /\ result.failure_type = "code_regression"
        /\ result.priority = 95
    BY <1>1 DEF IInv, Decided
  <2> QED BY <2>1, <2>3, <2>4, <2>5 DEF SmokingGunDecides
<1>2. IInv => SmokingGunDecides
  BY <1>1
<1> QED BY <1>2, Invariance, PTL

----------------------------------------------------------------------------
(* Counting *)

CountIn(s, S) == Cardinality({i \in DOMAIN s : s[i] \in S})

If(p) == IF p THEN 1 ELSE 0

LEMMA CountType ==
  ASSUME NEW T, NEW s \in Seq(T), NEW S
  PROVE  /\ IsFiniteSet({i \in DOMAIN s : s[i] \in S})
         /\ CountIn(s, S) \in Nat
         /\ CountIn(s, S) = 0 <=> \A i \in DOMAIN s : s[i] \notin S
<1> DEFINE C == {i \in DOMAIN s : s[i] \in S}
<1>1. IsFiniteSet(DOMAIN s)
  BY FS_Interval, LenProperties
<1>2. IsFiniteSet(C)
  BY <1>1, FS_Subset
<1>3. Cardinality(C) \in Nat /\ (Cardinality(C) = 0 <=> C = {})
  BY <1>2, FS_CardinalityType, FS_EmptySet
<1> QED BY <1>2, <1>3 DEF CountIn

LEMMA CountEmpty ==
  ASSUME NEW S
  PROVE  CountIn(<<>>, S) = 0
<1>1. {i \in DOMAIN <<>> : <<>>[i] \in S} = {}
  OBVIOUS
<1> QED BY <1>1, FS_EmptySet DEF CountIn

LEMMA CountAppend ==
  ASSUME NEW T, NEW s \in Seq(T), NEW x \in T, NEW S
  PROVE  CountIn(Append(s, x), S) = CountIn(s, S) + If(x \in S)
<1> DEFINE C == {i \in DOMAIN s : s[i] \in S}
           D == {i \in DOMAIN Append(s, x) : Append(s, x)[i] \in S}
           n == Len(s) + 1
<1>1. /\ n \in Nat /\ n \notin DOMAIN s /\ DOMAIN Append(s, x) = DOMAIN s \cup {n}
      /\ \A i \in DOMAIN s : Append(s, x)[i] = s[i]
      /\ Append(s, x)[n] = x
  <2>1. /\ Append(s, x) \in Seq(T) /\ Len(Append(s, x)) = n /\ Len(s) \in Nat
        /\ \A i \in 1..Len(s) : Append(s, x)[i] = s[i]
        /\ Append(s, x)[n] = x
    OBVIOUS
  <2>2. DOMAIN s = 1..Len(s) /\ DOMAIN Append(s, x) = 1..n
    BY <2>1
  <2>3. 1..n = 1..Len(s) \cup {n} /\ n \notin 1..Len(s)
    BY <2>1
  <2> QED BY <2>1, <2>2, <2>3
<1>2. IsFiniteSet(C) /\ Cardinality(C) \in Nat
  BY CountType, FS_CardinalityType
<1> HIDE DEF n
<1>3. CASE x \in S
  <2>1. D = C \cup {n} /\ n \notin C
    BY <1>1, <1>3
  <2>2. Cardinality(D) = Cardinality(C) + 1
    BY <1>2, <2>1, FS_AddElement
  <2> QED BY <1>3, <2>2 DEF CountIn, If
<1>4. CASE x \notin S
  <2>1. D = C
    BY <1>1, <1>4
  <2>2. Cardinality(C) + 0 = Cardinality(C)
    BY <1>2
  <2> QED BY <1>4, <2>1, <2>2 DEF CountIn, If
<1> QED BY <1>3, <1>4

LEMMA CountConcat ==
  ASSUME NEW T, NEW s \in Seq(T), NEW t \in Seq(T), NEW S
  PROVE  CountIn(s \o t, S) = CountIn(s, S) + CountIn(t, S)
<1> DEFINE m == Len(s)
           C == {i \in DOMAIN s : s[i] \in S}
           D == {i \in DOMAIN t : t[i] \in S}
           E == {i \in DOMAIN (s \o t) : (s \o t)[i] \in S}
           B == {m + i : i \in D}
<1>1. /\ m \in Nat /\ Len(t) \in Nat
      /\ DOMAIN s = 1..m /\ DOMAIN t = 1..Len(t)
      /\ DOMAIN (s \o t) = 1..(m + Len(t))
      /\ \A i \in 1..m : (s \o t)[i] = s[i]
      /\ \A i \in 1..Len(t) : (s \o t)[m + i] = t[i]
  BY ConcatProperties, LenProperties
<1>2. /\ IsFiniteSet(C) /\ IsFiniteSet(D)
      /\ Cardinality(C) \in Nat /\ Cardinality(D) \in Nat
  BY CountType, FS_CardinalityType
<1>3. IsFiniteSet(B) /\ Cardinality(B) = Cardinality(D)
  <2> DEFINE f == [i \in D |-> m + i]
  <2>1. D \in SUBSET Nat
    BY <1>1
  <2>2. f \in Bijection(D, B)
    <3>1. f \in [D -> B]
      OBVIOUS
    <3>2. \A i, j \in D : f[i] = f[j] => i = j
      BY <1>1, <2>1
    <3>3. \A b \in B : \E i \in D : f[i] = b
      OBVIOUS
    <3> HIDE DEF f, B, D
    <3> QED BY <3>1, <3>2, <3>3 DEF Bijection, Injection, Surjection, IsInjective
  <2>3. ExistsBijection(D, B)
    BY <2>2 DEF ExistsBijection
  <2> QED BY <1>2, <2>3, FS_Bijection
<1>4. E = C \cup B /\ C \cap B = {}
  <2>1. ASSUME NEW i \in E PROVE i \in C \cup B
    <3>1. CASE i \in 1..m
      BY <1>1, <3>1
    <3>2. CASE i \notin 1..m
      <4>1. i - m \in 1..Len(t) /\ m + (i - m) = i
        BY <1>1, <3>2
      <4>2. i - m \in D
        BY <1>1, <4>1
      <4> QED BY <4>1, <4>2
    <3> QED BY <3>1, <3>2
  <2>2. C \subseteq E
    BY <1>1
  <2>3. B \subseteq E
    <3>1. ASSUME NEW j \in D PROVE m + j \in E
      <4>1. j \in 1..Len(t) /\ m + j \in 1..(m + Len(t))
        BY <1>1
      <4> QED BY <1>1, <4>1
    <3> QED BY <3>1
  <2>4. \A i \in C, j \in D : i # m + j
    BY <1>1
  <2> QED BY <2>1, <2>2, <2>3, <2>4
<1> HIDE DEF B, C, D, E
<1>5. Cardinality(C \cap B) = 0 /\ IsFiniteSet(C \cap B)
  BY <1>4, FS_EmptySet
<1>6. Cardinality(E) = Cardinality(C) + Cardinality(B) - Cardinality(C \cap B)
  BY <1>2, <1>3, <1>4, FS_Union
<1>7. Cardinality(E) = Cardinality(C) + Cardinality(D)
  BY <1>2, <1>3, <1>5, <1>6
<1> QED BY <1>7 DEF CountIn, C, D, E

----------------------------------------------------------------------------
(* The order of the questions *)

(* The changes of the first n attached that fall in the window. *)
Found(n) == {i \in 1..n : InLookback(Attached[i], CONFIG_LOOKBACK_MINUTES)}

FlagPositions == 1..Len(inc.flags)

BeforeConfig == {"deploy", "exception", "case_a", "match", "case_b", "end_code"}

Questions(kind) == {a \in Answer : a.call = kind}

Asks(kind) == CountIn(answers, Questions(kind))

(* Among the changes found, the flags come first. *)
Detecting(n) ==
  /\ n <= Len(Attached)
  /\ CountIn(changes, {"flag"}) = Cardinality(Found(n) \cap FlagPositions)
  /\ n <= Len(inc.flags) => \A i \in DOMAIN changes : changes[i] = "flag"
  /\ \A i, j \in DOMAIN changes : i < j /\ changes[j] = "flag" => changes[i] = "flag"

(* The model has been asked about the first n of them. *)
Asking(n) ==
  /\ n <= Len(changes)
  /\ n <= MAX_CONFIG_CALLS
  /\ \A kind \in {"flag", "config"} :
       Asks(kind) = Cardinality({i \in 1..n : changes[i] = kind})

FlagsFirst ==
  /\ Asks("flag") + Asks("config") <= MAX_CONFIG_CALLS
  /\ Asks("config") > 0 =>
       Asks("flag") = Cardinality(Found(Len(Attached)) \cap FlagPositions)

FlagInv ==
  /\ pc \in BeforeConfig => changes = <<>>
  /\ pc \in {"case_b", "end_code"} => cursor = 0
  /\ pc \in BeforeConfig \cup {"changes"} => Asks("flag") = 0 /\ Asks("config") = 0
  /\ pc = "changes" => Detecting(cursor)
  /\ pc = "assess" => Detecting(Len(Attached)) /\ Asking(cursor)
  /\ pc \in {"arbitrate", "done"} => FlagsFirst

(* What is attached, before the incident changes, which it does not. *)
LEMMA AttachedFacts ==
  ASSUME inc \in Incident
  PROVE  /\ Len(inc.flags) \in Nat
         /\ DOMAIN inc.flags = FlagPositions
         /\ Len(Attached) \in Nat /\ Len(inc.flags) <= Len(Attached)
         /\ \A i \in FlagPositions : Attached[i] = inc.flags[i]
         /\ \A i \in 1..Len(Attached) : Attached[i] \in Int
<1>1. inc.flags \in Seq(Int) /\ inc.configs \in Seq(Int)
  BY DEF Incident
<1>2. ASSUME NEW f \in Seq(Int), NEW c \in Seq(Int)
      PROVE  /\ Len(f) \in Nat /\ DOMAIN f = 1..Len(f)
             /\ Len(f \o c) \in Nat /\ Len(f) <= Len(f \o c)
             /\ \A i \in 1..Len(f) : (f \o c)[i] = f[i]
             /\ \A i \in 1..Len(f \o c) : (f \o c)[i] \in Int
  <2>1. /\ f \o c \in Seq(Int) /\ Len(f) \in Nat /\ Len(c) \in Nat
        /\ Len(f \o c) = Len(f) + Len(c)
        /\ \A i \in 1..Len(f) : (f \o c)[i] = f[i]
        /\ DOMAIN f = 1..Len(f)
    BY ConcatProperties, LenProperties
  <2>2. \A i \in 1..Len(f \o c) : (f \o c)[i] \in Int
    BY <2>1, ElementOfSeq
  <2> QED BY <2>1, <2>2
<1>3. /\ Len(inc.flags) \in Nat /\ DOMAIN inc.flags = 1..Len(inc.flags)
      /\ Len(Attached) \in Nat /\ Len(inc.flags) <= Len(Attached)
      /\ \A i \in 1..Len(inc.flags) : Attached[i] = inc.flags[i]
      /\ \A i \in 1..Len(Attached) : Attached[i] \in Int
  BY <1>1, <1>2, Zenon DEF Attached
<1> QED BY <1>3, Zenon DEF FlagPositions

LEMMA FoundStays ==
  ASSUME inc' = inc
  PROVE  /\ Attached' = Attached /\ FlagPositions' = FlagPositions
         /\ \A n : Found(n)' = Found(n)
         /\ \A i : Kind(i)' = Kind(i)
BY DEF Attached, FlagPositions, Found, Kind

LEMMA FoundFinite ==
  ASSUME NEW n \in Nat
  PROVE  IsFiniteSet(Found(n)) /\ IsFiniteSet(Found(n) \cap FlagPositions)
<1>1. IsFiniteSet(1..n) /\ Found(n) \subseteq 1..n
  BY FS_Interval DEF Found
<1> QED BY <1>1, FS_Subset

(* With the flags first, a question about a setting comes after one about each flag,
   and there are no more questions than the model is asked. *)
LEMMA AskingIsFair ==
  ASSUME TypeOK, NEW n \in Nat, Detecting(Len(Attached)), Asking(n)
  PROVE  FlagsFirst
<1> DEFINE F == {i \in 1..n : changes[i] = "flag"}
           C == {i \in 1..n : changes[i] = "config"}
           A == {i \in DOMAIN changes : changes[i] \in {"flag"}}
<1>1. /\ changes \in Seq({"flag", "config"}) /\ Len(changes) \in Nat
      /\ DOMAIN changes = 1..Len(changes)
      /\ \A i \in 1..Len(changes) : changes[i] \in {"flag", "config"}
      /\ n <= Len(changes) /\ n <= 3
  BY ElementOfSeq, LenProperties DEF TypeOK, Asking, MAX_CONFIG_CALLS
<1>2. Asks("flag") = Cardinality(F) /\ Asks("config") = Cardinality(C)
  BY DEF Asking
<1>3. /\ F \cap C = {} /\ F \cup C = 1..n /\ F \subseteq 1..n /\ C \subseteq 1..n
      /\ IsFiniteSet(1..n) /\ Cardinality(1..n) = n
  <2>1. \A i \in 1..n : changes[i] \in {"flag", "config"}
    BY <1>1
  <2>2. F \cap C = {} /\ F \cup C = 1..n /\ F \subseteq 1..n /\ C \subseteq 1..n
    BY <2>1
  <2>3. IsFiniteSet(1..n) /\ Cardinality(1..n) = n
    BY FS_Interval
  <2> QED BY <2>2, <2>3
<1> HIDE DEF F, C, A
<1>4. /\ IsFiniteSet(F) /\ IsFiniteSet(C)
      /\ Cardinality(F) \in Nat /\ Cardinality(C) \in Nat
  BY <1>3, FS_Subset, FS_CardinalityType
<1>5. Cardinality(F) + Cardinality(C) = n
  <2>1. Cardinality(F \cup C) = Cardinality(F) + Cardinality(C) - Cardinality(F \cap C)
    BY <1>4, FS_Union
  <2>2. Cardinality(F \cap C) = 0
    BY <1>3, FS_EmptySet
  <2>3. Cardinality(F \cup C) = n
    BY <1>3
  <2> HIDE DEF F, C
  <2> QED BY <1>4, <2>1, <2>2, <2>3
<1>6. ASSUME Cardinality(C) > 0 PROVE F = A
  <2>1. PICK c \in C : TRUE
    BY <1>4, <1>6, FS_EmptySet
  <2>2. ASSUME NEW i \in A PROVE i \in F
    <3>1. i \in 1..Len(changes) /\ changes[i] = "flag"
      BY <1>1 DEF A
    <3>2. c \in 1..n /\ c \in 1..Len(changes) /\ changes[c] = "config"
      BY <1>1, <2>1 DEF C
    <3>3. ~(c < i)
      BY <1>1, <3>1, <3>2 DEF Detecting
    <3>4. i \in 1..n
      BY <3>1, <3>2, <3>3
    <3> QED BY <3>1, <3>4 DEF F
  <2>3. F \subseteq A
    BY <1>1 DEF F, A
  <2> QED BY <2>2, <2>3
<1>7. CountIn(changes, {"flag"}) = Cardinality(A)
  BY DEF CountIn, A
<1>8. Asks("config") > 0 =>
        Asks("flag") = Cardinality(Found(Len(Attached)) \cap FlagPositions)
  BY <1>2, <1>6, <1>7 DEF Detecting
<1>9. Asks("flag") + Asks("config") <= MAX_CONFIG_CALLS
  BY <1>1, <1>2, <1>5 DEF MAX_CONFIG_CALLS
<1> QED BY <1>8, <1>9 DEF FlagsFirst

(* The run's property, in these terms. *)
LEMMA FlagsFirstIsIt ==
  ASSUME TypeOK, FlagsFirst
  PROVE  FlagsAreAssessedFirst
<1>1. answers \in Seq(Answer) /\ \A i \in DOMAIN answers : answers[i] \in Answer
  BY ElementOfSeq, LenProperties DEF TypeOK
<1>2. \A call : {i \in DOMAIN answers : answers[i].call = call}
                  = {i \in DOMAIN answers : answers[i] \in Questions(call)}
  BY <1>1 DEF Questions
<1>3. \A call : Cardinality({i \in DOMAIN answers : answers[i].call = call}) = Asks(call)
  BY <1>2 DEF Asks, CountIn
<1>4. Found(Len(Attached)) \cap FlagPositions
        = {i \in DOMAIN inc.flags : inc.flags[i] \in 0..15}
  <2>1. inc \in Incident
    BY DEF TypeOK
  <2>2. FlagPositions \subseteq 1..Len(Attached)
    BY <2>1, AttachedFacts DEF FlagPositions
  <2>3. ASSUME NEW i \in FlagPositions
        PROVE  InLookback(Attached[i], 15) <=> inc.flags[i] \in 0..15
    <3>1. Attached[i] = inc.flags[i] /\ Attached[i] \in Int
      BY <2>1, <2>2, AttachedFacts, Zenon
    <3> QED BY <3>1 DEF InLookback
  <2> QED BY <2>1, <2>2, <2>3, AttachedFacts DEF Found, CONFIG_LOOKBACK_MINUTES
<1> DEFINE asked(call) == Cardinality({i \in DOMAIN answers : answers[i].call = call})
<1>5. asked("flag") = Asks("flag") /\ asked("config") = Asks("config")
  BY <1>3
<1>6. Cardinality(Found(Len(Attached)) \cap FlagPositions)
        = Cardinality({i \in DOMAIN inc.flags : inc.flags[i] \in 0..15})
  BY <1>4
<1>7. FlagsAreAssessedFirst <=>
        /\ asked("flag") + asked("config") <= MAX_CONFIG_CALLS
        /\ asked("config") > 0 => asked("flag")
             = Cardinality({i \in DOMAIN inc.flags : inc.flags[i] \in 0..15})
  BY DEF FlagsAreAssessedFirst
<1> HIDE DEF asked
<1> QED BY <1>5, <1>6, <1>7 DEF FlagsFirst

(* A question that is about no change counts as none. *)
LEMMA AsksAppend ==
  ASSUME TypeOK, NEW call \in {"case_a", "case_b", "flag", "config"}, NEW reply \in Replies,
         answers' = Asked(call, reply)
  PROVE  \A kind : Asks(kind)' = Asks(kind) + If(call = kind)
<1> DEFINE a == [call |-> call, reply |-> reply]
<1>1. a \in Answer /\ a.call = call /\ answers \in Seq(Answer)
  BY DEF Answer, TypeOK
<1>2. answers' = Append(answers, a)
  BY DEF Asked
<1> HIDE DEF a
<1> TAKE kind
<1>3. a \in Questions(kind) <=> call = kind
  BY <1>1 DEF Questions
<1>4. CountIn(Append(answers, a), Questions(kind))
        = CountIn(answers, Questions(kind)) + If(a \in Questions(kind))
  BY <1>1, CountAppend
<1>5. If(a \in Questions(kind)) = If(call = kind)
  BY <1>3 DEF If
<1>6. Asks(kind)' = CountIn(answers', Questions(kind))
  BY DEF Asks, CountIn
<1> QED BY <1>2, <1>4, <1>5, <1>6 DEF Asks

LEMMA AsksType ==
  ASSUME TypeOK
  PROVE  \A kind : Asks(kind) \in Nat
BY CountType DEF TypeOK, Asks

(* Where nothing has been asked about the changes, or they are being asked about,
   or everything has been asked: the flags come first. *)
LEMMA FlagsFirstThroughout ==
  ASSUME TypeOK, FlagInv
  PROVE  FlagsFirst
<1>1. CASE pc \in BeforeConfig \cup {"changes"}
  BY <1>1 DEF FlagInv, FlagsFirst, MAX_CONFIG_CALLS
<1>2. CASE pc = "assess"
  <2>1. cursor \in Nat
    BY DEF TypeOK
  <2> QED BY <1>2, <2>1, AskingIsFair DEF FlagInv
<1>3. CASE pc \in {"arbitrate", "done"}
  BY <1>3 DEF FlagInv
<1> QED BY <1>1, <1>2, <1>3 DEF TypeOK, Stages, BeforeConfig

(* Every step keeps the order.  First, the steps that neither find a change nor ask
   about one. *)
LEMMA FlagQuiet ==
  ASSUME TypeOK, FlagInv, inc' = inc, changes' = changes,
         Asks("flag")' = Asks("flag"), Asks("config")' = Asks("config"),
         pc' \notin {"changes", "assess"},
         pc' \in BeforeConfig => pc \in BeforeConfig,
         pc' \in {"case_b", "end_code"} => cursor' = 0
  PROVE  FlagInv'
<1>1. FlagsFirst
  BY FlagsFirstThroughout
<1>2. Found(Len(Attached))' = Found(Len(Attached)) /\ FlagPositions' = FlagPositions
  BY DEF Attached, FlagPositions, Found
<1>3. FlagsFirst'
  BY <1>1, <1>2 DEF FlagsFirst, MAX_CONFIG_CALLS
<1>4. pc' \in BeforeConfig => Asks("flag")' = 0 /\ Asks("config")' = 0
  BY DEF FlagInv
<1>5. pc' \in BeforeConfig => changes' = <<>>
  BY DEF FlagInv
<1> QED BY <1>3, <1>4, <1>5 DEF FlagInv, BeforeConfig

LEMMA SameAsks ==
  ASSUME answers' = answers
  PROVE  Asks("flag")' = Asks("flag") /\ Asks("config")' = Asks("config")
BY DEF Asks, CountIn, Questions

LEMMA FlagInit ==
  ASSUME Init
  PROVE  FlagInv
<1>1. Asks("flag") = 0 /\ Asks("config") = 0
  BY CountEmpty DEF Init, Asks
<1> QED BY <1>1 DEF Init, FlagInv, BeforeConfig

LEMMA FlagAsk ==
  ASSUME TypeOK, FlagInv, AssessDeploy \/ AssessChange
  PROVE  FlagInv'
<1>1. \E call \in {"case_a", "case_b"}, reply \in Replies : answers' = Asked(call, reply)
  BY DEF AssessDeploy, AssessChange
<1>2. PICK call \in {"case_a", "case_b"}, reply \in Replies : answers' = Asked(call, reply)
  BY <1>1
<1>3. Asks("flag")' = Asks("flag") + If(call = "flag")
      /\ Asks("config")' = Asks("config") + If(call = "config")
  BY <1>2, AsksAppend
<1>4. If(call = "flag") = 0 /\ If(call = "config") = 0
  BY DEF If
<1>5. Asks("flag") \in Nat /\ Asks("config") \in Nat
  BY AsksType
<1>6. Asks("flag")' = Asks("flag") /\ Asks("config")' = Asks("config")
  BY <1>3, <1>4, <1>5
<1>7. /\ inc' = inc /\ changes' = changes /\ cursor' = cursor
      /\ \/ pc = "case_a" /\ pc' = "match"
         \/ pc = "case_b" /\ pc' = "end_code"
  BY DEF AssessDeploy, AssessChange
<1>8. pc' \in {"case_b", "end_code"} => cursor' = 0
  BY <1>7 DEF FlagInv
<1> QED BY <1>6, <1>7, <1>8, FlagQuiet DEF BeforeConfig

LEMMA FlagEndCode ==
  ASSUME TypeOK, FlagInv, EndCode
  PROVE  FlagInv'
<1>1. /\ pc = "end_code" /\ pc' = "changes" /\ cursor' = 0 /\ changes' = <<>>
      /\ inc' = inc /\ answers' = answers
  BY DEF FlagInv, EndCode, BeforeConfig
<1>2. Asks("flag")' = 0 /\ Asks("config")' = 0
  BY <1>1, SameAsks DEF FlagInv, BeforeConfig
<1>3. Attached' = Attached /\ Len(Attached) \in Nat /\ Len(inc.flags) \in Nat
  BY <1>1, FoundStays, AttachedFacts DEF TypeOK
<1>4. CountIn(changes', {"flag"}) = 0
  BY <1>1, CountEmpty
<1>5. Cardinality(Found(0)' \cap FlagPositions') = 0
  <2>1. Found(0)' = {}
    BY DEF Found
  <2> QED BY <2>1, FS_EmptySet
<1>6. DOMAIN changes' = {}
  BY <1>1
<1>7. Detecting(cursor)'
  BY <1>1, <1>3, <1>4, <1>5, <1>6 DEF Detecting, CountIn
<1> QED BY <1>1, <1>2, <1>7 DEF FlagInv, BeforeConfig

(* A change that is found is a flag while the flags last. *)
LEMMA FlagDetect ==
  ASSUME TypeOK, FlagInv, DetectChange
  PROVE  FlagInv'
<1> DEFINE i == cursor + 1
           found == InLookback(Attached[i], CONFIG_LOOKBACK_MINUTES)
           T == {"flag", "config"}
<1>1. /\ pc = "changes" /\ pc' = "changes" /\ cursor' = i /\ inc' = inc
      /\ answers' = answers /\ cursor < Len(Attached)
      /\ changes' = IF found THEN Append(changes, Kind(i)) ELSE changes
  BY DEF DetectChange
<1>2. /\ Detecting(cursor) /\ Asks("flag") = 0 /\ Asks("config") = 0
  BY <1>1 DEF FlagInv
<1>3. Asks("flag")' = 0 /\ Asks("config")' = 0
  BY <1>1, <1>2, SameAsks
<1>4. /\ cursor \in Nat /\ i \in Nat /\ i = cursor + 1
      /\ Len(Attached) \in Nat /\ Len(inc.flags) \in Nat
      /\ i <= Len(Attached)
  BY <1>1, AttachedFacts DEF TypeOK
<1>5. /\ changes \in Seq(T) /\ Len(changes) \in Nat /\ DOMAIN changes = 1..Len(changes)
  BY LenProperties DEF TypeOK
<1>6. /\ Attached' = Attached /\ FlagPositions' = FlagPositions
      /\ Found(cursor)' = Found(i)
  BY <1>1 DEF Attached, FlagPositions, Found
<1>7. Kind(i) = (IF i <= Len(inc.flags) THEN "flag" ELSE "config") /\ Kind(i) \in T
  BY DEF Kind
<1>8. Found(i) = IF found THEN Found(cursor) \cup {i} ELSE Found(cursor)
  <2>1. 1..i = 1..cursor \cup {i}
    BY <1>4
  <2> HIDE DEF i
  <2> QED BY <2>1 DEF Found
<1>9. IsFiniteSet(Found(cursor) \cap FlagPositions) /\ i \notin Found(cursor)
      /\ Cardinality(Found(cursor) \cap FlagPositions) \in Nat
  <2>1. i \notin 1..cursor
    BY <1>4
  <2> HIDE DEF i
  <2>2. i \notin Found(cursor)
    BY <2>1 DEF Found
  <2>3. IsFiniteSet(Found(cursor) \cap FlagPositions)
    BY <1>4, FoundFinite
  <2> QED BY <2>2, <2>3, FS_CardinalityType
<1>10. ASSUME CountIn(changes', {"flag"}) = Cardinality(Found(i) \cap FlagPositions),
              i <= Len(inc.flags) => \A j \in DOMAIN changes' : changes'[j] = "flag",
              \A j, k \in DOMAIN changes' :
                j < k /\ changes'[k] = "flag" => changes'[j] = "flag"
       PROVE  FlagInv'
  <2> HIDE DEF i, found
  <2>1. Detecting(cursor)'
    <3>1. cursor' <= Len(Attached')
      BY <1>1, <1>4, <1>6
    <3>2. CountIn(changes, {"flag"})' = CountIn(changes', {"flag"})
      BY DEF CountIn
    <3>3. CountIn(changes, {"flag"})' = Cardinality(Found(cursor)' \cap FlagPositions')
      BY <1>6, <1>10, <3>2
    <3>4. cursor' <= Len(inc'.flags) => \A j \in DOMAIN changes' : changes'[j] = "flag"
      BY <1>1, <1>10
    <3> QED BY <1>10, <3>1, <3>3, <3>4 DEF Detecting
  <2> QED BY <1>1, <1>3, <2>1 DEF FlagInv, BeforeConfig
<1> HIDE DEF i, found
<1>13. CASE found /\ i <= Len(inc.flags)
  <2>1. changes' = Append(changes, "flag")
    BY <1>1, <1>7, <1>13
  <2>2. CountIn(Append(changes, "flag"), {"flag"}) = CountIn(changes, {"flag"}) + 1
    BY <1>5, CountAppend DEF If
  <2>3. i \in FlagPositions
    BY <1>4, <1>13 DEF FlagPositions
  <2>4. Found(i) \cap FlagPositions = (Found(cursor) \cap FlagPositions) \cup {i}
        /\ i \notin Found(cursor) \cap FlagPositions
    BY <1>8, <1>9, <1>13, <2>3
  <2>5. Cardinality(Found(i) \cap FlagPositions)
          = Cardinality(Found(cursor) \cap FlagPositions) + 1
    BY <1>9, <2>4, FS_AddElement
  <2>6. CountIn(changes', {"flag"}) = Cardinality(Found(i) \cap FlagPositions)
    BY <1>2, <2>1, <2>2, <2>5, Zenon DEF Detecting
  <2>7. \A j \in DOMAIN changes : changes[j] = "flag"
    BY <1>2, <1>4, <1>13 DEF Detecting
  <2>8. \A j \in DOMAIN Append(changes, "flag") : Append(changes, "flag")[j] = "flag"
    BY <1>5, <2>7
  <2>9. \A j \in DOMAIN changes' : changes'[j] = "flag"
    BY <2>1, <2>8
  <2> QED BY <1>10, <2>6, <2>9
<1>11. CASE found /\ ~(i <= Len(inc.flags))
  <2>1. changes' = Append(changes, "config")
    BY <1>1, <1>7, <1>11
  <2>2. CountIn(Append(changes, "config"), {"flag"}) = CountIn(changes, {"flag"}) + 0
    BY <1>5, CountAppend DEF If
  <2>3. i \notin FlagPositions
    BY <1>4, <1>11 DEF FlagPositions
  <2>4. Found(i) \cap FlagPositions = Found(cursor) \cap FlagPositions
    BY <1>8, <1>11, <2>3
  <2>5. CountIn(changes, {"flag"}) \in Nat
    BY <1>5, CountType
  <2>6. CountIn(changes', {"flag"}) = Cardinality(Found(i) \cap FlagPositions)
    <3>1. CountIn(changes, {"flag"}) = Cardinality(Found(cursor) \cap FlagPositions)
      BY <1>2 DEF Detecting
    <3>2. CountIn(changes', {"flag"}) = CountIn(changes, {"flag"})
      BY <2>1, <2>2, <2>5
    <3> QED BY <2>4, <3>1, <3>2
  <2>7. \A j, k \in DOMAIN Append(changes, "config") :
          j < k /\ Append(changes, "config")[k] = "flag" => Append(changes, "config")[j] = "flag"
    <3>1. /\ DOMAIN Append(changes, "config") = 1..(Len(changes) + 1)
          /\ \A j \in 1..Len(changes) : Append(changes, "config")[j] = changes[j]
          /\ Append(changes, "config")[Len(changes) + 1] = "config"
      BY <1>5
    <3>2. \A j, k \in 1..Len(changes) : j < k /\ changes[k] = "flag" => changes[j] = "flag"
      BY <1>2, <1>5 DEF Detecting
    <3> QED BY <1>5, <3>1, <3>2
  <2>8. \A j, k \in DOMAIN changes' :
          j < k /\ changes'[k] = "flag" => changes'[j] = "flag"
    BY <2>1, <2>7
  <2> QED BY <1>10, <1>11, <2>6, <2>8
<1>12. CASE ~found
  <2>1. changes' = changes /\ Found(i) = Found(cursor)
    BY <1>1, <1>8, <1>12
  <2>2. i <= Len(inc.flags) => cursor <= Len(inc.flags)
    BY <1>4
  <2> QED BY <1>2, <1>10, <2>1, <2>2 DEF Detecting
<1> QED BY <1>11, <1>12, <1>13

LEMMA FlagEndDetect ==
  ASSUME TypeOK, FlagInv, EndDetect
  PROVE  FlagInv'
<1>1. /\ pc = "changes" /\ pc' = "assess" /\ cursor' = 0 /\ inc' = inc
      /\ answers' = answers /\ changes' = changes /\ cursor >= Len(Attached)
  BY DEF EndDetect
<1>2. Detecting(cursor) /\ Asks("flag") = 0 /\ Asks("config") = 0
  BY <1>1 DEF FlagInv
<1>3. cursor \in Nat /\ Len(Attached) \in Nat /\ Len(changes) \in Nat
  BY AttachedFacts, LenProperties DEF TypeOK
<1>4. cursor = Len(Attached)
  BY <1>1, <1>2, <1>3 DEF Detecting
<1>5. Detecting(Len(Attached))'
  <2>1. /\ Attached' = Attached /\ FlagPositions' = FlagPositions
        /\ Found(Len(Attached))' = Found(Len(Attached))
    BY <1>1 DEF Attached, FlagPositions, Found
  <2> QED BY <1>1, <1>2, <1>4, <2>1 DEF Detecting, CountIn
<1>6. \A kind \in {"flag", "config"} :
        Asks(kind)' = Cardinality({i \in 1..0 : changes[i] = kind})
  <2>1. \A kind : {i \in 1..0 : changes[i] = kind} = {}
    OBVIOUS
  <2> QED BY <1>1, <1>2, <2>1, SameAsks, FS_EmptySet
<1>7. Asking(cursor)'
  BY <1>1, <1>3, <1>6 DEF Asking, MAX_CONFIG_CALLS
<1> QED BY <1>1, <1>5, <1>7 DEF FlagInv, BeforeConfig

LEMMA FlagAssess ==
  ASSUME IInv, FlagInv, AssessConfigChange
  PROVE  FlagInv'
<1> DEFINE n == cursor + 1
           call == changes[n]
           P(kind) == {i \in 1..cursor : changes[i] = kind}
           Q(kind) == {i \in 1..n : changes[i] = kind}
<1>1. PICK reply \in Replies : answers' = Asked(call, reply)
  BY DEF AssessConfigChange
<1>2. /\ pc = "assess" /\ pc' = "assess" /\ cursor' = n /\ inc' = inc
      /\ changes' = changes /\ cursor < ToAssess
  BY DEF AssessConfigChange
<1>3. TypeOK /\ call \in {"flag", "config"}
  BY <1>2, ToAssessBound DEF IInv
<1>4. Detecting(Len(Attached)) /\ Asking(cursor)
  BY <1>2 DEF FlagInv
<1>5. Detecting(Len(Attached))'
  <2>1. /\ Attached' = Attached /\ FlagPositions' = FlagPositions
        /\ Found(Len(Attached))' = Found(Len(Attached))
    BY <1>2 DEF Attached, FlagPositions, Found
  <2> QED BY <1>2, <1>4, <2>1 DEF Detecting, CountIn
<1>6. /\ cursor \in Nat /\ n \in Nat /\ Len(changes) \in Nat
      /\ n <= Len(changes) /\ n <= MAX_CONFIG_CALLS
  BY <1>2, <1>3, LenProperties DEF TypeOK, ToAssess, MAX_CONFIG_CALLS
<1>7. ASSUME NEW kind \in {"flag", "config"}
      PROVE  Asks(kind)' = Cardinality(Q(kind))
  <2>1. Asks(kind)' = Asks(kind) + If(call = kind)
    <3> HIDE DEF call
    <3> QED BY <1>1, <1>3, AsksAppend
  <2>2. Asks(kind) = Cardinality(P(kind))
    BY <1>4 DEF Asking
  <2>3. 1..n = 1..cursor \cup {n} /\ n \notin 1..cursor
    BY <1>6
  <2>4. IsFiniteSet(P(kind)) /\ Cardinality(P(kind)) \in Nat
    <3>1. P(kind) \subseteq 1..cursor /\ IsFiniteSet(1..cursor)
      <4>1. P(kind) \subseteq 1..cursor
        OBVIOUS
      <4>2. IsFiniteSet(1..cursor)
        <5> HIDE DEF n, call
        <5>1. cursor \in Int /\ 0 \in Int /\ 1 \in Int
          BY <1>6
        <5> QED BY <5>1, FS_Interval
      <4> QED BY <4>1, <4>2
    <3> QED BY <3>1, FS_Subset, FS_CardinalityType
  <2> HIDE DEF n
  <2>5. CASE call = kind
    <3>1. Q(kind) = P(kind) \cup {n} /\ n \notin P(kind)
      BY <2>3, <2>5
    <3>2. Cardinality(Q(kind)) = Cardinality(P(kind)) + 1
      BY <2>4, <3>1, FS_AddElement
    <3> QED BY <2>1, <2>2, <2>5, <3>2 DEF If
  <2>6. CASE call # kind
    <3>1. Q(kind) = P(kind)
      BY <2>3, <2>6
    <3>2. Asks(kind)' = Asks(kind) + 0
      BY <2>1, <2>6 DEF If
    <3> HIDE DEF P, Q
    <3> QED BY <2>2, <2>4, <3>1, <3>2
  <2> QED BY <2>5, <2>6
<1>8. Asking(cursor)'
  BY <1>2, <1>6, <1>7 DEF Asking, MAX_CONFIG_CALLS
<1> QED BY <1>2, <1>5, <1>8 DEF FlagInv, BeforeConfig

LEMMA FlagStep ==
  ASSUME IInv, FlagInv, [Next]_vars
  PROVE  FlagInv'
<1>1. TypeOK
  BY DEF IInv
<1>2. CASE DetectDeploy \/ ExtractException
  BY <1>1, <1>2, SameAsks, FlagQuiet DEF DetectDeploy, ExtractException, BeforeConfig
<1>3. CASE Raise
  BY <1>1, <1>3, SameAsks, FlagQuiet DEF Raise, BeforeConfig
<1>4. CASE MatchSpan \/ EndMatch
  BY <1>1, <1>4, SameAsks, FlagQuiet DEF MatchSpan, Searching, EndMatch, BeforeConfig
<1>5. CASE EndConfig \/ Arbitrate
  BY <1>1, <1>5, SameAsks, FlagQuiet DEF EndConfig, Arbitrate, BeforeConfig
<1>6. CASE UNCHANGED vars
  <2>1. /\ inc' = inc /\ pc' = pc /\ changes' = changes /\ cursor' = cursor
        /\ answers' = answers
    BY <1>6 DEF vars
  <2>2. Detecting(cursor)' = Detecting(cursor)
    BY <2>1 DEF Detecting, CountIn, Found, FlagPositions, Attached
  <2>3. Detecting(Len(Attached))' = Detecting(Len(Attached))
    BY <2>1 DEF Detecting, CountIn, Found, FlagPositions, Attached
  <2>4. Asking(cursor)' = Asking(cursor)
    BY <2>1 DEF Asking, Asks, CountIn, Questions, MAX_CONFIG_CALLS
  <2>5. FlagsFirst' = FlagsFirst
    BY <2>1 DEF FlagsFirst, Asks, CountIn, Questions, MAX_CONFIG_CALLS, Found,
                FlagPositions, Attached
  <2> QED BY <2>1, <2>2, <2>3, <2>4, <2>5, SameAsks DEF FlagInv, BeforeConfig
<1>7. CASE CodeEngine
  BY <1>1, <1>2, <1>3, <1>4, <1>7, FlagAsk, FlagEndCode
     DEF CodeEngine, ExtractionFails, MatchFails
<1>8. CASE ConfigEngine
  BY <1>1, <1>3, <1>5, <1>8, FlagDetect, FlagEndDetect, FlagAssess
     DEF ConfigEngine, PatternFails
<1> QED BY <1>5, <1>6, <1>7, <1>8 DEF Next, Returned

(* The model is asked about every flag in the window before it is asked about a
   setting, and never more than three times. *)
THEOREM FlagsComeFirst == Spec => []FlagsAreAssessedFirst
<1>1. Init => FlagInv
  BY FlagInit
<1>2. IInv /\ FlagInv /\ [Next]_vars => FlagInv'
  BY FlagStep
<1>3. IInv /\ FlagInv => FlagsAreAssessedFirst
  BY FlagsFirstThroughout, FlagsFirstIsIt DEF IInv
<1> QED BY <1>1, <1>2, <1>3, Invariance, PTL DEF Spec

----------------------------------------------------------------------------
(* What is merged, and what an answer adds *)

(* A diagnosis lists the evidence of both engines, one after the other. *)
Merged ==
  Diagnosed => result.evidence \in {code \o config, config \o code}

LEMMA MergedStep ==
  ASSUME IInv, [Next]_vars, Merged
  PROVE  Merged'
<1>1. CASE Raise
  <2>1. result'.failure_type = "unknown"
    BY <1>1 DEF Raise, FailedOutcome, Outcome
  <2> QED BY <2>1 DEF Merged, Diagnosed
<1>2. CASE Arbitrate
  <2>1. result'.evidence = (IF CodeWins THEN code \o config ELSE config \o code)
    BY <1>2, Zenon DEF Arbitrate, Outcome
  <2>2. code' = code /\ config' = config
    BY <1>2 DEF Arbitrate
  <2> QED BY <2>1, <2>2 DEF Merged
<1>3. CASE UNCHANGED vars
  BY <1>3 DEF vars, Merged, Diagnosed
<1>4. CASE pc' # "done"
  BY <1>4 DEF Merged, Diagnosed
<1>5. CASE CodeEngine
  BY <1>1, <1>4, <1>5 DEF CodeEngine, DetectDeploy, ExtractException, ExtractionFails,
     AssessDeploy, MatchSpan, Searching, MatchFails, EndMatch, AssessChange, EndCode
<1>6. CASE ConfigEngine
  BY <1>1, <1>4, <1>6 DEF ConfigEngine, DetectChange, EndDetect, PatternFails,
     AssessConfigChange, EndConfig
<1> QED BY <1>2, <1>3, <1>5, <1>6 DEF Next, Returned

(* Whichever came first, everything counts. *)
LEMMA MergedCount ==
  ASSUME TypeOK, Merged, Diagnosed, NEW S
  PROVE  CountIn(result.evidence, S) = CountIn(code, S) + CountIn(config, S)
<1>1. code \in Seq(EvidenceItem) /\ config \in Seq(EvidenceItem)
  BY DEF TypeOK
<1>2. CountIn(code \o config, S) = CountIn(code, S) + CountIn(config, S)
  BY <1>1, CountConcat
<1>3. CountIn(config \o code, S) = CountIn(config, S) + CountIn(code, S)
  BY <1>1, CountConcat
<1>4. CountIn(code, S) \in Nat /\ CountIn(config, S) \in Nat
  BY <1>1, CountType
<1>5. \/ CountIn(result.evidence, S) = CountIn(code \o config, S)
      \/ CountIn(result.evidence, S) = CountIn(config \o code, S)
  BY DEF Merged
<1> QED BY <1>2, <1>3, <1>4, <1>5

(* Counting a single piece of evidence. *)
LEMMA CountOne ==
  ASSUME NEW T, NEW x \in T, NEW S
  PROVE  CountIn(<<x>>, S) = If(x \in S)
<1>1. CountIn(Append(<<>>, x), S) = CountIn(<<>>, S) + If(x \in S)
  <2>1. <<>> \in Seq(T)
    OBVIOUS
  <2> QED BY <2>1, CountAppend
<1>2. Append(<<>>, x) = <<x>>
  OBVIOUS
<1>3. If(x \in S) \in Nat
  BY DEF If
<1> QED BY <1>1, <1>2, <1>3, CountEmpty

(* The model's assessments among the evidence, of one strength. *)
Assessments(strength) ==
  {x \in EvidenceItem : x.signal \in ModelSignals /\ x.strength = strength}

Assessed(strength) ==
  CountIn(code, Assessments(strength)) + CountIn(config, Assessments(strength))

Said(reply) == CountIn(answers, {a \in Answer : a.reply = reply})

(* A "likely" about a match in the file alone stands on too little. *)
Discounted ==
  IF match.level = "file_match"
    THEN CountIn(answers, {[call |-> "case_b", reply |-> "likely"]}) ELSE 0

TallyInv ==
  /\ Assessed("WEAK") = Said("unlikely")
  /\ Assessed("STRONG") + Discounted = Said("likely")
  /\ pc = "deploy" => code = <<>>
  /\ pc \in BeforeConfig \ {"end_code"} => Asks("case_b") = 0
  /\ pc = "case_b" => match.level # "none"

(* An assessment is counted with its answer. *)
LEMMA AssessmentCount ==
  ASSUME NEW signal \in ModelSignals, NEW reply \in Replies, NEW likely \in BOOLEAN
  PROVE  /\ CountIn(Assessment(signal, reply, likely), Assessments("STRONG"))
              = If(reply = "likely" /\ likely)
         /\ CountIn(Assessment(signal, reply, likely), Assessments("WEAK"))
              = If(reply = "unlikely")
<1> DEFINE strong == Item(signal, "STRONG")
           weak == Item(signal, "WEAK")
           a == Assessment(signal, reply, likely)
<1>1. /\ strong \in EvidenceItem /\ strong.signal = signal /\ strong.strength = "STRONG"
      /\ weak \in EvidenceItem /\ weak.signal = signal /\ weak.strength = "WEAK"
  <2>1. signal \in Signals /\ "STRONG" \in Strengths /\ "WEAK" \in Strengths
    BY DEF ModelSignals, Signals, Strengths
  <2>2. strong \in EvidenceItem /\ weak \in EvidenceItem
    BY <2>1, ItemType
  <2> QED BY <2>2 DEF Item
<1>2. /\ strong \in Assessments("STRONG") /\ strong \notin Assessments("WEAK")
      /\ weak \in Assessments("WEAK") /\ weak \notin Assessments("STRONG")
  BY <1>1 DEF Assessments
<1>3. a = CASE Finding(reply) = "likely" /\ likely -> <<strong>>
            [] Finding(reply) = "unlikely" -> <<weak>>
            [] OTHER -> <<>>
  BY DEF Assessment
<1> HIDE DEF strong, weak, a
<1>4. CountIn(<<strong>>, Assessments("STRONG")) = 1
      /\ CountIn(<<strong>>, Assessments("WEAK")) = 0
  BY <1>1, <1>2, CountOne DEF If
<1>5. CountIn(<<weak>>, Assessments("STRONG")) = 0
      /\ CountIn(<<weak>>, Assessments("WEAK")) = 1
  BY <1>1, <1>2, CountOne DEF If
<1>6. CASE reply = "likely" /\ likely
  <2>1. a = <<strong>>
    BY <1>3, <1>6 DEF Finding
  <2> QED BY <1>4, <1>6, <2>1 DEF If, a
<1>7. CASE reply = "unlikely"
  <2>1. a = <<weak>>
    BY <1>3, <1>7 DEF Finding
  <2> QED BY <1>5, <1>7, <2>1 DEF If, a
<1>8. CASE ~(reply = "likely" /\ likely) /\ reply # "unlikely"
  <2>1. a = <<>>
    BY <1>3, <1>8 DEF Finding, Replies
  <2> QED BY <1>8, <2>1, CountEmpty DEF If, a
<1> QED BY <1>6, <1>7, <1>8

LEMMA AssessmentsAppend ==
  ASSUME NEW s \in Seq(EvidenceItem),
         NEW signal \in Signals \ ModelSignals, NEW strength \in Strengths, NEW st
  PROVE  CountIn(Append(s, Item(signal, strength)), Assessments(st))
           = CountIn(s, Assessments(st))
<1> DEFINE x == Item(signal, strength)
<1>1. x \in EvidenceItem
  BY ItemType
<1>2. x \notin Assessments(st)
  BY DEF Item, Assessments
<1> HIDE DEF x
<1>3. CountIn(Append(s, x), Assessments(st)) = CountIn(s, Assessments(st)) + 0
  BY <1>1, <1>2, CountAppend DEF If
<1>4. CountIn(s, Assessments(st)) \in Nat
  BY CountType
<1> QED BY <1>3, <1>4 DEF x

(* What is written down of a question. *)
LEMMA AnswerCount ==
  ASSUME TypeOK, NEW call \in {"case_a", "case_b", "flag", "config"}, NEW reply \in Replies,
         answers' = Asked(call, reply), NEW S
  PROVE  CountIn(answers', S)
           = CountIn(answers, S) + If([call |-> call, reply |-> reply] \in S)
<1> DEFINE a == [call |-> call, reply |-> reply]
<1>1. a \in Answer /\ answers \in Seq(Answer)
  BY DEF Answer, TypeOK
<1>2. answers' = Append(answers, a)
  BY DEF Asked
<1> HIDE DEF a
<1>3. CountIn(Append(answers, a), S) = CountIn(answers, S) + If(a \in S)
  BY <1>1, CountAppend
<1> QED BY <1>2, <1>3 DEF a

LEMMA SaidCount ==
  ASSUME TypeOK, NEW call \in {"case_a", "case_b", "flag", "config"}, NEW reply \in Replies,
         answers' = Asked(call, reply)
  PROVE  \A r : Said(r)' = Said(r) + If(reply = r)
<1> TAKE r
<1> DEFINE a == [call |-> call, reply |-> reply]
           S == {b \in Answer : b.reply = r}
<1>1. a \in S <=> reply = r
  BY DEF Answer
<1> HIDE DEF a, S
<1>2. CountIn(answers', S) = CountIn(answers, S) + If(a \in S)
  BY AnswerCount DEF a
<1>3. If(a \in S) = If(reply = r)
  BY <1>1 DEF If
<1>4. Said(r) = CountIn(answers, S)
  BY DEF Said, S
<1>5. Said(r)' = CountIn(answers', S)
  BY DEF Said, S, CountIn
<1> QED BY <1>2, <1>3, <1>4, <1>5

LEMMA TallyType ==
  ASSUME TypeOK
  PROVE  /\ \A S : CountIn(code, S) \in Nat /\ CountIn(config, S) \in Nat
                   /\ CountIn(answers, S) \in Nat
         /\ \A st : Assessed(st) \in Nat
         /\ Discounted \in Nat
<1>1. \A S : CountIn(code, S) \in Nat /\ CountIn(config, S) \in Nat
             /\ CountIn(answers, S) \in Nat
  BY CountType DEF TypeOK
<1>2. \A st : Assessed(st) \in Nat
  BY <1>1 DEF Assessed
<1>3. Discounted \in Nat
  BY <1>1 DEF Discounted
<1> QED BY <1>1, <1>2, <1>3

(* Before the question of case B there is nothing to discount. *)
LEMMA NothingDiscounted ==
  ASSUME TypeOK, Asks("case_b") = 0
  PROVE  CountIn(answers, {[call |-> "case_b", reply |-> "likely"]}) = 0
<1> DEFINE gun == [call |-> "case_b", reply |-> "likely"]
<1>1. gun \in Questions("case_b")
  BY DEF Questions, Answer, Replies
<1>2. answers \in Seq(Answer)
  BY DEF TypeOK
<1> HIDE DEF gun
<1>3. \A i \in DOMAIN answers : answers[i] \notin Questions("case_b")
  BY <1>2, CountType DEF Asks
<1>4. \A i \in DOMAIN answers : answers[i] \notin {gun}
  BY <1>1, <1>3
<1> QED BY <1>2, <1>4, CountType DEF gun

----------------------------------------------------------------------------
(* Only the model's definite answers count *)

LEMMA TallyInit ==
  ASSUME Init
  PROVE  TallyInv
<1>1. \A S : CountIn(code, S) = 0 /\ CountIn(config, S) = 0 /\ CountIn(answers, S) = 0
  BY CountEmpty DEF Init
<1> QED BY <1>1 DEF Init, TallyInv, Assessed, Said, Discounted, Asks, Unmatched

(* A step that asks nothing adds no assessment. *)
LEMMA TallyQuiet ==
  ASSUME TypeOK, TallyInv, answers' = answers,
         \A st : CountIn(code', Assessments(st)) = CountIn(code, Assessments(st)),
         \A st : CountIn(config', Assessments(st)) = CountIn(config, Assessments(st)),
         match' = match \/ pc = "match",
         pc' # "deploy",
         pc' \in BeforeConfig \ {"end_code"} => pc \in BeforeConfig \ {"end_code"},
         pc' = "case_b" => match'.level # "none"
  PROVE  TallyInv'
<1>1. Assessed("WEAK")' = Assessed("WEAK") /\ Assessed("STRONG")' = Assessed("STRONG")
  <2>1. /\ Assessments("WEAK")' = Assessments("WEAK")
        /\ Assessments("STRONG")' = Assessments("STRONG")
    BY DEF Assessments
  <2>2. Assessed("WEAK")' = CountIn(code', Assessments("WEAK"))
                              + CountIn(config', Assessments("WEAK"))
    BY <2>1, Zenon DEF Assessed, CountIn
  <2>3. Assessed("STRONG")' = CountIn(code', Assessments("STRONG"))
                                + CountIn(config', Assessments("STRONG"))
    BY <2>1, Zenon DEF Assessed, CountIn
  <2> QED BY <2>2, <2>3, Zenon DEF Assessed
<1>2. \A r : Said(r)' = Said(r)
  BY DEF Said, CountIn
<1>3. Asks("case_b")' = Asks("case_b")
  BY DEF Asks, CountIn, Questions
<1>4. Discounted' = Discounted
  <2>1. CASE match' = match
    BY <2>1 DEF Discounted, CountIn
  <2>2. CASE pc = "match"
    <3>1. CountIn(answers, {[call |-> "case_b", reply |-> "likely"]}) = 0
      BY <2>2, NothingDiscounted DEF TallyInv, BeforeConfig
    <3>2. CountIn(answers, {[call |-> "case_b", reply |-> "likely"]})' = 0
      BY <3>1 DEF CountIn
    <3> QED BY <3>1, <3>2 DEF Discounted
  <2> QED BY <2>1, <2>2
<1> QED BY <1>1, <1>2, <1>3, <1>4 DEF TallyInv, BeforeConfig

(* A step that asks adds what the answer says. *)
LEMMA TallyAsk ==
  ASSUME TypeOK, TallyInv,
         NEW call \in {"case_a", "case_b", "flag", "config"}, NEW reply \in Replies,
         NEW likely \in BOOLEAN,
         answers' = Asked(call, reply), match' = match,
         Assessed("STRONG")' = Assessed("STRONG") + If(reply = "likely" /\ likely),
         Assessed("WEAK")' = Assessed("WEAK") + If(reply = "unlikely"),
         reply = "likely" /\ ~likely <=>
           call = "case_b" /\ reply = "likely" /\ match.level = "file_match",
         pc' \notin {"deploy", "case_b"},
         pc' \in BeforeConfig \ {"end_code"} =>
           pc \in BeforeConfig \ {"end_code"} /\ call # "case_b"
  PROVE  TallyInv'
<1> DEFINE gun == [call |-> "case_b", reply |-> "likely"]
           a == [call |-> call, reply |-> reply]
<1>1. Said("likely")' = Said("likely") + If(reply = "likely")
      /\ Said("unlikely")' = Said("unlikely") + If(reply = "unlikely")
  BY SaidCount
<1>2. Asks("case_b")' = Asks("case_b") + If(call = "case_b")
  BY AsksAppend
<1>3. a \in {gun} <=> call = "case_b" /\ reply = "likely"
  OBVIOUS
<1>4. CountIn(answers', {gun}) = CountIn(answers, {gun}) + If(a \in {gun})
  <2> HIDE DEF gun
  <2> QED BY AnswerCount
<1>5. If(a \in {gun}) = If(call = "case_b" /\ reply = "likely")
  BY <1>3 DEF If
<1>6. CountIn(answers, {gun})' = CountIn(answers', {gun})
  BY DEF CountIn
<1>7. Discounted = IF match.level = "file_match" THEN CountIn(answers, {gun}) ELSE 0
  BY DEF Discounted
<1>8. Discounted' = IF match'.level = "file_match" THEN CountIn(answers', {gun}) ELSE 0
  BY <1>6 DEF Discounted
<1>9. CountIn(answers, {gun}) \in Nat /\ Asks("case_b") \in Nat
      /\ Assessed("STRONG") \in Nat /\ Discounted \in Nat
  BY TallyType, AsksType
<1> HIDE DEF gun, a
<1>10. Discounted' = Discounted + If(reply = "likely" /\ ~likely)
  <2>1. If(call = "case_b" /\ reply = "likely") \in {0, 1}
    BY DEF If
  <2> QED BY <1>4, <1>5, <1>7, <1>8, <1>9, <2>1 DEF If
<1>11. Assessed("STRONG")' + Discounted' = Said("likely")'
  BY <1>1, <1>9, <1>10 DEF If, TallyInv
<1>12. Assessed("WEAK")' = Said("unlikely")'
  BY <1>1 DEF TallyInv
<1>13. pc' \in BeforeConfig \ {"end_code"} => Asks("case_b")' = 0
  BY <1>2, <1>9 DEF TallyInv, If
<1> QED BY <1>11, <1>12, <1>13 DEF TallyInv, BeforeConfig

(* What is added to the evidence of one engine is added to the sum. *)
LEMMA AssessedGrows ==
  ASSUME TypeOK, NEW a \in Seq(EvidenceItem),
         \/ code' = code \o a /\ config' = config
         \/ config' = config \o a /\ code' = code
  PROVE  \A st : Assessed(st)' = Assessed(st) + CountIn(a, Assessments(st))
<1> TAKE st
<1> DEFINE S == Assessments(st)
<1>1. Assessed(st) = CountIn(code, S) + CountIn(config, S)
      /\ Assessed(st)' = CountIn(code', S) + CountIn(config', S)
  BY Zenon DEF Assessed, Assessments, CountIn
<1> HIDE DEF S
<1>2. /\ CountIn(code \o a, S) = CountIn(code, S) + CountIn(a, S)
      /\ CountIn(config \o a, S) = CountIn(config, S) + CountIn(a, S)
  BY CountConcat DEF TypeOK
<1>3. CountIn(code, S) \in Nat /\ CountIn(config, S) \in Nat /\ CountIn(a, S) \in Nat
  BY CountType DEF TypeOK
<1>4. CASE code' = code \o a /\ config' = config
  BY <1>1, <1>2, <1>3, <1>4 DEF S
<1>5. CASE config' = config \o a /\ code' = code
  BY <1>1, <1>2, <1>3, <1>5 DEF S
<1> QED BY <1>4, <1>5

LEMMA TallyAssess ==
  ASSUME IInv, TallyInv, AssessDeploy \/ AssessChange \/ AssessConfigChange
  PROVE  TallyInv'
<1>0. TypeOK
  BY DEF IInv
<1>1. CASE AssessDeploy
  <2>1. PICK reply \in Replies :
          /\ answers' = Asked("case_a", reply)
          /\ code' = code \o Assessment("llm_causal_assessment", reply, TRUE)
    BY <1>1 DEF AssessDeploy
  <2> DEFINE a == Assessment("llm_causal_assessment", reply, TRUE)
  <2>2. a \in Seq(EvidenceItem)
    BY AssessmentType DEF Signals
  <2>3. CountIn(a, Assessments("STRONG")) = If(reply = "likely" /\ TRUE)
        /\ CountIn(a, Assessments("WEAK")) = If(reply = "unlikely")
    BY AssessmentCount DEF ModelSignals
  <2>4. /\ config' = config /\ match' = match /\ code' = code \o a
        /\ pc = "case_a" /\ pc' = "match"
    BY <1>1, <2>1 DEF AssessDeploy
  <2> HIDE DEF a
  <2>5. \A st : Assessed(st)' = Assessed(st) + CountIn(a, Assessments(st))
    BY <1>0, <2>2, <2>4, AssessedGrows
  <2>6. /\ Assessed("STRONG")' = Assessed("STRONG") + If(reply = "likely" /\ TRUE)
        /\ Assessed("WEAK")' = Assessed("WEAK") + If(reply = "unlikely")
    BY <2>3, <2>5
  <2> QED BY <1>0, <2>1, <2>4, <2>6, TallyAsk DEF BeforeConfig
<1>2. CASE AssessChange
  <2>1. PICK reply \in Replies :
          /\ answers' = Asked("case_b", reply)
          /\ code' = code \o Assessment("llm_case_b_analysis", reply, IsSmokingGun(reply))
    BY <1>2 DEF AssessChange
  <2> DEFINE gun == IsSmokingGun(reply)
             a == Assessment("llm_case_b_analysis", reply, gun)
  <2>2. gun \in BOOLEAN
    BY DEF IsSmokingGun
  <2>3. gun <=> reply = "likely" /\ match.level \in {"exact_line", "function_match"}
    BY DEF IsSmokingGun, Finding, Replies
  <2>4. code' = code \o a
    BY <2>1
  <2> HIDE DEF gun
  <2>5. a \in Seq(EvidenceItem)
    BY <2>2, AssessmentType DEF Signals
  <2>6. CountIn(a, Assessments("STRONG")) = If(reply = "likely" /\ gun)
        /\ CountIn(a, Assessments("WEAK")) = If(reply = "unlikely")
    BY <2>2, AssessmentCount DEF ModelSignals
  <2>7. /\ config' = config /\ match' = match
        /\ pc = "case_b" /\ pc' = "end_code"
    BY <1>2 DEF AssessChange
  <2> HIDE DEF a
  <2>8. \A st : Assessed(st)' = Assessed(st) + CountIn(a, Assessments(st))
    BY <1>0, <2>4, <2>5, <2>7, AssessedGrows
  <2>9. /\ Assessed("STRONG")' = Assessed("STRONG") + If(reply = "likely" /\ gun)
        /\ Assessed("WEAK")' = Assessed("WEAK") + If(reply = "unlikely")
    BY <2>6, <2>8
  <2>10. match.level \in {"file_match", "function_match", "exact_line"}
    BY <1>0, <2>7 DEF TallyInv, TypeOK, Match, MatchLevel
  <2>11. reply = "likely" /\ ~gun <=>
           "case_b" = "case_b" /\ reply = "likely" /\ match.level = "file_match"
    BY <2>3, <2>10
  <2> QED BY <1>0, <2>1, <2>2, <2>7, <2>9, <2>11, TallyAsk DEF BeforeConfig
<1>3. CASE AssessConfigChange
  <2> DEFINE call == changes[cursor + 1]
  <2>1. PICK reply \in Replies :
          /\ answers' = Asked(call, reply)
          /\ config' = config \o Assessment("llm_config_assessment", reply, TRUE)
    BY <1>3 DEF AssessConfigChange
  <2>2. call \in {"flag", "config"}
    BY <1>3, ToAssessBound DEF AssessConfigChange
  <2> DEFINE a == Assessment("llm_config_assessment", reply, TRUE)
  <2>3. a \in Seq(EvidenceItem)
    BY AssessmentType DEF Signals
  <2>4. CountIn(a, Assessments("STRONG")) = If(reply = "likely" /\ TRUE)
        /\ CountIn(a, Assessments("WEAK")) = If(reply = "unlikely")
    BY AssessmentCount DEF ModelSignals
  <2>5. /\ code' = code /\ match' = match /\ config' = config \o a
        /\ pc = "assess" /\ pc' = "assess"
    BY <1>3, <2>1 DEF AssessConfigChange
  <2> HIDE DEF a, call
  <2>6. \A st : Assessed(st)' = Assessed(st) + CountIn(a, Assessments(st))
    BY <1>0, <2>3, <2>5, AssessedGrows
  <2>7. /\ Assessed("STRONG")' = Assessed("STRONG") + If(reply = "likely" /\ TRUE)
        /\ Assessed("WEAK")' = Assessed("WEAK") + If(reply = "unlikely")
    BY <2>4, <2>6
  <2> QED BY <1>0, <2>1, <2>2, <2>5, <2>7, TallyAsk DEF BeforeConfig
<1> QED BY <1>1, <1>2, <1>3

(* The steps that add evidence of their own. *)
LEMMA TallyAdd ==
  ASSUME IInv, TallyInv, DetectDeploy \/ ExtractException \/ EndMatch \/ DetectChange
  PROVE  TallyInv'
<1>1. TypeOK /\ code \in Seq(EvidenceItem) /\ config \in Seq(EvidenceItem)
  BY DEF IInv, TypeOK
<1>2. CASE DetectDeploy
  <2>1. \A st, age : CountIn(<<DeployEvidence(age)>>, Assessments(st)) = 0
    <3> TAKE st, age
    <3>1. DeployEvidence(age) \in EvidenceItem
      BY ItemType DEF DeployEvidence, Signals, Strengths
    <3>2. DeployEvidence(age) \notin Assessments(st)
      BY DEF DeployEvidence, Item, Assessments, ModelSignals
    <3> HIDE DEF DeployEvidence
    <3> QED BY <3>1, <3>2, CountOne DEF If
  <2>2. \A st : CountIn(code', Assessments(st)) = 0
    BY <1>2, <2>1, CountEmpty DEF DetectDeploy
  <2>3. \A st : CountIn(code, Assessments(st)) = 0
    BY <1>2, CountEmpty DEF DetectDeploy, TallyInv
  <2> QED BY <1>1, <1>2, <2>2, <2>3, TallyQuiet DEF DetectDeploy, BeforeConfig
<1>3. CASE ExtractException
  <2>1. "exception_in_spans" \in Signals \ ModelSignals /\ "MODERATE" \in Strengths
    BY DEF Signals, ModelSignals, Strengths
  <2>2. \A st : CountIn(code', Assessments(st)) = CountIn(code, Assessments(st))
    BY <1>1, <1>3, <2>1, AssessmentsAppend DEF ExtractException
  <2>3. pc' \in {"case_a", "match"}
    BY <1>3 DEF ExtractException
  <2> QED BY <1>1, <1>3, <2>2, <2>3, TallyQuiet DEF ExtractException, BeforeConfig
<1>4. CASE EndMatch
  <2>1. "stacktrace_match" \in Signals \ ModelSignals
        /\ StacktraceStrength(match.level) \in Strengths
    BY DEF Signals, ModelSignals, Strengths, StacktraceStrength
  <2> HIDE DEF StacktraceStrength
  <2>2. \A st : CountIn(code', Assessments(st)) = CountIn(code, Assessments(st))
    BY <1>1, <1>4, <2>1, AssessmentsAppend DEF EndMatch, StacktraceEvidence
  <2>3. pc' \in {"case_b", "end_code"} /\ (pc' = "case_b" => match.level # "none")
    BY <1>4 DEF EndMatch
  <2> QED BY <1>1, <1>4, <2>2, <2>3, TallyQuiet DEF EndMatch, BeforeConfig
<1>5. CASE DetectChange
  <2> DEFINE kind == Kind(cursor + 1)
             strength == IF Attached[cursor + 1] <= CONFIG_STRONG_MINUTES
                           THEN "STRONG" ELSE "MODERATE"
             signal == IF kind = "flag" THEN "feature_flag_change" ELSE "config_change"
  <2>1. signal \in Signals \ ModelSignals /\ strength \in Strengths
    BY DEF Signals, ModelSignals, Strengths
  <2>2. config' = config \/ config' = Append(config, Item(signal, strength))
    BY <1>5 DEF DetectChange, ChangeEvidence
  <2> HIDE DEF signal, strength
  <2>3. \A st : CountIn(config', Assessments(st)) = CountIn(config, Assessments(st))
    <3>1. \A st : CountIn(Append(config, Item(signal, strength)), Assessments(st))
                    = CountIn(config, Assessments(st))
      BY <1>1, <2>1, AssessmentsAppend
    <3> QED BY <2>2, <3>1
  <2> QED BY <1>1, <1>5, <2>3, TallyQuiet DEF DetectChange, BeforeConfig
<1> QED BY <1>2, <1>3, <1>4, <1>5

(* Evidence of one or no element that is not the model's. *)
LEMMA PlainPart ==
  ASSUME NEW signal \in Signals \ ModelSignals, NEW strength \in Strengths, NEW p \in BOOLEAN
  PROVE  LET s == IF p THEN <<Item(signal, strength)>> ELSE <<>>
         IN  /\ s \in Seq(EvidenceItem)
             /\ \A st : CountIn(s, Assessments(st)) = 0
<1> DEFINE x == Item(signal, strength)
           s == IF p THEN <<x>> ELSE <<>>
<1>1. x \in EvidenceItem
  BY ItemType
<1>2. \A st : x \notin Assessments(st)
  BY DEF Item, Assessments
<1> HIDE DEF x
<1>3. s \in Seq(EvidenceItem)
  BY <1>1
<1>4. \A st : CountIn(<<x>>, Assessments(st)) = 0
  BY <1>1, <1>2, CountOne DEF If
<1>5. \A st : CountIn(s, Assessments(st)) = 0
  BY <1>4, CountEmpty
<1> QED BY <1>3, <1>5 DEF x

LEMMA TallyEnds ==
  ASSUME IInv, TallyInv, EndCode \/ EndConfig
  PROVE  TallyInv'
<1> DEFINE sum(s, t) == \A st : CountIn(s \o t, Assessments(st))
                                  = CountIn(s, Assessments(st)) + CountIn(t, Assessments(st))
<1>1. TypeOK /\ code \in Seq(EvidenceItem) /\ config \in Seq(EvidenceItem)
  BY DEF IInv, TypeOK
<1>2. \A s, t \in Seq(EvidenceItem) : s \o t \in Seq(EvidenceItem) /\ sum(s, t)
  BY CountConcat, ConcatProperties
<1>3. \A s \in Seq(EvidenceItem) : \A st : CountIn(s, Assessments(st)) \in Nat
  BY CountType
<1> HIDE DEF sum
<1>4. CASE EndCode
  <2> DEFINE s == IF ErrorSpans # {} THEN <<Item("degraded_operation", "WEAK")>> ELSE <<>>
             d == IF ~deploy_found THEN <<Item("no_deploy_in_window", "WEAK")>> ELSE <<>>
  <2>1. /\ "degraded_operation" \in Signals \ ModelSignals
        /\ "no_deploy_in_window" \in Signals \ ModelSignals
        /\ "WEAK" \in Strengths
    BY DEF Signals, ModelSignals, Strengths
  <2>2. /\ s \in Seq(EvidenceItem) /\ \A st : CountIn(s, Assessments(st)) = 0
    BY <2>1, PlainPart
  <2>3. /\ d \in Seq(EvidenceItem) /\ \A st : CountIn(d, Assessments(st)) = 0
    BY <2>1, PlainPart DEF deploy_found
  <2>4. code' = (code \o s) \o d
    BY <1>4 DEF EndCode
  <2> HIDE DEF s, d
  <2>5. \A st : CountIn(code', Assessments(st)) = CountIn(code, Assessments(st))
    <3> TAKE st
    <3>1. code \o s \in Seq(EvidenceItem) /\ sum(code, s) /\ sum(code \o s, d)
      BY <1>1, <1>2, <2>2, <2>3
    <3>2. CountIn(code \o s, Assessments(st)) = CountIn(code, Assessments(st)) + 0
          /\ CountIn(code', Assessments(st)) = CountIn(code \o s, Assessments(st)) + 0
      BY <2>2, <2>3, <2>4, <3>1 DEF sum
    <3>3. CountIn(code, Assessments(st)) \in Nat /\ CountIn(code \o s, Assessments(st)) \in Nat
      BY <1>1, <1>3, <3>1
    <3> QED BY <3>2, <3>3
  <2> QED BY <1>1, <1>4, <2>5, TallyQuiet DEF EndCode, BeforeConfig
<1>5. CASE EndConfig
  <2> DEFINE errors == changes # <<>> /\ ErrorSpans # {}
             deploys == changes # <<>> /\ deploy_found
             e == IF errors THEN <<Item("post_change_errors", "MODERATE")>> ELSE <<>>
             s == IF deploys THEN <<Item("simultaneous_change", "MODERATE")>> ELSE <<>>
  <2>1. /\ "post_change_errors" \in Signals \ ModelSignals
        /\ "simultaneous_change" \in Signals \ ModelSignals
        /\ "MODERATE" \in Strengths /\ errors \in BOOLEAN /\ deploys \in BOOLEAN
    BY DEF Signals, ModelSignals, Strengths, deploy_found
  <2>2. config' = config \o (e \o s)
    BY <1>5 DEF EndConfig, LateEvidence
  <2> HIDE DEF errors, deploys
  <2>3. /\ e \in Seq(EvidenceItem) /\ \A st : CountIn(e, Assessments(st)) = 0
    BY <2>1, PlainPart
  <2>4. /\ s \in Seq(EvidenceItem) /\ \A st : CountIn(s, Assessments(st)) = 0
    BY <2>1, PlainPart
  <2> HIDE DEF s, e
  <2>5. \A st : CountIn(config', Assessments(st)) = CountIn(config, Assessments(st))
    <3> TAKE st
    <3>1. e \o s \in Seq(EvidenceItem) /\ sum(e, s) /\ sum(config, e \o s)
      BY <1>1, <1>2, <2>3, <2>4
    <3>2. CountIn(e \o s, Assessments(st)) = 0
      BY <2>3, <2>4, <3>1 DEF sum
    <3>3. CountIn(config', Assessments(st)) = CountIn(config, Assessments(st)) + 0
      BY <2>2, <3>1, <3>2 DEF sum
    <3>4. CountIn(config, Assessments(st)) \in Nat
      BY <1>1, <1>3
    <3> QED BY <3>3, <3>4
  <2> QED BY <1>1, <1>5, <2>5, TallyQuiet DEF EndConfig, BeforeConfig
<1> QED BY <1>4, <1>5

LEMMA TallyStep ==
  ASSUME IInv, TallyInv, [Next]_vars
  PROVE  TallyInv'
<1>1. TypeOK
  BY DEF IInv
<1>2. CASE Raise \/ EndDetect \/ Arbitrate
  BY <1>1, <1>2, TallyQuiet DEF Raise, EndDetect, Arbitrate, BeforeConfig
<1>3. CASE MatchSpan
  BY <1>1, <1>3, TallyQuiet DEF MatchSpan, Searching, BeforeConfig
<1>4. CASE UNCHANGED vars
  BY <1>4 DEF vars, TallyInv, Assessed, Assessments, Said, Discounted, Asks, CountIn,
     Questions, BeforeConfig
<1>5. CASE CodeEngine
  BY <1>2, <1>3, <1>5, TallyAdd, TallyAssess, TallyEnds
     DEF CodeEngine, ExtractionFails, MatchFails
<1>6. CASE ConfigEngine
  BY <1>2, <1>6, TallyAdd, TallyAssess, TallyEnds DEF ConfigEngine, PatternFails
<1> QED BY <1>2, <1>4, <1>5, <1>6 DEF Next, Returned

LEMMA TallyIsIt ==
  ASSUME TypeOK, TallyInv, Merged
  PROVE  OnlyAnswersCount
<1> SUFFICES ASSUME Diagnosed PROVE OnlyAnswersCount
  BY DEF OnlyAnswersCount
<1> DEFINE E == result.evidence
           gun == [call |-> "case_b", reply |-> "likely"]
           G == {i \in DOMAIN answers : answers[i] = gun /\ match.level = "file_match"}
           M(st) == {i \in Items(ModelSignals) : E[i].strength = st}
<1>1. E \in Seq(EvidenceItem)
  BY DEF TypeOK, Outcomes
<1>2. \A st : Cardinality(M(st)) = Assessed(st)
  <2> TAKE st
  <2>1. M(st) = {i \in DOMAIN E : E[i] \in Assessments(st)}
    <3>1. \A i \in DOMAIN E : E[i] \in EvidenceItem
      <4> HIDE DEF E
      <4> QED BY <1>1, ElementOfSeq, LenProperties
    <3> QED BY <3>1 DEF Items, Assessments
  <2>2. CountIn(E, Assessments(st)) = Assessed(st)
    BY MergedCount DEF Assessed
  <2> QED BY <2>1, <2>2 DEF CountIn
<1>3. \A r : Answers({r}) = Said(r)
  <2> TAKE r
  <2>1. \A i \in DOMAIN answers : answers[i] \in Answer
    BY ElementOfSeq, LenProperties DEF TypeOK
  <2>2. {i \in DOMAIN answers : answers[i].reply \in {r}}
          = {i \in DOMAIN answers : answers[i] \in {a \in Answer : a.reply = r}}
    BY <2>1
  <2> QED BY <2>2 DEF Answers, Said, CountIn
<1>4. Cardinality(G) = Discounted
  <2> HIDE DEF gun
  <2>1. CASE match.level = "file_match"
    <3>1. G = {i \in DOMAIN answers : answers[i] \in {gun}}
      BY <2>1
    <3> QED BY <2>1, <3>1 DEF Discounted, CountIn, gun
  <2>2. CASE match.level # "file_match"
    <3>1. G = {}
      BY <2>2
    <3> QED BY <2>2, <3>1, FS_EmptySet DEF Discounted
  <2> QED BY <2>1, <2>2
<1>5. OnlyAnswersCount <=>
        /\ Cardinality(M("WEAK")) = Answers({"unlikely"})
        /\ Cardinality(M("STRONG")) = Answers({"likely"}) - Cardinality(G)
  BY DEF OnlyAnswersCount
<1>6. Assessed("STRONG") \in Nat /\ Discounted \in Nat
  BY TallyType
<1> HIDE DEF M, G
<1>7. /\ Cardinality(M("WEAK")) = Assessed("WEAK")
      /\ Cardinality(M("STRONG")) = Assessed("STRONG")
      /\ Answers({"unlikely"}) = Said("unlikely") /\ Answers({"likely"}) = Said("likely")
  BY <1>2, <1>3
<1>8. Assessed("WEAK") = Said("unlikely")
      /\ Assessed("STRONG") + Discounted = Said("likely")
  BY DEF TallyInv
<1> QED BY <1>4, <1>5, <1>6, <1>7, <1>8

(* A call to the model that fails, or an answer that says nothing, leaves no trace
   in the evidence; each definite answer leaves exactly one. *)
THEOREM AnswersAreCounted == Spec => []OnlyAnswersCount
<1>1. Init => TallyInv /\ Merged
  BY TallyInit DEF Init, Merged, Diagnosed
<1>2. IInv /\ TallyInv /\ Merged /\ [Next]_vars => TallyInv' /\ Merged'
  BY TallyStep, MergedStep
<1>3. IInv /\ TallyInv /\ Merged => OnlyAnswersCount
  BY TallyIsIt DEF IInv
<1> QED BY <1>1, <1>2, <1>3, Invariance, PTL DEF Spec

----------------------------------------------------------------------------
(* The cause follows from the evidence *)

(* What the code engine finds; a deploy is found when there is one. *)
CodeItem ==
  {x \in EvidenceItem :
     /\ x.signal \in CodeSignals \cup {"no_deploy_in_window", "degraded_operation"}
     /\ x.signal \notin CodeSignals => x.strength = "WEAK"
     /\ x.signal = "deploy_in_window" => deploy_found}

ChangeSignals == {"feature_flag_change", "config_change"}

ConfigItem ==
  {x \in EvidenceItem :
     x.signal \in ChangeSignals \cup
       {"post_change_errors", "simultaneous_change", "llm_config_assessment"}}

OfStrength(strengths) == {x \in EvidenceItem : x.strength \in strengths}

OfSignal(signals) == {x \in EvidenceItem : x.signal \in signals}

Middling(evidence) == CountIn(evidence, OfStrength({"MODERATE"}))

Backing(evidence) == CountIn(evidence, OfStrength({"STRONG", "MODERATE"}))

Traces(evidence) == CountIn(evidence, OfSignal({"stacktrace_match"}))

Named ==
  Diagnosed =>
    /\ result.domain = (IF CodeNamesCause THEN "application_code" ELSE ConfigDomain)
    /\ result.failure_type = (IF CodeNamesCause THEN CodeFailure ELSE ConfigFailure)

(* Beside stack traces there are at most two moderate findings in the code, a
   deploy and an exception.  Each change is at least as strong as that, and each of
   the two gives rise to one more. *)
DomainInv ==
  /\ code \in Seq(CodeItem)
  /\ config \in Seq(ConfigItem)
  /\ pc = "deploy" => code = <<>>
  /\ pc \in BeforeConfig => config = <<>> /\ changes = <<>>
  /\ pc = "exception" => Middling(code) <= If(deploy_found)
  /\ pc \notin {"deploy", "exception"} =>
       Middling(code) <= If(deploy_found) + If(exception_found) + Traces(code)
  /\ changes = <<>> => config = <<>>
  /\ changes # <<>> => CountIn(config, OfSignal(ChangeSignals)) > 0
  /\ Backing(config) >= Len(changes)
  /\ pc = "arbitrate" \/ Diagnosed =>
       Backing(config) >= Len(changes) + If(changes # <<>> /\ ErrorSpans # {})
                                       + If(changes # <<>> /\ deploy_found)

LEMMA NamedStep ==
  ASSUME IInv, [Next]_vars, Named
  PROVE  Named'
<1>1. CASE Raise
  <2>1. result'.failure_type = "unknown"
    BY <1>1 DEF Raise, FailedOutcome, Outcome
  <2> QED BY <2>1 DEF Named, Diagnosed
<1>2. CASE Arbitrate
  <2>1. UNCHANGED <<inc, code, config, changes, smoking>>
    BY <1>2 DEF Arbitrate
  <2>2. CodeNamesCause' = CodeNamesCause
    BY <2>1 DEF CodeNamesCause, BothStrong, CodeWins, Strong, Moderate, CountOf
  <2>3. ConfigDomain' = ConfigDomain /\ ConfigFailure' = ConfigFailure
    <3>1. Kinds' = Kinds
      BY <2>1 DEF Kinds
    <3> QED BY <3>1 DEF ConfigDomain, ConfigFailure
  <2>4. CodeFailure' = CodeFailure
    BY <2>1 DEF CodeFailure, deploy_found, DeploysInWindow, exception_found, ErrorEvents,
       ErrorSpans
  <2>5. /\ result'.domain = (IF CodeNamesCause THEN "application_code" ELSE ConfigDomain)
        /\ result'.failure_type = (IF CodeNamesCause THEN CodeFailure ELSE ConfigFailure)
    BY <1>2, Zenon DEF Arbitrate, Outcome
  <2> QED BY <2>2, <2>3, <2>4, <2>5 DEF Named
<1>3. CASE UNCHANGED vars
  <2>1. UNCHANGED <<inc, code, config, changes, smoking, result, pc>>
    BY <1>3 DEF vars
  <2>2. CodeNamesCause' = CodeNamesCause
    BY <2>1 DEF CodeNamesCause, BothStrong, CodeWins, Strong, Moderate, CountOf
  <2>3. ConfigDomain' = ConfigDomain /\ ConfigFailure' = ConfigFailure
    <3>1. Kinds' = Kinds
      BY <2>1 DEF Kinds
    <3> QED BY <3>1 DEF ConfigDomain, ConfigFailure
  <2>4. CodeFailure' = CodeFailure
    BY <2>1 DEF CodeFailure, deploy_found, DeploysInWindow, exception_found, ErrorEvents,
       ErrorSpans
  <2> QED BY <2>1, <2>2, <2>3, <2>4 DEF Named, Diagnosed
<1>4. CASE pc' # "done"
  BY <1>4 DEF Named, Diagnosed
<1>5. CASE CodeEngine
  BY <1>1, <1>4, <1>5 DEF CodeEngine, DetectDeploy, ExtractException, ExtractionFails,
     AssessDeploy, MatchSpan, Searching, MatchFails, EndMatch, AssessChange, EndCode
<1>6. CASE ConfigEngine
  BY <1>1, <1>4, <1>6 DEF ConfigEngine, DetectChange, EndDetect, PatternFails,
     AssessConfigChange, EndConfig
<1> QED BY <1>2, <1>3, <1>5, <1>6 DEF Next, Returned

LEMMA SameFindings ==
  ASSUME inc' = inc
  PROVE  /\ CodeItem' = CodeItem
         /\ deploy_found' = deploy_found
         /\ exception_found' = exception_found
         /\ ErrorSpans' = ErrorSpans
<1>1. deploy_found' = deploy_found
  BY DEF deploy_found, DeploysInWindow
<1>2. ErrorSpans' = ErrorSpans
  BY DEF ErrorSpans
<1>3. exception_found' = exception_found
  BY <1>2 DEF exception_found, ErrorEvents
<1> QED BY <1>1, <1>2, <1>3 DEF CodeItem

LEMMA DomainInit ==
  ASSUME Init
  PROVE  DomainInv /\ Named
<1>1. \A S : CountIn(code, S) = 0 /\ CountIn(config, S) = 0
  BY CountEmpty DEF Init
<1>2. code \in Seq(CodeItem) /\ config \in Seq(ConfigItem) /\ Len(changes) = 0
  BY DEF Init
<1> QED BY <1>1, <1>2 DEF Init, DomainInv, Named, Diagnosed, Backing

(* What an answer of the model adds is not moderate. *)
LEMMA AssessmentShape ==
  ASSUME NEW signal, NEW reply, NEW likely
  PROVE  Assessment(signal, reply, likely)
           \in {<<>>, <<Item(signal, "STRONG")>>, <<Item(signal, "WEAK")>>}
<1> DEFINE strong == <<Item(signal, "STRONG")>>
           weak == <<Item(signal, "WEAK")>>
           p == Finding(reply) = "likely" /\ likely
           q == Finding(reply) = "unlikely"
<1>1. Assessment(signal, reply, likely)
        = CASE p -> strong [] q -> weak [] OTHER -> <<>>
  BY DEF Assessment
<1> HIDE DEF strong, weak, p, q
<1>2. CASE p /\ ~q
  BY <1>1, <1>2 DEF strong, weak
<1>3. CASE q /\ ~p
  BY <1>1, <1>3 DEF strong, weak
<1>4. CASE ~p /\ ~q
  BY <1>1, <1>4 DEF strong, weak
<1>5. ~(p /\ q)
  BY DEF p, q
<1> QED BY <1>2, <1>3, <1>4, <1>5

LEMMA CodeIsEvidence ==
  /\ CodeItem \subseteq EvidenceItem
  /\ ConfigItem \subseteq EvidenceItem
BY DEF CodeItem, ConfigItem

(* A piece of the code engine's evidence that is no moderate finding, or is a
   stack trace. *)
LEMMA CodePiece ==
  ASSUME NEW x \in CodeItem, x.strength # "MODERATE" \/ x.signal = "stacktrace_match"
  PROVE  /\ <<x>> \in Seq(CodeItem)
         /\ Middling(<<x>>) <= Traces(<<x>>)
<1>1. x \in EvidenceItem /\ <<x>> \in Seq(CodeItem)
  BY CodeIsEvidence
<1>2. Middling(<<x>>) = If(x \in OfStrength({"MODERATE"}))
  BY <1>1, CountOne DEF Middling
<1>3. Traces(<<x>>) = If(x \in OfSignal({"stacktrace_match"}))
  BY <1>1, CountOne DEF Traces
<1>4. x \in OfStrength({"MODERATE"}) => x \in OfSignal({"stacktrace_match"})
  BY <1>1 DEF OfStrength, OfSignal
<1> QED BY <1>1, <1>2, <1>3, <1>4 DEF If

LEMMA NoPiece ==
  /\ <<>> \in Seq(CodeItem)
  /\ Middling(<<>>) <= Traces(<<>>)
<1>1. Middling(<<>>) = 0 /\ Traces(<<>>) = 0
  BY CountEmpty DEF Middling, Traces
<1> QED BY <1>1

(* The code engine's evidence grows by such pieces. *)
LEMMA CodeGrows ==
  ASSUME DomainInv, NEW a \in Seq(CodeItem), Middling(a) <= Traces(a),
         code' = code \o a, UNCHANGED <<inc, config, changes>>,
         pc \notin {"deploy", "exception"}, pc' \notin {"deploy", "exception", "arbitrate", "done"},
         pc' \in BeforeConfig => pc \in BeforeConfig
  PROVE  DomainInv'
<1>1. /\ Middling(code \o a) = Middling(code) + Middling(a)
      /\ Traces(code \o a) = Traces(code) + Traces(a)
  BY CountConcat DEF DomainInv, Middling, Traces
<1>2. /\ Middling(code) \in Nat /\ Middling(a) \in Nat
      /\ Traces(code) \in Nat /\ Traces(a) \in Nat
  BY CountType DEF DomainInv, Middling, Traces
<1>3. If(deploy_found) \in Nat /\ If(exception_found) \in Nat
  BY DEF If
<1>4. Middling(code \o a) <= If(deploy_found) + If(exception_found) + Traces(code \o a)
  BY <1>1, <1>2, <1>3 DEF DomainInv
<1>5. Middling(code)' = Middling(code \o a) /\ Traces(code)' = Traces(code \o a)
  BY DEF Middling, Traces, CountIn, OfStrength, OfSignal
<1>6. If(deploy_found)' = If(deploy_found) /\ If(exception_found)' = If(exception_found)
  BY SameFindings DEF If
<1>7. code \o a \in Seq(CodeItem)
  BY ConcatProperties DEF DomainInv
<1>8. code' \in Seq(CodeItem')
  BY <1>7, SameFindings
<1>9. /\ Backing(config)' = Backing(config)
      /\ CountIn(config, OfSignal(ChangeSignals))' = CountIn(config, OfSignal(ChangeSignals))
  BY DEF Backing, CountIn, OfStrength, OfSignal
<1>10. pc' \notin {"deploy", "exception"} /\ ~(pc' = "arbitrate" \/ Diagnosed')
  BY DEF Diagnosed
<1>11. Middling(code)' <= If(deploy_found)' + If(exception_found)' + Traces(code)'
  BY <1>4, <1>5, <1>6
<1>12. config' \in Seq(ConfigItem')
  BY DEF DomainInv, ConfigItem
<1> QED BY <1>8, <1>9, <1>10, <1>11, <1>12 DEF DomainInv, BeforeConfig

(* The first two steps of the code engine. *)
LEMMA DomainFinds ==
  ASSUME IInv, DomainInv, DetectDeploy \/ ExtractException
  PROVE  DomainInv'
<1>1. /\ UNCHANGED <<inc, config, changes>> /\ pc \in BeforeConfig /\ pc' \in BeforeConfig
      /\ pc' # "deploy" /\ config = <<>> /\ changes = <<>>
      /\ ~(pc' = "arbitrate" \/ Diagnosed')
  BY DEF DetectDeploy, ExtractException, BeforeConfig, DomainInv, Diagnosed
<1>2. /\ CodeItem' = CodeItem
      /\ If(deploy_found)' = If(deploy_found) /\ If(exception_found)' = If(exception_found)
  BY <1>1, SameFindings DEF If
<1>3. Backing(config)' = 0 /\ Len(changes)' = 0
  BY <1>1, CountEmpty DEF Backing
<1>4. config' \in Seq(ConfigItem')
  BY <1>1
<1>5. CASE DetectDeploy
  <2> DEFINE x == DeployEvidence(RecentDeploy.age)
  <2>1. deploy_found => x \in CodeItem
    <3>1. x \in EvidenceItem /\ x.signal = "deploy_in_window"
      BY ItemType DEF DeployEvidence, Signals, Strengths, Item
    <3> QED BY <3>1 DEF CodeItem, CodeSignals
  <2>2. code' = (IF deploy_found THEN <<x>> ELSE <<>>) /\ pc' = "exception"
    BY <1>5 DEF DetectDeploy
  <2> HIDE DEF x
  <2>3. CASE deploy_found
    <3>1. code' = <<x>> /\ x \in CodeItem /\ x \in EvidenceItem
      BY <2>1, <2>2, <2>3, CodeIsEvidence
    <3>2. code' \in Seq(CodeItem')
      BY <1>2, <3>1
    <3>3. CountIn(<<x>>, OfStrength({"MODERATE"})) = If(x \in OfStrength({"MODERATE"}))
      BY <3>1, CountOne
    <3>4. Middling(code)' = CountIn(<<x>>, OfStrength({"MODERATE"}))
      BY <3>1, Zenon DEF Middling, CountIn, OfStrength
    <3>5. Middling(code)' <= If(deploy_found)'
      BY <1>2, <2>3, <3>3, <3>4 DEF If
    <3> QED BY <1>1, <1>3, <1>4, <2>2, <3>2, <3>5 DEF DomainInv
  <2>4. CASE ~deploy_found
    <3>1. code' = <<>>
      BY <2>2, <2>4
    <3>2. Middling(code)' = 0
      BY <3>1, CountEmpty DEF Middling
    <3>3. Middling(code)' <= If(deploy_found)'
      BY <3>2 DEF If
    <3> QED BY <1>1, <1>3, <1>4, <2>2, <3>1, <3>3 DEF DomainInv
  <2> QED BY <2>3, <2>4
<1>6. CASE ExtractException
  <2> DEFINE x == Item("exception_in_spans", "MODERATE")
  <2>1. x \in CodeItem
    <3>1. x \in EvidenceItem /\ x.signal = "exception_in_spans"
      BY ItemType DEF Signals, Strengths, Item
    <3> QED BY <3>1 DEF CodeItem, CodeSignals
  <2>2. /\ code' = (IF exception_found THEN Append(code, x) ELSE code)
        /\ pc = "exception" /\ pc' \in {"case_a", "match"}
    BY <1>6 DEF ExtractException
  <2> HIDE DEF x
  <2>3. /\ code \in Seq(CodeItem) /\ Middling(code) <= If(deploy_found)
        /\ Middling(code) \in Nat /\ If(deploy_found) \in Nat
    BY <2>2, CountType DEF DomainInv, Middling, If
  <2>4. Middling(Append(code, x)) = Middling(code) + If(x \in OfStrength({"MODERATE"}))
    BY <2>1, <2>3, CountAppend DEF Middling
  <2>5. Middling(code') <= If(deploy_found) + If(exception_found)
    BY <2>2, <2>3, <2>4 DEF If
  <2>6. code' \in Seq(CodeItem)
    BY <2>1, <2>2, <2>3, AppendProperties
  <2>7. Traces(code') \in Nat /\ Middling(code') \in Nat
    BY <2>6, CountType DEF Traces, Middling
  <2>8. /\ Middling(code)' = Middling(code') /\ Traces(code)' = Traces(code')
    BY DEF Middling, Traces, CountIn, OfStrength, OfSignal
  <2>9. If(exception_found) \in Nat
    BY DEF If
  <2>10. Middling(code)' <= If(deploy_found)' + If(exception_found)' + Traces(code)'
    BY <1>2, <2>3, <2>5, <2>7, <2>8, <2>9
  <2>11. code' \in Seq(CodeItem')
    BY <1>2, <2>6
  <2> QED BY <1>1, <1>3, <1>4, <2>2, <2>10, <2>11 DEF DomainInv
<1> QED BY <1>5, <1>6

LEMMA DomainCode ==
  ASSUME IInv, DomainInv, AssessDeploy \/ EndMatch \/ AssessChange \/ EndCode
  PROVE  DomainInv'
<1> USE DEF BeforeConfig
<1>1. code \in Seq(CodeItem)
  BY DEF DomainInv
<1>2. ASSUME NEW signal \in ModelSignals \ {"llm_config_assessment"}, NEW reply, NEW likely
      PROVE  /\ Assessment(signal, reply, likely) \in Seq(CodeItem)
             /\ Middling(Assessment(signal, reply, likely))
                  <= Traces(Assessment(signal, reply, likely))
  <2>1. ASSUME NEW st \in {"STRONG", "WEAK"}
        PROVE  /\ <<Item(signal, st)>> \in Seq(CodeItem)
               /\ Middling(<<Item(signal, st)>>) <= Traces(<<Item(signal, st)>>)
    <3> DEFINE x == Item(signal, st)
    <3>1. x \in EvidenceItem /\ x.signal = signal /\ x.strength = st
      BY ItemType DEF Signals, ModelSignals, Strengths, Item
    <3>2. x \in CodeItem
      BY <3>1 DEF CodeItem, CodeSignals, ModelSignals
    <3> HIDE DEF x
    <3>3. <<x>> \in Seq(CodeItem) /\ Middling(<<x>>) <= Traces(<<x>>)
      BY <3>1, <3>2, CodePiece
    <3> QED BY <3>3 DEF x
  <2>2. Assessment(signal, reply, likely)
           \in {<<>>, <<Item(signal, "STRONG")>>, <<Item(signal, "WEAK")>>}
    BY AssessmentShape
  <2>3. CASE Assessment(signal, reply, likely) = <<>>
    BY <2>3, NoPiece
  <2>4. CASE Assessment(signal, reply, likely) = <<Item(signal, "STRONG")>>
    BY <2>1, <2>4, Zenon
  <2>5. CASE Assessment(signal, reply, likely) = <<Item(signal, "WEAK")>>
    BY <2>1, <2>5, Zenon
  <2> QED BY <2>2, <2>3, <2>4, <2>5
<1>3. CASE AssessDeploy
  <2>1. PICK reply : code' = code \o Assessment("llm_causal_assessment", reply, TRUE)
    BY <1>3 DEF AssessDeploy
  <2> DEFINE a == Assessment("llm_causal_assessment", reply, TRUE)
  <2>2. a \in Seq(CodeItem) /\ Middling(a) <= Traces(a)
    BY <1>2 DEF ModelSignals
  <2>3. code' = code \o a
    BY <2>1
  <2> HIDE DEF a
  <2> QED BY <1>3, <2>2, <2>3, CodeGrows DEF AssessDeploy
<1>4. CASE AssessChange
  <2>1. PICK reply : code' = code \o Assessment("llm_case_b_analysis", reply, IsSmokingGun(reply))
    BY <1>4 DEF AssessChange
  <2> DEFINE a == Assessment("llm_case_b_analysis", reply, IsSmokingGun(reply))
  <2>2. a \in Seq(CodeItem) /\ Middling(a) <= Traces(a)
    BY <1>2 DEF ModelSignals
  <2>3. code' = code \o a
    BY <2>1
  <2> HIDE DEF a
  <2> QED BY <1>4, <2>2, <2>3, CodeGrows DEF AssessChange
<1>5. CASE EndMatch
  <2> DEFINE x == Item("stacktrace_match", StacktraceStrength(match.level))
             a == IF match.level = "none" THEN <<>> ELSE <<x>>
  <2>1. x \in EvidenceItem /\ x.signal = "stacktrace_match"
    BY ItemType DEF Signals, Strengths, StacktraceStrength, Item
  <2>2. x \in CodeItem
    BY <2>1 DEF CodeItem, CodeSignals
  <2>3. code' = IF match.level = "none" THEN code ELSE Append(code, x)
    BY <1>5 DEF EndMatch, StacktraceEvidence
  <2> HIDE DEF x
  <2>4. a \in Seq(CodeItem) /\ Middling(a) <= Traces(a)
    BY <2>1, <2>2, CodePiece, NoPiece
  <2>5. code' = code \o a
    BY <1>1, <2>2, <2>3, AppendIsConcat, ConcatProperties, ConcatEmptySeq
  <2> HIDE DEF a
  <2>6. pc = "match" /\ pc' \in {"case_b", "end_code"} /\ UNCHANGED <<inc, config, changes>>
    BY <1>5 DEF EndMatch
  <2> QED BY <2>4, <2>5, <2>6, CodeGrows
<1>6. CASE EndCode
  <2> DEFINE x == Item("degraded_operation", "WEAK")
             y == Item("no_deploy_in_window", "WEAK")
             s == IF ErrorSpans # {} THEN <<x>> ELSE <<>>
             d == IF deploy_found THEN <<>> ELSE <<y>>
  <2>1. /\ x \in EvidenceItem /\ x.signal = "degraded_operation" /\ x.strength = "WEAK"
        /\ y \in EvidenceItem /\ y.signal = "no_deploy_in_window" /\ y.strength = "WEAK"
    BY ItemType DEF Signals, Strengths, Item
  <2>2. x \in CodeItem /\ y \in CodeItem
    BY <2>1 DEF CodeItem, CodeSignals
  <2>3. code' = (code \o s) \o d
    BY <1>6 DEF EndCode
  <2> HIDE DEF x, y
  <2>4. /\ s \in Seq(CodeItem) /\ Middling(s) <= Traces(s)
        /\ d \in Seq(CodeItem) /\ Middling(d) <= Traces(d)
    BY <2>1, <2>2, CodePiece, NoPiece
  <2> HIDE DEF s, d
  <2>5. s \o d \in Seq(CodeItem) /\ Middling(s \o d) <= Traces(s \o d)
    <3>1. /\ Middling(s \o d) = Middling(s) + Middling(d)
          /\ Traces(s \o d) = Traces(s) + Traces(d)
      BY <2>4, CountConcat DEF Middling, Traces
    <3>2. /\ Middling(s) \in Nat /\ Middling(d) \in Nat
          /\ Traces(s) \in Nat /\ Traces(d) \in Nat
      BY <2>4, CountType DEF Middling, Traces
    <3> QED BY <2>4, <3>1, <3>2, ConcatProperties
  <2>6. code' = code \o (s \o d)
    BY <1>1, <2>3, <2>4, ConcatAssociative
  <2>7. pc = "end_code" /\ pc' = "changes" /\ UNCHANGED <<inc, config, changes>>
    BY <1>6 DEF EndCode
  <2> QED BY <2>5, <2>6, <2>7, CodeGrows
<1> QED BY <1>3, <1>4, <1>5, <1>6

(* The configuration engine's evidence grows, with at least as much backing as there
   are changes found. *)
LEMMA ConfigGrows ==
  ASSUME DomainInv, NEW a \in Seq(ConfigItem),
         config' = config \o a, UNCHANGED <<inc, code>>,
         pc \notin {"deploy", "exception"} \cup BeforeConfig,
         pc' \notin {"deploy", "exception"} \cup BeforeConfig,
         changes' # <<>>, Len(changes) \in Nat, Len(changes') \in Nat,
         changes = <<>> => CountIn(a, OfSignal(ChangeSignals)) > 0,
         Len(changes') <= Len(changes) + Backing(a),
         pc' = "arbitrate" \/ Diagnosed' =>
           Len(changes') + If(ErrorSpans # {}) + If(deploy_found) <= Len(changes) + Backing(a)
  PROVE  DomainInv'
<1> DEFINE S == OfSignal(ChangeSignals)
<1>1. /\ Backing(config \o a) = Backing(config) + Backing(a)
      /\ CountIn(config \o a, S) = CountIn(config, S) + CountIn(a, S)
  BY CountConcat DEF DomainInv, Backing
<1>2. /\ Backing(config) \in Nat /\ Backing(a) \in Nat
      /\ CountIn(config, S) \in Nat /\ CountIn(a, S) \in Nat
  BY CountType DEF DomainInv, Backing
<1>3. /\ Backing(config)' = Backing(config \o a)
      /\ CountIn(config, OfSignal(ChangeSignals))' = CountIn(config \o a, S)
  BY DEF Backing, CountIn, OfStrength, OfSignal, ChangeSignals
<1>4. config' \in Seq(ConfigItem')
  BY ConcatProperties DEF DomainInv, ConfigItem
<1> HIDE DEF S
<1>5. CountIn(config, OfSignal(ChangeSignals))' > 0
  BY <1>1, <1>2, <1>3 DEF DomainInv, S
<1>6. Backing(config)' >= Len(changes)'
  BY <1>1, <1>2, <1>3 DEF DomainInv
<1>7. /\ ErrorSpans' = ErrorSpans /\ If(deploy_found) \in Nat /\ If(ErrorSpans # {}) \in Nat
      /\ If(changes # <<>> /\ ErrorSpans # {})' = If(ErrorSpans # {})
      /\ If(changes # <<>> /\ deploy_found)' = If(deploy_found)
  BY SameFindings DEF If
<1>8. pc' = "arbitrate" \/ Diagnosed' =>
        Backing(config)' >= Len(changes)' + If(changes # <<>> /\ ErrorSpans # {})'
                              + If(changes # <<>> /\ deploy_found)'
  BY <1>1, <1>2, <1>3, <1>7 DEF DomainInv
<1>9. code' \in Seq(CodeItem')
  BY SameFindings DEF DomainInv
<1>10. /\ Middling(code)' = Middling(code) /\ Traces(code)' = Traces(code)
       /\ If(deploy_found)' = If(deploy_found) /\ If(exception_found)' = If(exception_found)
  BY SameFindings DEF Middling, Traces, CountIn, OfStrength, OfSignal, If
<1> QED BY <1>4, <1>5, <1>6, <1>8, <1>9, <1>10 DEF DomainInv

(* Where nothing is found, nothing changes. *)
LEMMA DomainQuiet ==
  ASSUME DomainInv, UNCHANGED <<inc, code, config, changes>>,
         pc' \notin {"deploy", "exception"}, pc \notin {"deploy", "exception"} \/ pc' = "done",
         pc' \in BeforeConfig => pc \in BeforeConfig,
         pc' = "arbitrate" \/ Diagnosed' => pc = "arbitrate" \/ Diagnosed \/ changes = <<>>
  PROVE  DomainInv'
<1>1. /\ Middling(code)' = Middling(code) /\ Traces(code)' = Traces(code)
      /\ If(deploy_found)' = If(deploy_found) /\ If(exception_found)' = If(exception_found)
      /\ CodeItem' = CodeItem /\ ConfigItem' = ConfigItem
      /\ Backing(config)' = Backing(config)
      /\ CountIn(config, OfSignal(ChangeSignals))' = CountIn(config, OfSignal(ChangeSignals))
  BY SameFindings DEF Middling, Traces, Backing, CountIn, OfStrength, OfSignal, If,
     ConfigItem, ChangeSignals
<1>2. /\ If(changes # <<>> /\ ErrorSpans # {})' = If(changes # <<>> /\ ErrorSpans # {})
      /\ If(changes # <<>> /\ deploy_found)' = If(changes # <<>> /\ deploy_found)
  BY SameFindings DEF If
<1>3. changes = <<>> => /\ If(changes # <<>> /\ ErrorSpans # {}) = 0
                        /\ If(changes # <<>> /\ deploy_found) = 0
                        /\ Len(changes) = 0
  BY DEF If
<1>4. pc' = "arbitrate" \/ Diagnosed' =>
        Backing(config) >= Len(changes) + If(changes # <<>> /\ ErrorSpans # {})
                                        + If(changes # <<>> /\ deploy_found)
  BY <1>3 DEF DomainInv
<1>5. pc = "deploy" => Middling(code) = 0
  BY CountEmpty DEF DomainInv, Middling
<1>6. /\ If(deploy_found) \in Nat /\ If(exception_found) \in Nat
      /\ Traces(code) \in Nat /\ Middling(code) \in Nat
  BY CountType DEF If, DomainInv, Traces, Middling
<1>7. Middling(code) <= If(deploy_found) + If(exception_found) + Traces(code)
  BY <1>5, <1>6 DEF DomainInv
<1> QED BY <1>1, <1>2, <1>4, <1>7 DEF DomainInv, BeforeConfig

(* A single piece of the configuration engine's evidence. *)
LEMMA ConfigPiece ==
  ASSUME NEW signal \in ChangeSignals \cup
           {"post_change_errors", "simultaneous_change", "llm_config_assessment"},
         NEW strength \in Strengths
  PROVE  /\ Item(signal, strength) \in ConfigItem
         /\ <<Item(signal, strength)>> \in Seq(ConfigItem)
         /\ Backing(<<Item(signal, strength)>>) = If(strength \in {"STRONG", "MODERATE"})
         /\ CountIn(<<Item(signal, strength)>>, OfSignal(ChangeSignals))
              = If(signal \in ChangeSignals)
<1> DEFINE x == Item(signal, strength)
<1>1. x \in EvidenceItem /\ x.signal = signal /\ x.strength = strength
  BY ItemType DEF Signals, ChangeSignals, Item
<1>2. x \in ConfigItem
  BY <1>1 DEF ConfigItem
<1> HIDE DEF x
<1>3. Backing(<<x>>) = If(x \in OfStrength({"STRONG", "MODERATE"}))
  BY <1>1, CountOne DEF Backing
<1>4. CountIn(<<x>>, OfSignal(ChangeSignals)) = If(x \in OfSignal(ChangeSignals))
  BY <1>1, CountOne
<1>5. /\ x \in OfStrength({"STRONG", "MODERATE"}) <=> strength \in {"STRONG", "MODERATE"}
      /\ x \in OfSignal(ChangeSignals) <=> signal \in ChangeSignals
  BY <1>1 DEF OfStrength, OfSignal
<1>6. <<x>> \in Seq(ConfigItem)
  BY <1>2
<1>7. Backing(<<x>>) = If(strength \in {"STRONG", "MODERATE"})
      /\ CountIn(<<x>>, OfSignal(ChangeSignals)) = If(signal \in ChangeSignals)
  BY <1>3, <1>4, <1>5 DEF If
<1> QED BY <1>2, <1>6, <1>7 DEF x

LEMMA DomainDetect ==
  ASSUME IInv, DomainInv, DetectChange
  PROVE  DomainInv'
<1> DEFINE i == cursor + 1
           found == InLookback(Attached[i], CONFIG_LOOKBACK_MINUTES)
           x == ChangeEvidence(Kind(i), Attached[i])
           strength == IF Attached[i] <= CONFIG_STRONG_MINUTES THEN "STRONG" ELSE "MODERATE"
           signal == IF Kind(i) = "flag" THEN "feature_flag_change" ELSE "config_change"
           kind == Kind(i)
<1>1. /\ pc = "changes" /\ pc' = pc /\ UNCHANGED <<inc, code>>
      /\ changes' = (IF found THEN Append(changes, kind) ELSE changes)
      /\ config' = (IF found THEN Append(config, x) ELSE config)
  BY DEF DetectChange
<1>2. x = Item(signal, strength)
  BY DEF ChangeEvidence
<1>3. signal \in ChangeSignals /\ strength \in {"STRONG", "MODERATE"}
  BY DEF ChangeSignals
<1>4. kind \in {"flag", "config"} /\ changes \in Seq({"flag", "config"})
  BY KindType DEF IInv, TypeOK
<1> HIDE DEF i, found, x, strength, signal, kind
<1>5. CASE found
  <2>1. /\ x \in ConfigItem /\ <<x>> \in Seq(ConfigItem)
        /\ Backing(<<x>>) = 1 /\ CountIn(<<x>>, OfSignal(ChangeSignals)) = 1
    BY <1>2, <1>3, ConfigPiece DEF Strengths, If
  <2>2. config' = config \o <<x>>
    BY <1>1, <1>5, <2>1, AppendIsConcat DEF DomainInv
  <2>3. /\ Len(changes) \in Nat /\ changes' # <<>>
        /\ Len(changes') = Len(changes) + 1
    BY <1>1, <1>4, <1>5
  <2>4. ~(pc' = "arbitrate" \/ Diagnosed')
    BY <1>1 DEF Diagnosed
  <2> DEFINE a == <<x>>
  <2>5. /\ a \in Seq(ConfigItem) /\ config' = config \o a
        /\ CountIn(a, OfSignal(ChangeSignals)) > 0
        /\ Len(changes') <= Len(changes) + Backing(a) /\ Len(changes') \in Nat
    BY <2>1, <2>2, <2>3
  <2> HIDE DEF a
  <2>6. /\ pc \notin {"deploy", "exception"} \cup BeforeConfig
        /\ pc' \notin {"deploy", "exception"} \cup BeforeConfig
    BY <1>1 DEF BeforeConfig
  <2> QED BY <1>1, <2>3, <2>4, <2>5, <2>6, ConfigGrows
<1>6. CASE ~found
  BY <1>1, <1>6, DomainQuiet DEF BeforeConfig, Diagnosed
<1> QED BY <1>5, <1>6

LEMMA DomainAssess ==
  ASSUME IInv, DomainInv, AssessConfigChange
  PROVE  DomainInv'
<1>1. PICK reply : config' = config \o Assessment("llm_config_assessment", reply, TRUE)
  BY DEF AssessConfigChange
<1> DEFINE a == Assessment("llm_config_assessment", reply, TRUE)
<1>2. a \in Seq(ConfigItem)
  <2>1. a \in {<<>>, <<Item("llm_config_assessment", "STRONG")>>,
               <<Item("llm_config_assessment", "WEAK")>>}
    BY AssessmentShape
  <2>2. /\ <<Item("llm_config_assessment", "STRONG")>> \in Seq(ConfigItem)
        /\ <<Item("llm_config_assessment", "WEAK")>> \in Seq(ConfigItem)
        /\ <<>> \in Seq(ConfigItem)
    <3>1. "llm_config_assessment" \in ChangeSignals \cup
            {"post_change_errors", "simultaneous_change", "llm_config_assessment"}
      OBVIOUS
    <3>2. "STRONG" \in Strengths /\ "WEAK" \in Strengths
      BY DEF Strengths
    <3>3. <<Item("llm_config_assessment", "STRONG")>> \in Seq(ConfigItem)
      BY <3>1, <3>2, ConfigPiece, Zenon
    <3>4. <<Item("llm_config_assessment", "WEAK")>> \in Seq(ConfigItem)
      BY <3>1, <3>2, ConfigPiece, Zenon
    <3>5. <<>> \in Seq(ConfigItem)
      OBVIOUS
    <3> QED BY <3>3, <3>4, <3>5
  <2> QED BY <2>1, <2>2, Zenon
<1>3. /\ pc = "assess" /\ pc' = pc /\ UNCHANGED <<inc, code, changes>>
      /\ cursor < ToAssess
  BY DEF AssessConfigChange
<1>4. changes \in Seq({"flag", "config"}) /\ cursor \in Nat
  BY DEF IInv, TypeOK
<1>5. changes # <<>> /\ Len(changes) \in Nat
  BY <1>3, <1>4 DEF ToAssess, MAX_CONFIG_CALLS
<1>6. config' = config \o a
  BY <1>1
<1> HIDE DEF a
<1>7. Backing(a) \in Nat
  BY <1>2, CountType DEF Backing
<1>8. ~(pc' = "arbitrate" \/ Diagnosed')
  BY <1>3 DEF Diagnosed
<1> QED BY <1>2, <1>3, <1>5, <1>6, <1>7, <1>8, ConfigGrows DEF BeforeConfig

LEMMA DomainEndConfig ==
  ASSUME IInv, DomainInv, EndConfig
  PROVE  DomainInv'
<1>1. /\ pc = "assess" /\ pc' = "arbitrate" /\ UNCHANGED <<inc, code, changes>>
      /\ config' = config \o LateEvidence
  BY DEF EndConfig
<1>2. config \in Seq(ConfigItem)
  BY DEF DomainInv
<1>3. CASE changes = <<>>
  <2>1. LateEvidence = <<>> \o <<>>
    BY <1>3 DEF LateEvidence
  <2>2. LateEvidence = <<>>
    BY <2>1
  <2>3. config' = config
    BY <1>1, <1>2, <2>2
  <2> QED BY <1>1, <1>3, <2>3, DomainQuiet DEF BeforeConfig
<1>4. CASE changes # <<>>
  <2> DEFINE e == IF ErrorSpans # {} THEN <<Item("post_change_errors", "MODERATE")>> ELSE <<>>
             s == IF deploy_found THEN <<Item("simultaneous_change", "MODERATE")>> ELSE <<>>
  <2>1. /\ e \in Seq(ConfigItem) /\ Backing(e) = If(ErrorSpans # {})
    <3>1. /\ <<Item("post_change_errors", "MODERATE")>> \in Seq(ConfigItem)
          /\ Backing(<<Item("post_change_errors", "MODERATE")>>) = 1
      BY ConfigPiece DEF Strengths, If
    <3>2. Backing(<<>>) = 0 /\ <<>> \in Seq(ConfigItem)
      BY CountEmpty DEF Backing
    <3> QED BY <3>1, <3>2 DEF If
  <2>2. /\ s \in Seq(ConfigItem) /\ Backing(s) = If(deploy_found)
    <3>1. /\ <<Item("simultaneous_change", "MODERATE")>> \in Seq(ConfigItem)
          /\ Backing(<<Item("simultaneous_change", "MODERATE")>>) = 1
      BY ConfigPiece DEF Strengths, If
    <3>2. Backing(<<>>) = 0 /\ <<>> \in Seq(ConfigItem)
      BY CountEmpty DEF Backing
    <3> QED BY <3>1, <3>2 DEF If
  <2>3. LateEvidence = e \o s
    BY <1>4 DEF LateEvidence
  <2> HIDE DEF e, s
  <2>4. e \o s \in Seq(ConfigItem) /\ Backing(e \o s) = If(ErrorSpans # {}) + If(deploy_found)
    BY <2>1, <2>2, CountConcat, ConcatProperties DEF Backing
  <2>5. Len(changes) \in Nat
    BY LenProperties DEF IInv, TypeOK
  <2>6. If(ErrorSpans # {}) \in Nat /\ If(deploy_found) \in Nat
    BY DEF If
  <2> DEFINE a == e \o s
  <2>7. /\ a \in Seq(ConfigItem) /\ config' = config \o a /\ changes' = changes
        /\ Len(changes) <= Len(changes) + Backing(a)
        /\ Len(changes) + If(ErrorSpans # {}) + If(deploy_found) <= Len(changes) + Backing(a)
    BY <1>1, <2>3, <2>4, <2>5, <2>6
  <2> HIDE DEF a
  <2>8. /\ pc \notin {"deploy", "exception"} \cup BeforeConfig
        /\ pc' \notin {"deploy", "exception"} \cup BeforeConfig
    BY <1>1 DEF BeforeConfig
  <2> QED BY <1>1, <1>4, <2>5, <2>7, <2>8, ConfigGrows
<1> QED BY <1>3, <1>4

LEMMA DomainStep ==
  ASSUME IInv, DomainInv, [Next]_vars
  PROVE  DomainInv'
<1>1. CASE Raise
  <2>1. result'.failure_type = "unknown" /\ pc' = "done"
    BY <1>1 DEF Raise, FailedOutcome, Outcome
  <2>2. ~Diagnosed'
    BY <2>1 DEF Diagnosed
  <2> QED BY <1>1, <2>2, DomainQuiet DEF Raise, BeforeConfig
<1>2. CASE MatchSpan
  BY <1>2, DomainQuiet DEF MatchSpan, Searching, BeforeConfig, Diagnosed
<1>3. CASE EndDetect
  BY <1>3, DomainQuiet DEF EndDetect, BeforeConfig, Diagnosed
<1>4. CASE Arbitrate
  BY <1>4, DomainQuiet DEF Arbitrate, BeforeConfig
<1>5. CASE UNCHANGED vars
  <2>1. /\ UNCHANGED <<inc, code, config, changes, pc, result>>
    BY <1>5 DEF vars
  <2>2. Diagnosed' = Diagnosed
    BY <2>1 DEF Diagnosed
  <2>3. CASE pc \notin {"deploy", "exception"}
    BY <2>1, <2>2, <2>3, DomainQuiet
  <2>4. CASE pc \in {"deploy", "exception"}
    <3>1. /\ Middling(code)' = Middling(code)
          /\ If(deploy_found)' = If(deploy_found)
          /\ CodeItem' = CodeItem /\ ConfigItem' = ConfigItem
          /\ Backing(config)' = Backing(config)
      BY <2>1, SameFindings DEF Middling, Backing, CountIn, OfStrength, If,
         ConfigItem, ChangeSignals
    <3>2. ~(pc' = "arbitrate" \/ Diagnosed') /\ pc \in BeforeConfig
      BY <2>1, <2>4 DEF Diagnosed, BeforeConfig
    <3> QED BY <2>1, <2>4, <3>1, <3>2 DEF DomainInv
  <2> QED BY <2>3, <2>4
<1>6. CASE CodeEngine
  BY <1>1, <1>2, <1>6, DomainFinds, DomainCode DEF CodeEngine, ExtractionFails, MatchFails
<1>7. CASE ConfigEngine
  BY <1>1, <1>3, <1>7, DomainDetect, DomainAssess, DomainEndConfig DEF ConfigEngine, PatternFails
<1> QED BY <1>4, <1>5, <1>6, <1>7 DEF Next, Returned

(* What a diagnosis lists is what one of the engines has found. *)
LEMMA MergedMembers ==
  ASSUME TypeOK, Merged, Diagnosed, NEW S
  PROVE  (\E i \in DOMAIN result.evidence : result.evidence[i] \in S)
           <=> \/ \E i \in DOMAIN code : code[i] \in S
               \/ \E i \in DOMAIN config : config[i] \in S
<1> DEFINE E == result.evidence
<1>1. E \in Seq(EvidenceItem) /\ code \in Seq(EvidenceItem) /\ config \in Seq(EvidenceItem)
  BY DEF TypeOK, Outcomes
<1>2. CountIn(E, S) = CountIn(code, S) + CountIn(config, S)
  BY MergedCount
<1> HIDE DEF E
<1>3. /\ CountIn(E, S) \in Nat /\ CountIn(code, S) \in Nat /\ CountIn(config, S) \in Nat
      /\ CountIn(E, S) = 0 <=> \A i \in DOMAIN E : E[i] \notin S
      /\ CountIn(code, S) = 0 <=> \A i \in DOMAIN code : code[i] \notin S
      /\ CountIn(config, S) = 0 <=> \A i \in DOMAIN config : config[i] \notin S
  BY <1>1, CountType
<1>4. CountIn(E, S) = 0 <=> CountIn(code, S) = 0 /\ CountIn(config, S) = 0
  BY <1>2, <1>3
<1> QED BY <1>3, <1>4 DEF E

LEMMA ModerateIs ==
  ASSUME NEW s \in Seq(EvidenceItem)
  PROVE  /\ Moderate(s) = Middling(s) /\ Middling(s) \in Nat
         /\ Strong(s) = 0 => Backing(s) = Middling(s)
<1>1. \A i \in DOMAIN s : s[i] \in EvidenceItem
  BY ElementOfSeq, LenProperties
<1>2. {i \in DOMAIN s : s[i].strength = "MODERATE"}
        = {i \in DOMAIN s : s[i] \in OfStrength({"MODERATE"})}
  BY <1>1 DEF OfStrength
<1>3. ASSUME Strong(s) = 0 PROVE Backing(s) = Middling(s)
  <2>1. ~HasStrong(s)
    BY <1>3, StrongCount
  <2>2. {i \in DOMAIN s : s[i] \in OfStrength({"STRONG", "MODERATE"})}
          = {i \in DOMAIN s : s[i] \in OfStrength({"MODERATE"})}
    BY <2>1 DEF HasStrong, OfStrength
  <2> QED BY <2>2 DEF Backing, Middling, CountIn
<1>4. Middling(s) \in Nat
  BY CountType DEF Middling
<1> QED BY <1>2, <1>3, <1>4 DEF Moderate, CountOf, Middling, CountIn

(* The facts about the evidence that the property speaks of, as the arbitration sees
   them. *)
LEMMA ListedFacts ==
  ASSUME TypeOK, DomainInv, Merged, Diagnosed
  PROVE  /\ (\E i \in Items(CodeSignals) : result.evidence[i].strength = "STRONG")
              <=> HasStrong(code)
         /\ Items({"stacktrace_match"}) # {} <=> Traces(code) > 0
         /\ Items(ChangeSignals) # {} <=> changes # <<>>
         /\ Items({"deploy_in_window"}) # {} => deploy_found
<1> DEFINE E == result.evidence
           SC == {x \in EvidenceItem : x.signal \in CodeSignals /\ x.strength = "STRONG"}
<1>1. /\ \A i \in DOMAIN E : E[i] \in EvidenceItem
      /\ \A i \in DOMAIN code : code[i] \in CodeItem
      /\ \A i \in DOMAIN config : config[i] \in ConfigItem
  <2>1. E \in Seq(EvidenceItem)
    BY DEF TypeOK, Outcomes
  <2>2. code \in Seq(CodeItem) /\ config \in Seq(ConfigItem)
    BY DEF DomainInv
  <2> HIDE DEF E
  <2> QED BY <2>1, <2>2, ElementOfSeq, LenProperties
<1>2. \A S : (\E i \in DOMAIN E : E[i] \in S)
               <=> \/ \E i \in DOMAIN code : code[i] \in S
                   \/ \E i \in DOMAIN config : config[i] \in S
  BY MergedMembers
<1>3. \A signals : Items(signals) # {} <=> \E i \in DOMAIN E : E[i] \in OfSignal(signals)
  BY <1>1 DEF Items, OfSignal
<1>4. (\E i \in Items(CodeSignals) : E[i].strength = "STRONG")
        <=> \E i \in DOMAIN E : E[i] \in SC
  BY <1>1 DEF Items
<1> HIDE DEF E
<1>5. (\E i \in DOMAIN E : E[i] \in SC) <=> HasStrong(code)
  <2>1. \A x \in ConfigItem : x \notin SC
    BY DEF ConfigItem, CodeSignals, ChangeSignals
  <2>2. \A x \in CodeItem : x \in SC <=> x.strength = "STRONG"
    BY DEF CodeItem
  <2>3. \A i \in DOMAIN config : config[i] \notin SC
    BY <1>1, <2>1
  <2>4. (\E i \in DOMAIN code : code[i] \in SC)
          <=> \E i \in DOMAIN code : code[i].strength = "STRONG"
    BY <1>1, <2>2
  <2> HIDE DEF SC
  <2> QED BY <1>2, <2>3, <2>4 DEF HasStrong
<1>6. Items({"stacktrace_match"}) # {} <=> Traces(code) > 0
  <2>1. \A i \in DOMAIN config : config[i] \notin OfSignal({"stacktrace_match"})
    BY <1>1 DEF ConfigItem, OfSignal, ChangeSignals
  <2>2. Traces(code) \in Nat
        /\ (Traces(code) = 0 <=> \A i \in DOMAIN code : code[i] \notin OfSignal({"stacktrace_match"}))
    BY CountType DEF TypeOK, Traces
  <2> QED BY <1>2, <1>3, <2>1, <2>2
<1>7. Items(ChangeSignals) # {} <=> changes # <<>>
  <2>1. \A i \in DOMAIN code : code[i] \notin OfSignal(ChangeSignals)
    BY <1>1 DEF CodeItem, CodeSignals, OfSignal, ChangeSignals
  <2>2. CountIn(config, OfSignal(ChangeSignals)) \in Nat
        /\ (CountIn(config, OfSignal(ChangeSignals)) = 0
              <=> \A i \in DOMAIN config : config[i] \notin OfSignal(ChangeSignals))
    BY CountType DEF TypeOK
  <2>3. CountIn(config, OfSignal(ChangeSignals)) > 0 <=> changes # <<>>
    BY CountEmpty DEF DomainInv
  <2> QED BY <1>2, <1>3, <2>1, <2>2, <2>3
<1>8. Items({"deploy_in_window"}) # {} => deploy_found
  <2>1. \A i \in DOMAIN config : config[i] \notin OfSignal({"deploy_in_window"})
    BY <1>1 DEF ConfigItem, OfSignal, ChangeSignals
  <2>2. \A i \in DOMAIN code : code[i] \in OfSignal({"deploy_in_window"}) => deploy_found
    BY <1>1 DEF CodeItem, OfSignal
  <2> QED BY <1>2, <1>3, <2>1, <2>2
<1> QED BY <1>4, <1>5, <1>6, <1>7, <1>8 DEF E

LEMMA DomainIsIt ==
  ASSUME TypeOK, DomainInv, Merged, Named
  PROVE  DomainMatchesEvidence
<1> SUFFICES ASSUME Diagnosed PROVE DomainMatchesEvidence
  BY DEF DomainMatchesEvidence
<1> DEFINE strongCode == \E i \in Items(CodeSignals) : result.evidence[i].strength = "STRONG"
           traced == Items({"stacktrace_match"}) # {}
           changed == Items({"feature_flag_change", "config_change"}) # {}
           deployed == Items({"deploy_in_window"}) # {}
<1>1. DomainMatchesEvidence <=>
        /\ strongCode /\ deployed /\ ~changed => result.failure_type = "code_regression"
        /\ result.domain = "configuration" => changed /\ ~strongCode
        /\ changed /\ ~strongCode /\ ~traced => result.domain = "configuration"
  BY DEF DomainMatchesEvidence
<1>2. /\ strongCode <=> HasStrong(code)
      /\ traced <=> Traces(code) > 0
      /\ changed <=> changes # <<>>
      /\ deployed => deploy_found
  BY ListedFacts DEF ChangeSignals
<1> HIDE DEF strongCode, traced, changed, deployed
<1>3. /\ Strong(code) \in Nat /\ Strong(config) \in Nat
      /\ HasStrong(code) <=> Strong(code) >= 1
  BY StrongCount DEF TypeOK
<1>4. /\ Moderate(code) = Middling(code) /\ Middling(code) \in Nat
      /\ Moderate(config) = Middling(config) /\ Middling(config) \in Nat
      /\ Strong(config) = 0 => Backing(config) = Middling(config)
  BY ModerateIs DEF TypeOK
<1>5. Traces(code) \in Nat
  BY CountType DEF TypeOK, Traces
<1>6. /\ result.domain = (IF CodeNamesCause THEN "application_code" ELSE ConfigDomain)
      /\ result.failure_type = (IF CodeNamesCause THEN CodeFailure ELSE ConfigFailure)
  BY DEF Named
<1>7. changes \in Seq({"flag", "config"}) /\ Len(changes) \in Nat
      /\ (changes # <<>> => Len(changes) >= 1)
  <2>1. changes \in Seq({"flag", "config"})
    BY DEF TypeOK
  <2> QED BY <2>1
<1>8. Kinds # {} <=> changes # <<>>
  <2>1. DOMAIN changes = {} <=> changes = <<>>
    BY <1>7, EmptySeq, LenProperties
  <2> QED BY <2>1 DEF Kinds
<1>9. ASSUME strongCode, deployed, ~changed PROVE result.failure_type = "code_regression"
  <2>1. config = <<>> /\ deploy_found
    BY <1>2, <1>9 DEF DomainInv
  <2>2. Strong(config) = 0
    <3>1. ~HasStrong(config)
      BY <2>1 DEF HasStrong
    <3>2. HasStrong(config) <=> Strong(config) >= 1
      BY StrongCount DEF TypeOK
    <3> QED BY <1>3, <3>1, <3>2
  <2>3. CodeNamesCause
    BY <1>2, <1>3, <1>9, <2>2 DEF CodeNamesCause, CodeWins
  <2> QED BY <1>6, <2>1, <2>3 DEF CodeFailure
<1>10. ASSUME result.domain = "configuration" PROVE changed /\ ~strongCode
  <2>1. ~CodeNamesCause /\ ConfigDomain = "configuration"
    BY <1>6, <1>10
  <2>2. changed
    BY <1>2, <1>8, <2>1 DEF ConfigDomain
  <2>3. ~strongCode
    BY <1>2, <1>3, <2>1 DEF CodeNamesCause, BothStrong, CodeWins
  <2> QED BY <2>2, <2>3
<1>11. ASSUME changed, ~strongCode, ~traced PROVE result.domain = "configuration"
  <2>1. Strong(code) = 0 /\ Traces(code) = 0 /\ changes # <<>>
    BY <1>2, <1>3, <1>5, <1>11
  <2>2. Middling(code) <= If(deploy_found) + If(exception_found)
    <3>1. If(deploy_found) \in Nat /\ If(exception_found) \in Nat
      BY DEF If
    <3>2. pc \notin {"deploy", "exception"}
      BY DEF Diagnosed
    <3>3. Middling(code) <= If(deploy_found) + If(exception_found) + Traces(code)
      BY <3>2 DEF DomainInv
    <3> QED BY <1>4, <2>1, <3>1, <3>3
  <2>3. Backing(config) >= Len(changes) + If(ErrorSpans # {}) + If(deploy_found)
    BY <2>1 DEF DomainInv, If
  <2>4. exception_found => ErrorSpans # {}
    BY DEF exception_found, ErrorEvents
  <2>5. If(exception_found) <= If(ErrorSpans # {}) /\ If(exception_found) \in Nat
        /\ If(deploy_found) \in Nat /\ If(ErrorSpans # {}) \in Nat
    BY <2>4 DEF If
  <2>6. Strong(config) = 0 => Moderate(config) > Moderate(code)
    BY <1>4, <1>7, <2>1, <2>2, <2>3, <2>5
  <2>7. ~CodeNamesCause
    BY <1>3, <1>4, <2>1, <2>6 DEF CodeNamesCause, BothStrong, CodeWins
  <2>8. ConfigDomain = "configuration"
    BY <1>8, <2>1 DEF ConfigDomain
  <2> QED BY <1>6, <2>7, <2>8
<1> QED BY <1>1, <1>9, <1>10, <1>11

(* The cause that is named follows from the evidence that is listed: the deploy for
   strong evidence about the code when no setting has changed, a setting only
   when nothing strong speaks of the code, and always then when no stack trace
   does. *)
THEOREM CauseFollowsEvidence == Spec => []DomainMatchesEvidence
<1>1. Init => DomainInv /\ Named /\ Merged
  BY DomainInit DEF Init, Merged, Diagnosed
<1>2. IInv /\ DomainInv /\ Named /\ Merged /\ [Next]_vars => DomainInv' /\ Named' /\ Merged'
  BY DomainStep, NamedStep, MergedStep
<1>3. IInv /\ DomainInv /\ Named /\ Merged => DomainMatchesEvidence
  BY DomainIsIt DEF IInv
<1> QED BY <1>1, <1>2, <1>3, Invariance, PTL DEF Spec

----------------------------------------------------------------------------
(* What the telemetry says *)

(* The evidence that is not the model's, in no order. *)
Plain(s) ==
  {x \in EvidenceItem : x.signal \notin ModelSignals /\ \E i \in DOMAIN s : s[i] = x}

LEMMA PlainConcat ==
  ASSUME NEW s \in Seq(EvidenceItem), NEW t \in Seq(EvidenceItem)
  PROVE  Plain(s \o t) = Plain(s) \cup Plain(t)
<1>1. ASSUME NEW x
      PROVE  (\E i \in DOMAIN (s \o t) : (s \o t)[i] = x)
               <=> (\E i \in DOMAIN s : s[i] = x) \/ (\E i \in DOMAIN t : t[i] = x)
  <2>1. /\ Len(s) \in Nat /\ Len(t) \in Nat
        /\ DOMAIN s = 1..Len(s) /\ DOMAIN t = 1..Len(t)
        /\ DOMAIN (s \o t) = 1..(Len(s) + Len(t))
        /\ \A i \in 1..Len(s) : (s \o t)[i] = s[i]
        /\ \A i \in 1..Len(t) : (s \o t)[Len(s) + i] = t[i]
    BY ConcatProperties, LenProperties
  <2>2. ASSUME NEW i \in DOMAIN (s \o t), (s \o t)[i] = x
        PROVE  (\E j \in DOMAIN s : s[j] = x) \/ (\E j \in DOMAIN t : t[j] = x)
    <3>1. CASE i <= Len(s)
      <4>1. i \in 1..Len(s)
        BY <2>1, <3>1
      <4> QED BY <2>1, <2>2, <4>1
    <3>2. CASE ~(i <= Len(s))
      <4>1. i - Len(s) \in 1..Len(t) /\ Len(s) + (i - Len(s)) = i
        BY <2>1, <3>2
      <4>2. t[i - Len(s)] = x
        BY <2>1, <2>2, <4>1
      <4> QED BY <2>1, <4>1, <4>2
    <3> QED BY <3>1, <3>2
  <2>3. ASSUME NEW i \in DOMAIN s, s[i] = x PROVE \E j \in DOMAIN (s \o t) : (s \o t)[j] = x
    <3>1. i \in 1..Len(s) /\ i \in 1..(Len(s) + Len(t))
      BY <2>1
    <3> QED BY <2>1, <2>3, <3>1
  <2>4. ASSUME NEW i \in DOMAIN t, t[i] = x PROVE \E j \in DOMAIN (s \o t) : (s \o t)[j] = x
    <3>1. i \in 1..Len(t) /\ Len(s) + i \in 1..(Len(s) + Len(t))
      BY <2>1
    <3> QED BY <2>1, <2>4, <3>1
  <2> QED BY <2>2, <2>3, <2>4
<1> QED BY <1>1 DEF Plain

LEMMA PlainEmpty == Plain(<<>>) = {}
<1>1. DOMAIN <<>> = {}
  OBVIOUS
<1> QED BY <1>1 DEF Plain

LEMMA PlainOne ==
  ASSUME NEW signal \in Signals, NEW strength \in Strengths
  PROVE  /\ <<Item(signal, strength)>> \in Seq(EvidenceItem)
         /\ signal \notin ModelSignals =>
              Plain(<<Item(signal, strength)>>) = {Item(signal, strength)}
         /\ signal \in ModelSignals => Plain(<<Item(signal, strength)>>) = {}
<1> DEFINE x == Item(signal, strength)
<1>1. x \in EvidenceItem /\ x.signal = signal
  BY ItemType DEF Item
<1> HIDE DEF x
<1>2. DOMAIN <<x>> = {1} /\ <<x>>[1] = x
  OBVIOUS
<1>3. /\ signal \notin ModelSignals => Plain(<<x>>) = {x}
      /\ signal \in ModelSignals => Plain(<<x>>) = {}
  BY <1>1, <1>2 DEF Plain
<1>4. <<x>> \in Seq(EvidenceItem)
  BY <1>1
<1> QED BY <1>3, <1>4 DEF x

(* What the model says is not plain. *)
LEMMA PlainAssessment ==
  ASSUME NEW signal \in ModelSignals, NEW reply, NEW likely
  PROVE  /\ Assessment(signal, reply, likely) \in Seq(EvidenceItem)
         /\ Plain(Assessment(signal, reply, likely)) = {}
<1>1. Assessment(signal, reply, likely)
        \in {<<>>, <<Item(signal, "STRONG")>>, <<Item(signal, "WEAK")>>}
  BY AssessmentShape
<1>2. signal \in Signals /\ "STRONG" \in Strengths /\ "WEAK" \in Strengths
  BY DEF ModelSignals, Signals, Strengths
<1>3. \A st \in {"STRONG", "WEAK"} :
        <<Item(signal, st)>> \in Seq(EvidenceItem) /\ Plain(<<Item(signal, st)>>) = {}
  BY <1>2, PlainOne
<1>4. <<>> \in Seq(EvidenceItem)
  OBVIOUS
<1>5. CASE Assessment(signal, reply, likely) = <<>>
  BY <1>4, <1>5, PlainEmpty, Zenon
<1>6. CASE Assessment(signal, reply, likely) = <<Item(signal, "STRONG")>>
  BY <1>3, <1>6, Zenon
<1>7. CASE Assessment(signal, reply, likely) = <<Item(signal, "WEAK")>>
  BY <1>3, <1>7, Zenon
<1> QED BY <1>1, <1>5, <1>6, <1>7

(* A piece that is found or not. *)
LEMMA PlainIf ==
  ASSUME NEW signal \in Signals \ ModelSignals, NEW strength \in Strengths, NEW p \in BOOLEAN
  PROVE  LET s == IF p THEN <<Item(signal, strength)>> ELSE <<>>
         IN  /\ s \in Seq(EvidenceItem)
             /\ Plain(s) = IF p THEN {Item(signal, strength)} ELSE {}
<1> DEFINE x == Item(signal, strength)
<1>1. <<x>> \in Seq(EvidenceItem) /\ Plain(<<x>>) = {x}
  BY PlainOne
<1>2. <<>> \in Seq(EvidenceItem) /\ Plain(<<>>) = {}
  BY PlainEmpty
<1> HIDE DEF x
<1> QED BY <1>1, <1>2 DEF x

(* The deploy that is taken is the youngest of those in the window. *)
LEMMA RecentIsYoungest ==
  ASSUME inc \in Incident, deploy_found
  PROVE  \E i \in DeploysInWindow :
           /\ RecentDeploy = inc.deploys[i]
           /\ inc.deploys[i].age \in 0..30
           /\ \A j \in DeploysInWindow : inc.deploys[i].age <= inc.deploys[j].age
<1> DEFINE W == DeploysInWindow
           age(i) == inc.deploys[i].age
           best(i) == \A j \in W : age(i) < age(j) \/ (age(i) = age(j) /\ i <= j)
           T == {<<age(i), i>> : i \in W}
<1>1. \A i \in W : i \in Nat /\ age(i) \in 0..30
  <2> TAKE i \in W
  <2>1. inc.deploys \in Seq(Deploy)
    BY DEF Incident
  <2>2. i \in DOMAIN inc.deploys /\ InLookback(inc.deploys[i].age, 30)
    BY DEF DeploysInWindow, DEPLOY_LOOKBACK_MINUTES
  <2>3. i \in Nat /\ inc.deploys[i] \in Deploy
    <3> DEFINE d == inc.deploys
    <3>1. d \in Seq(Deploy) /\ i \in DOMAIN d
      BY <2>1, <2>2
    <3> HIDE DEF d
    <3>2. i \in Nat /\ d[i] \in Deploy
      BY <3>1, ElementOfSeq, LenProperties
    <3> QED BY <3>2 DEF d
  <2>4. inc.deploys[i].age \in Int
    BY <2>3 DEF Deploy
  <2> QED BY <2>2, <2>3, <2>4 DEF InLookback
<1>2. W # {}
  BY DEF deploy_found
<1>3. RecentDeploy = inc.deploys[CHOOSE i \in W : best(i)]
  BY DEF RecentDeploy
<1> HIDE DEF W, age
<1>4. T \in SUBSET (Nat \X Nat) /\ T # {}
  <2>1. \A i \in W : i \in Nat /\ age(i) \in Nat
    BY <1>1
  <2>2. \A i \in W : <<age(i), i>> \in Nat \X Nat
    BY <2>1
  <2> QED BY <1>2, <2>2
<1>5. PICK p \in T : \A q \in T : p = q \/ Before(p, q)
  <2> HIDE DEF T
  <2> QED BY <1>4, FirstPosition
<1>6. PICK i \in W : p = <<age(i), i>>
  BY <1>5
<1>7. best(i)
  <2>1. ASSUME NEW j \in W PROVE age(i) < age(j) \/ (age(i) = age(j) /\ i <= j)
    <3>1. <<age(j), j>> \in T
      OBVIOUS
    <3>2. p = <<age(j), j>> \/ Before(p, <<age(j), j>>)
      BY <1>5, <3>1
    <3>3. CASE p = <<age(j), j>>
      BY <1>1, <1>6, <3>3
    <3>4. CASE Before(p, <<age(j), j>>)
      BY <1>1, <1>6, <3>4 DEF Before
    <3> QED BY <3>2, <3>3, <3>4
  <2> QED BY <2>1
<1> DEFINE r == CHOOSE k \in W : best(k)
<1>8. r \in W /\ best(r)
  BY <1>7
<1>9. RecentDeploy = inc.deploys[r]
  BY <1>3
<1> HIDE DEF r
<1>10. age(r) \in 0..30 /\ \A j \in W : age(r) <= age(j)
  BY <1>1, <1>8
<1> QED BY <1>8, <1>9, <1>10 DEF W, age

(* What the code engine says of the deploys is what the deploys say. *)
LEMMA DeployDetected ==
  ASSUME inc \in Incident
  PROVE  /\ deploy_found => DeploySays = {DeployEvidence(RecentDeploy.age)}
         /\ ~deploy_found => DeploySays = {Item("no_deploy_in_window", "WEAK")}
<1> DEFINE ages == {inc.deploys[i].age : i \in DOMAIN inc.deploys}
           strong == \E a \in ages : a \in 0..15
           moderate == \E a \in ages : a \in 16..30
<1>1. DeploySays = CASE strong -> {Item("deploy_in_window", "STRONG")}
                     [] (\A a \in ages : a \notin 0..15) /\ moderate
                          -> {Item("deploy_in_window", "MODERATE")}
                     [] OTHER -> {Item("no_deploy_in_window", "WEAK")}
  BY DEF DeploySays
<1>2. \A i \in DOMAIN inc.deploys : inc.deploys[i].age \in Int
  <2> DEFINE d == inc.deploys
  <2>1. d \in Seq(Deploy)
    BY DEF Incident
  <2> HIDE DEF d
  <2>2. \A i \in DOMAIN d : d[i] \in Deploy
    BY <2>1, ElementOfSeq, LenProperties
  <2>3. \A i \in DOMAIN d : d[i].age \in Int
    BY <2>2 DEF Deploy
  <2> QED BY <2>3 DEF d
<1>3. (\A a \in ages : a \notin 0..15) <=> ~strong
  OBVIOUS
<1>4. \A i \in DOMAIN inc.deploys : i \in DeploysInWindow <=> inc.deploys[i].age \in 0..30
  BY <1>2 DEF DeploysInWindow, InLookback, DEPLOY_LOOKBACK_MINUTES
<1>5. ASSUME deploy_found PROVE DeploySays = {DeployEvidence(RecentDeploy.age)}
  <2>1. PICK r \in DeploysInWindow :
          /\ RecentDeploy = inc.deploys[r]
          /\ inc.deploys[r].age \in 0..30
          /\ \A j \in DeploysInWindow : inc.deploys[r].age <= inc.deploys[j].age
    BY <1>5, RecentIsYoungest
  <2>2. r \in DOMAIN inc.deploys
    BY <2>1 DEF DeploysInWindow
  <2> DEFINE a == inc.deploys[r].age
  <2>3. a \in ages /\ RecentDeploy.age = a /\ a \in 0..30
    BY <2>1, <2>2
  <2>4. strong <=> a <= 15
    <3>1. ASSUME NEW i \in DOMAIN inc.deploys, inc.deploys[i].age \in 0..15 PROVE a <= 15
      <4>1. inc.deploys[i].age \in 0..30
        BY <3>1
      <4>2. i \in DeploysInWindow
        BY <1>4, <4>1
      <4>3. a <= inc.deploys[i].age
        BY <2>1, <4>2
      <4> HIDE DEF a
      <4> QED BY <2>3, <3>1, <4>3
    <3>2. strong => a <= 15
      BY <3>1
    <3>3. a <= 15 => a \in 0..15
      <4> HIDE DEF a
      <4> QED BY <2>3
    <3>4. a <= 15 => strong
      BY <2>3, <3>3
    <3> QED BY <3>2, <3>4
  <2>5. ~(a <= 15) => moderate
    <3>1. ~(a <= 15) => a \in 16..30
      <4> HIDE DEF a
      <4> QED BY <2>3
    <3> QED BY <2>3, <3>1
  <2>6. DeployEvidence(a) = Item("deploy_in_window", IF a <= 15 THEN "STRONG" ELSE "MODERATE")
    BY DEF DeployEvidence, DEPLOY_STRONG_MINUTES
  <2> HIDE DEF a, strong, moderate, ages
  <2>7. CASE a <= 15
    BY <1>1, <2>3, <2>4, <2>6, <2>7
  <2>8. CASE ~(a <= 15)
    BY <1>1, <1>3, <2>3, <2>4, <2>5, <2>6, <2>8
  <2> QED BY <2>7, <2>8
<1>6. ASSUME ~deploy_found PROVE DeploySays = {Item("no_deploy_in_window", "WEAK")}
  <2>1. \A i \in DOMAIN inc.deploys : inc.deploys[i].age \notin 0..30
    BY <1>4, <1>6 DEF deploy_found
  <2>2. \A i \in DOMAIN inc.deploys : inc.deploys[i].age \notin 0..15
                                     /\ inc.deploys[i].age \notin 16..30
    BY <1>2, <2>1
  <2>3. ~strong /\ ~moderate
    BY <2>2
  <2> HIDE DEF strong, moderate, ages
  <2> QED BY <1>1, <2>3
<1> QED BY <1>5, <1>6

(* The search has the change it needs exactly when the change is linked. *)
LEMMA LinkedIsAccepted ==
  ASSUME inc \in Incident
  PROVE  LinkedChange <=> ChangeAccepted /\ inc.code_access_enabled
<1>1. inc.change.age \in Int
  BY DEF Incident, CodeChange
<1>2. inc.change.age \in 0..30 <=> InLookback(inc.change.age, DEPLOY_LOOKBACK_MINUTES)
  BY <1>1 DEF InLookback, DEPLOY_LOOKBACK_MINUTES
<1> QED BY <1>2 DEF ChangeAccepted, LinkedChange

(* No pair of a frame and a function in the spans that were searched meets at a
   higher level than the match. *)
Best(n, level) ==
  \A i \in ErrorSpans : i <= n =>
    \A p \in (DOMAIN inc.spans[i].frames) \X (DOMAIN inc.change.functions) :
      Rank(Level(inc.spans[i].frames[p[1]], inc.change.functions[p[2]])) <= Rank(level)

LEMMA SearchKeepsBest ==
  ASSUME IInv, MatchSpan, Best(cursor, match.level)
  PROVE  Best(cursor', match'.level)
<1> DEFINE i == First(NextErrorSpan)
           found == BestIn(i)
<1>1. inc \in Incident /\ match \in Match /\ cursor \in Nat
  BY DEF IInv, TypeOK
<1>2. NextErrorSpan \in SUBSET ErrorSpans /\ NextErrorSpan # {}
  BY DEF NextErrorSpan, MatchSpan, Searching
<1>3. \A s \in ErrorSpans : s \in Nat
  BY <1>1, SpanType
<1>4. i \in NextErrorSpan /\ \A s \in NextErrorSpan : i <= s
  <2>1. NextErrorSpan \in SUBSET Nat
    BY <1>2, <1>3
  <2>2. \E x \in NextErrorSpan : \A y \in NextErrorSpan : x <= y
    BY <1>2, <2>1, LeastNat
  <2> QED BY <2>2 DEF First
<1>5. i \in ErrorSpans
  BY <1>2, <1>4
<1>6. match' = Better(found) /\ cursor' = i
  BY DEF MatchSpan
<1> HIDE DEF i
<1>7. /\ found \in Match
      /\ \A p \in (DOMAIN inc.spans[i].frames) \X (DOMAIN inc.change.functions) :
           Rank(Level(inc.spans[i].frames[p[1]], inc.change.functions[p[2]]))
             <= Rank(found.level)
  BY <1>1, <1>5, BestInProperties
<1> HIDE DEF found
<1>8. Rank(found.level) \in Int /\ Rank(match.level) \in Int
  <2>1. found.level \in MatchLevel /\ match.level \in MatchLevel
    BY <1>1, <1>7 DEF Match
  <2>2. Rank(found.level) \in {-1, 0, 1, 2} /\ Rank(match.level) \in {-1, 0, 1, 2}
    BY <2>1, RankType
  <2> QED BY <2>2
<1>9. Rank(found.level) <= Rank(match'.level) /\ Rank(match.level) <= Rank(match'.level)
      /\ Rank(match'.level) \in Int
  BY <1>6, <1>8 DEF Better
<1>10. ASSUME NEW s \in ErrorSpans, s <= i,
              NEW p \in (DOMAIN inc.spans[s].frames) \X (DOMAIN inc.change.functions)
       PROVE  Rank(Level(inc.spans[s].frames[p[1]], inc.change.functions[p[2]]))
                <= Rank(match'.level)
  <2> DEFINE r == Rank(Level(inc.spans[s].frames[p[1]], inc.change.functions[p[2]]))
  <2>1. r \in Int
    <3>1. r \in {-1, 0, 1, 2}
      BY LevelType, RankType
    <3> HIDE DEF r
    <3> QED BY <3>1
  <2>2. CASE s <= cursor
    <3>1. r <= Rank(match.level)
      BY <2>2 DEF Best
    <3> HIDE DEF r
    <3>2. r <= Rank(match'.level)
      BY <1>8, <1>9, <2>1, <3>1
    <3> QED BY <3>2 DEF r
  <2>3. CASE ~(s <= cursor)
    <3>1. s \in NextErrorSpan
      BY <1>1, <1>3, <2>3 DEF NextErrorSpan
    <3>2. s = i
      BY <1>3, <1>4, <1>5, <1>10, <3>1
    <3>3. r <= Rank(found.level)
      BY <1>7, <3>2
    <3> HIDE DEF r
    <3>4. r <= Rank(match'.level)
      BY <1>8, <1>9, <2>1, <3>3
    <3> QED BY <3>4 DEF r
  <2> QED BY <2>2, <2>3
<1> QED BY <1>6, <1>10 DEF Best

(* Every level at which a frame meets the change is searched for. *)
LEMMA BestIsHighest ==
  ASSUME inc \in Incident, cursor \in Nat, NextErrorSpan = {}, Best(cursor, match.level)
  PROVE  \A level \in Levels : level \in MatchLevel /\ Rank(level) <= Rank(match.level)
<1> TAKE level \in Levels
<1>1. PICK i \in ErrorSpans :
        \E frame \in {inc.spans[i].frames[k] : k \in DOMAIN inc.spans[i].frames},
           f \in {inc.change.functions[k] : k \in DOMAIN inc.change.functions} :
          level = Level(frame, f)
  BY DEF Levels
<1>2. PICK k \in DOMAIN inc.spans[i].frames, m \in DOMAIN inc.change.functions :
        level = Level(inc.spans[i].frames[k], inc.change.functions[m])
  BY <1>1
<1>3. i <= cursor
  <2>1. i \in Nat
    BY SpanType
  <2> QED BY <2>1 DEF NextErrorSpan
<1> DEFINE p == <<k, m>>
<1>4. p \in (DOMAIN inc.spans[i].frames) \X (DOMAIN inc.change.functions)
      /\ p[1] = k /\ p[2] = m
  OBVIOUS
<1> HIDE DEF p
<1>5. Rank(Level(inc.spans[i].frames[p[1]], inc.change.functions[p[2]])) <= Rank(match.level)
  BY <1>3, <1>4 DEF Best
<1> QED BY <1>2, <1>4, <1>5, LevelType

(* What the search has found is what the change says. *)
LEMMA SearchDetected ==
  ASSUME IInv, pc = "match", ~Searching,
         match.level = "exact_line" \/ Best(cursor, match.level)
  PROVE  ChangeSays = IF match.level = "none" THEN {}
                      ELSE {Item("stacktrace_match", StacktraceStrength(match.level))}
<1> DEFINE x(strength) == Item("stacktrace_match", strength)
           exact == "exact_line" \in Levels
           named == "function_match" \in Levels
           filed == Levels \in {{"file_match"}, {"file_match", "none"}}
<1>1. inc \in Incident /\ cursor \in Nat /\ match.level \in MatchLevel
  BY DEF IInv, TypeOK, Match
<1>2. ChangeSays = IF ~LinkedChange THEN {}
                   ELSE CASE exact -> {x("STRONG")}
                          [] ~exact /\ named -> {x("MODERATE")}
                          [] filed -> {x("WEAK")}
                          [] OTHER -> {}
  BY DEF ChangeSays
<1>3. match.level # "none" => LinkedChange /\ match.level \in Levels
  BY <1>1, LinkedIsAccepted DEF IInv, Matched
<1>4. CASE ~LinkedChange
  BY <1>2, <1>3, <1>4
<1>5. CASE LinkedChange /\ match.level = "exact_line"
  <2>1. exact
    BY <1>3, <1>5
  <2>2. StacktraceStrength(match.level) = "STRONG"
    BY <1>5 DEF StacktraceStrength
  <2>3. filed => ~exact
    OBVIOUS
  <2> HIDE DEF x, exact, named, filed
  <2>4. ChangeSays = {x("STRONG")}
    BY <1>2, <1>5, <2>1, <2>3
  <2> QED BY <1>5, <2>2, <2>4 DEF x
<1>6. CASE LinkedChange /\ match.level # "exact_line"
  <2>1. NextErrorSpan = {}
    BY <1>1, <1>6, LinkedIsAccepted DEF Searching
  <2>2. \A level \in Levels : level \in MatchLevel /\ Rank(level) <= Rank(match.level)
    BY <1>1, <1>6, <2>1, BestIsHighest
  <2>3. match.level \in {"none", "file_match", "function_match"}
    BY <1>1, <1>6 DEF MatchLevel
  <2>4. Rank("none") = -1 /\ Rank("file_match") = 0 /\ Rank("function_match") = 1
        /\ Rank("exact_line") = 2
    BY DEF Rank
  <2>5. ~exact
    BY <2>2, <2>3, <2>4
  <2>6. CASE match.level = "none"
    <3>1. \A level \in Levels : level = "none"
      BY <2>2, <2>4, <2>6 DEF MatchLevel
    <3>2. ~named /\ ~filed
      BY <3>1
    <3> HIDE DEF x, exact, named, filed
    <3> QED BY <1>2, <1>6, <2>5, <2>6, <3>2
  <2>7. CASE match.level = "file_match"
    <3>1. \A level \in Levels : level \in {"file_match", "none"}
      BY <2>2, <2>4, <2>7 DEF MatchLevel
    <3>2. "file_match" \in Levels
      BY <1>3, <2>7
    <3>3. ~named /\ filed
      BY <3>1, <3>2
    <3>4. StacktraceStrength(match.level) = "WEAK"
      BY <2>7 DEF StacktraceStrength
    <3> HIDE DEF x, exact, named, filed
    <3>5. ChangeSays = {x("WEAK")}
      BY <1>2, <1>6, <2>5, <3>3
    <3> QED BY <2>7, <3>4, <3>5 DEF x
  <2>8. CASE match.level = "function_match"
    <3>1. named /\ ~filed
      BY <1>3, <2>8
    <3>2. StacktraceStrength(match.level) = "MODERATE"
      BY <2>8 DEF StacktraceStrength
    <3> HIDE DEF x, exact, named, filed
    <3>3. ChangeSays = {x("MODERATE")}
      BY <1>2, <1>6, <2>5, <3>1
    <3> QED BY <2>8, <3>2, <3>3 DEF x
  <2> QED BY <2>3, <2>6, <2>7, <2>8
<1> QED BY <1>4, <1>5, <1>6

(* What the first n of the attached changes say. *)
ChangeItems(n) == {ChangeEvidence(Kind(i), Attached[i]) : i \in Found(n)}

PostChange == IF ErrorSpans # {} THEN {Item("post_change_errors", "MODERATE")} ELSE {}

Simultaneous == IF deploy_found THEN {Item("simultaneous_change", "MODERATE")} ELSE {}

(* The settings follow the flags. *)
LEMMA AttachedConfigs ==
  ASSUME inc \in Incident
  PROVE  /\ Len(inc.flags) \in Nat /\ Len(inc.configs) \in Nat
         /\ DOMAIN inc.flags = 1..Len(inc.flags)
         /\ DOMAIN inc.configs = 1..Len(inc.configs)
         /\ Len(Attached) = Len(inc.flags) + Len(inc.configs)
         /\ \A i \in 1..Len(inc.flags) : Attached[i] = inc.flags[i] /\ inc.flags[i] \in Int
         /\ \A i \in 1..Len(inc.configs) :
              Attached[Len(inc.flags) + i] = inc.configs[i] /\ inc.configs[i] \in Int
<1>1. inc.flags \in Seq(Int) /\ inc.configs \in Seq(Int)
  BY DEF Incident
<1>2. ASSUME NEW f \in Seq(Int), NEW c \in Seq(Int)
      PROVE  /\ Len(f) \in Nat /\ Len(c) \in Nat
             /\ DOMAIN f = 1..Len(f) /\ DOMAIN c = 1..Len(c)
             /\ Len(f \o c) = Len(f) + Len(c)
             /\ \A i \in 1..Len(f) : (f \o c)[i] = f[i] /\ f[i] \in Int
             /\ \A i \in 1..Len(c) : (f \o c)[Len(f) + i] = c[i] /\ c[i] \in Int
  BY ConcatProperties, LenProperties, ElementOfSeq
<1> QED BY <1>1, <1>2, Zenon DEF Attached

(* What the configuration engine finds is what the changes say. *)
LEMMA ChangesDetected ==
  ASSUME inc \in Incident
  PROVE  ConfigSays = IF Found(Len(Attached)) = {} THEN {}
                      ELSE ChangeItems(Len(Attached)) \cup PostChange \cup Simultaneous
<1> DEFINE F == Len(inc.flags)
           C == Len(inc.configs)
           grade(age) == IF age <= 5 THEN "STRONG" ELSE "MODERATE"
           window(ages) == {ages[i] : i \in DOMAIN ages} \cap 0..15
           said(signal, ages) == {Item(signal, grade(age)) : age \in window(ages)}
           flags == said("feature_flag_change", inc.flags)
           configs == said("config_change", inc.configs)
           all == flags \cup configs
           A == Len(Attached)
<1>1. /\ F \in Nat /\ C \in Nat /\ A = F + C
      /\ DOMAIN inc.flags = 1..F /\ DOMAIN inc.configs = 1..C
      /\ \A i \in 1..F : Attached[i] = inc.flags[i] /\ inc.flags[i] \in Int
      /\ \A i \in 1..C : Attached[F + i] = inc.configs[i] /\ inc.configs[i] \in Int
  BY AttachedConfigs
<1>2. ConfigSays = IF all = {} THEN {} ELSE (all \cup PostChange) \cup Simultaneous
  BY DEF ConfigSays, PostChange, Simultaneous
<1>3. \A i : /\ i <= F => ChangeEvidence(Kind(i), Attached[i])
                             = Item("feature_flag_change", grade(Attached[i]))
             /\ ~(i <= F) => ChangeEvidence(Kind(i), Attached[i])
                               = Item("config_change", grade(Attached[i]))
  BY DEF ChangeEvidence, Kind, CONFIG_STRONG_MINUTES
<1>9. \A age \in Int : InLookback(age, 15) <=> age \in 0..15
  BY DEF InLookback
<1> HIDE DEF grade
<1>4. ASSUME NEW i \in Found(A)
      PROVE  ChangeEvidence(Kind(i), Attached[i]) \in all
  <2>1. i \in 1..A /\ InLookback(Attached[i], 15)
    BY DEF Found, CONFIG_LOOKBACK_MINUTES
  <2>2. CASE i <= F
    <3>1. i \in 1..F /\ Attached[i] = inc.flags[i] /\ inc.flags[i] \in Int
      <4> HIDE DEF F, C, A
      <4> QED BY <1>1, <2>1, <2>2
    <3>2. inc.flags[i] \in window(inc.flags)
      <4>1. inc.flags[i] \in 0..15
        <5>1. InLookback(inc.flags[i], 15) /\ inc.flags[i] \in Int
          BY <2>1, <3>1, Zenon
        <5> QED BY <1>9, <5>1, Zenon
      <4>2. i \in DOMAIN inc.flags
        BY <1>1, <3>1, Zenon
      <4> QED BY <4>1, <4>2
    <3>3. ChangeEvidence(Kind(i), Attached[i]) = Item("feature_flag_change", grade(inc.flags[i]))
      BY <1>3, <2>2, <3>1, Zenon
    <3> HIDE DEF window
    <3> QED BY <3>2, <3>3, Zenon
  <2>3. CASE ~(i <= F)
    <3> DEFINE k == i - F
    <3>1. k \in 1..C /\ i = F + k
      <4> HIDE DEF F, C, A
      <4> QED BY <1>1, <2>1, <2>3
    <3> HIDE DEF k
    <3>2. Attached[i] = inc.configs[k] /\ inc.configs[k] \in Int
      BY <1>1, <3>1, Zenon
    <3>3. inc.configs[k] \in window(inc.configs)
      <4>1. inc.configs[k] \in 0..15
        <5>1. InLookback(inc.configs[k], 15) /\ inc.configs[k] \in Int
          BY <2>1, <3>2, Zenon
        <5> QED BY <1>9, <5>1, Zenon
      <4>2. k \in DOMAIN inc.configs
        BY <1>1, <3>1, Zenon
      <4> QED BY <4>1, <4>2
    <3>4. ChangeEvidence(Kind(i), Attached[i]) = Item("config_change", grade(inc.configs[k]))
      BY <1>3, <2>3, <3>2, Zenon
    <3> HIDE DEF window
    <3> QED BY <3>3, <3>4, Zenon
  <2> QED BY <2>2, <2>3
<1>5. ASSUME NEW age \in window(inc.flags)
      PROVE  Item("feature_flag_change", grade(age)) \in ChangeItems(A)
  <2>1. PICK i \in 1..F : age = inc.flags[i]
    BY <1>1
  <2>2. i \in 1..A /\ i <= F /\ Attached[i] = age
    <3> HIDE DEF F, C, A
    <3> QED BY <1>1, <2>1
  <2>3. age \in 0..15
    OBVIOUS
  <2>4. i \in Found(A)
    BY <2>2, <2>3 DEF Found, InLookback, CONFIG_LOOKBACK_MINUTES
  <2>5. ChangeEvidence(Kind(i), Attached[i]) = Item("feature_flag_change", grade(age))
    BY <1>3, <2>2, Zenon
  <2> QED BY <2>4, <2>5, Zenon DEF ChangeItems
<1>6. ASSUME NEW age \in window(inc.configs)
      PROVE  Item("config_change", grade(age)) \in ChangeItems(A)
  <2>1. PICK k \in 1..C : age = inc.configs[k]
    BY <1>1
  <2> DEFINE i == F + k
  <2>2. i \in 1..A /\ ~(i <= F)
    <3> HIDE DEF F, C, A
    <3> QED BY <1>1, <2>1
  <2>3. Attached[i] = age
    BY <1>1, <2>1, Zenon
  <2> HIDE DEF i
  <2>4. age \in 0..15
    OBVIOUS
  <2>5. i \in Found(A)
    BY <2>2, <2>3, <2>4 DEF Found, InLookback, CONFIG_LOOKBACK_MINUTES
  <2>6. ChangeEvidence(Kind(i), Attached[i]) = Item("config_change", grade(age))
    BY <1>3, <2>2, <2>3, Zenon
  <2> QED BY <2>5, <2>6, Zenon DEF ChangeItems
<1> HIDE DEF window, A
<1>7. ChangeItems(A) = all
  <2>1. ChangeItems(A) \subseteq all
    BY <1>4, Zenon DEF ChangeItems
  <2>2. flags \subseteq ChangeItems(A)
    BY <1>5, Zenon
  <2>3. configs \subseteq ChangeItems(A)
    BY <1>6, Zenon
  <2> HIDE DEF flags, configs
  <2> QED BY <2>1, <2>2, <2>3
<1>8. ChangeItems(A) = {} <=> Found(A) = {}
  BY DEF ChangeItems
<1> HIDE DEF all
<1> QED BY <1>2, <1>7, <1>8 DEF A

(* What was said stays so. *)
LEMMA SameSays ==
  ASSUME inc' = inc
  PROVE  /\ DeploySays' = DeploySays /\ SpansSay' = SpansSay
         /\ ChangeSays' = ChangeSays /\ ConfigSays' = ConfigSays
         /\ deploy_found' = deploy_found /\ exception_found' = exception_found
         /\ ErrorSpans' = ErrorSpans
<1>1. /\ deploy_found' = deploy_found /\ exception_found' = exception_found
      /\ ErrorSpans' = ErrorSpans
  BY SameFindings
<1>2. DeploySays' = DeploySays
  BY DEF DeploySays
<1>3. SpansSay' = SpansSay
  BY <1>1 DEF SpansSay
<1>4. ChangeSays' = ChangeSays
  <2>1. Levels' = Levels
    BY <1>1 DEF Levels
  <2>2. LinkedChange' = LinkedChange
    BY <1>1 DEF LinkedChange, RecentDeploy, DeploysInWindow
  <2> QED BY <2>1, <2>2 DEF ChangeSays
<1>5. ConfigSays' = ConfigSays
  BY <1>1 DEF ConfigSays
<1> QED BY <1>1, <1>2, <1>3, <1>4, <1>5

----------------------------------------------------------------------------
(* The evidence says what the telemetry says *)

DeployPart == IF deploy_found THEN DeploySays ELSE {}

ExceptionPart == IF exception_found THEN {Item("exception_in_spans", "MODERATE")} ELSE {}

CodeSays == DeploySays \cup SpansSay \cup ChangeSays

SayInv ==
  /\ pc = "deploy" => code = <<>>
  /\ pc = "exception" => Plain(code) = DeployPart
  /\ pc \in {"case_a", "match"} => Plain(code) = DeployPart \cup ExceptionPart
  /\ pc \in {"case_b", "end_code"} =>
       Plain(code) = DeployPart \cup ExceptionPart \cup ChangeSays /\ cursor = 0
  /\ pc \in {"changes", "assess", "arbitrate"} => Plain(code) = CodeSays
  /\ pc \in {"deploy", "exception", "case_a"} => cursor = 0
  /\ pc \in {"deploy", "exception", "case_a", "match"} =>
       match.level = "exact_line" \/ Best(cursor, match.level)
  /\ pc \in BeforeConfig => config = <<>> /\ changes = <<>>
  /\ pc = "changes" =>
       /\ cursor <= Len(Attached)
       /\ Plain(config) = ChangeItems(cursor)
       /\ changes = <<>> <=> Found(cursor) = {}
  /\ pc = "assess" =>
       /\ Plain(config) = ChangeItems(Len(Attached))
       /\ changes = <<>> <=> Found(Len(Attached)) = {}
  /\ pc = "arbitrate" => Plain(config) = ConfigSays
  /\ Diagnosed => Plain(code) = CodeSays /\ Plain(config) = ConfigSays

LEMMA SayInit ==
  ASSUME Init
  PROVE  SayInv
<1>1. inc \in Incident
  BY ServiceAssumption DEF Init
<1>2. Best(0, "none")
  <2>1. \A i \in ErrorSpans : i \in Nat /\ i # 0
    <3> DEFINE s == inc.spans
    <3>1. s \in Seq(Span)
      BY <1>1 DEF Incident
    <3> HIDE DEF s
    <3>2. \A i \in DOMAIN s : i \in Nat /\ i # 0
      BY <3>1, LenProperties
    <3> QED BY <3>2 DEF ErrorSpans, s
  <2>2. \A i \in ErrorSpans : ~(i <= 0)
    BY <2>1
  <2> QED BY <2>2 DEF Best
<1> QED BY <1>2 DEF Init, SayInv, BeforeConfig, Diagnosed, Unmatched

LEMMA SamePlain ==
  /\ Plain(code)' = Plain(code')
  /\ Plain(config)' = Plain(config')
BY DEF Plain

LEMMA SameParts ==
  ASSUME inc' = inc
  PROVE  /\ DeployPart' = DeployPart /\ ExceptionPart' = ExceptionPart
         /\ CodeSays' = CodeSays /\ ChangeSays' = ChangeSays /\ ConfigSays' = ConfigSays
BY SameSays DEF DeployPart, ExceptionPart, CodeSays

LEMMA SameBest ==
  ASSUME inc' = inc, NEW n, NEW level
  PROVE  Best(n, level)' <=> Best(n, level)
<1>1. ErrorSpans' = ErrorSpans
  BY SameFindings
<1> QED BY <1>1 DEF Best

LEMMA SayDeploy ==
  ASSUME IInv, SayInv, DetectDeploy
  PROVE  SayInv'
<1> DEFINE x == DeployEvidence(RecentDeploy.age)
<1>1. /\ pc = "deploy" /\ pc' = "exception" /\ UNCHANGED <<inc, config, changes, cursor, match>>
      /\ code' = (IF deploy_found THEN <<x>> ELSE <<>>)
  BY DEF DetectDeploy
<1>2. Plain(<<x>>) = {x}
  BY PlainOne DEF DeployEvidence, Signals, ModelSignals, Strengths
<1>3. deploy_found => DeploySays = {x}
  BY DeployDetected DEF IInv, TypeOK
<1> HIDE DEF x
<1>4. Plain(code') = DeployPart
  BY <1>1, <1>2, <1>3, PlainEmpty DEF DeployPart
<1>5. Plain(code)' = DeployPart'
  BY <1>1, <1>4, SamePlain, SameParts
<1>6. match'.level = "exact_line" \/ Best(cursor, match.level)'
  <2>1. Best(cursor, match.level)' <=> Best(cursor, match.level)
    BY <1>1, SameFindings DEF Best
  <2> QED BY <1>1, <2>1 DEF SayInv
<1>7. config' = <<>> /\ changes' = <<>> /\ cursor' = 0
  BY <1>1 DEF SayInv, BeforeConfig
<1> QED BY <1>1, <1>5, <1>6, <1>7 DEF SayInv, Diagnosed, BeforeConfig

LEMMA SayException ==
  ASSUME IInv, SayInv, ExtractException
  PROVE  SayInv'
<1> DEFINE x == Item("exception_in_spans", "MODERATE")
<1>1. /\ pc = "exception" /\ pc' \in {"case_a", "match"}
      /\ UNCHANGED <<inc, config, changes, cursor, match>>
      /\ code' = (IF exception_found THEN Append(code, x) ELSE code)
  BY DEF ExtractException
<1>2. Plain(<<x>>) = {x} /\ x \in EvidenceItem /\ <<x>> \in Seq(EvidenceItem)
  BY PlainOne, ItemType DEF Signals, ModelSignals, Strengths
<1>3. code \in Seq(EvidenceItem)
  BY DEF IInv, TypeOK
<1>4. ExceptionPart = IF exception_found THEN {x} ELSE {}
  BY DEF ExceptionPart
<1> HIDE DEF x
<1>5. Append(code, x) = code \o <<x>>
  BY <1>2, <1>3, AppendIsConcat
<1>6. Plain(Append(code, x)) = Plain(code) \cup {x}
  BY <1>2, <1>3, <1>5, PlainConcat
<1>7. Plain(code') = DeployPart \cup ExceptionPart
  <2>1. Plain(code) = DeployPart
    BY <1>1 DEF SayInv
  <2> QED BY <1>1, <1>4, <1>6, <2>1
<1>8. Plain(code)' = DeployPart' \cup ExceptionPart'
  BY <1>1, <1>7, SamePlain, SameParts
<1>9. match'.level = "exact_line" \/ Best(cursor, match.level)'
  <2>1. Best(cursor, match.level)' <=> Best(cursor, match.level)
    BY <1>1, SameFindings DEF Best
  <2> QED BY <1>1, <2>1 DEF SayInv
<1>10. config' = <<>> /\ changes' = <<>> /\ cursor' = 0
  BY <1>1 DEF SayInv, BeforeConfig
<1> QED BY <1>1, <1>8, <1>9, <1>10 DEF SayInv, Diagnosed, BeforeConfig

LEMMA SayAssessDeploy ==
  ASSUME IInv, SayInv, AssessDeploy
  PROVE  SayInv'
<1>1. PICK reply : code' = code \o Assessment("llm_causal_assessment", reply, TRUE)
  BY DEF AssessDeploy
<1> DEFINE a == Assessment("llm_causal_assessment", reply, TRUE)
<1>2. a \in Seq(EvidenceItem) /\ Plain(a) = {}
  BY PlainAssessment DEF ModelSignals
<1>3. /\ pc = "case_a" /\ pc' = "match" /\ code' = code \o a
      /\ UNCHANGED <<inc, config, changes, cursor, match>>
  BY <1>1 DEF AssessDeploy
<1> HIDE DEF a
<1>4. Plain(code') = Plain(code)
  <2>1. code \in Seq(EvidenceItem)
    BY DEF IInv, TypeOK
  <2>2. Plain(code \o a) = Plain(code) \cup Plain(a)
    BY <1>2, <2>1, PlainConcat
  <2> QED BY <1>2, <1>3, <2>2
<1>5. Plain(code)' = DeployPart' \cup ExceptionPart'
  BY <1>3, <1>4, SamePlain, SameParts DEF SayInv
<1>6. match'.level = "exact_line" \/ Best(cursor, match.level)'
  <2>1. Best(cursor, match.level)' <=> Best(cursor, match.level)
    BY <1>3, SameFindings DEF Best
  <2> QED BY <1>3, <2>1 DEF SayInv
<1>7. config' = <<>> /\ changes' = <<>>
  BY <1>3 DEF SayInv, BeforeConfig
<1> QED BY <1>3, <1>5, <1>6, <1>7 DEF SayInv, Diagnosed, BeforeConfig

LEMMA SayMatchSpan ==
  ASSUME IInv, SayInv, MatchSpan
  PROVE  SayInv'
<1>1. /\ pc = "match" /\ pc' = "match" /\ match.level # "exact_line"
      /\ UNCHANGED <<inc, code, config, changes>>
  BY DEF MatchSpan, Searching
<1>2. Best(cursor', match'.level)
  BY <1>1, SearchKeepsBest DEF SayInv
<1>3. Best(cursor, match.level)'
  BY <1>1, <1>2, SameFindings DEF Best
<1>4. Plain(code)' = DeployPart' \cup ExceptionPart'
  BY <1>1, SamePlain, SameParts DEF SayInv
<1>5. config' = <<>> /\ changes' = <<>>
  BY <1>1 DEF SayInv, BeforeConfig
<1> QED BY <1>1, <1>3, <1>4, <1>5 DEF SayInv, Diagnosed, BeforeConfig

LEMMA SayEndMatch ==
  ASSUME IInv, SayInv, EndMatch
  PROVE  SayInv'
<1> DEFINE x == Item("stacktrace_match", StacktraceStrength(match.level))
<1>1. /\ pc = "match" /\ ~Searching /\ pc' \in {"case_b", "end_code"} /\ cursor' = 0
      /\ UNCHANGED <<inc, config, changes, match>>
      /\ code' = (IF match.level = "none" THEN code ELSE Append(code, x))
  BY DEF EndMatch, StacktraceEvidence
<1>2. ChangeSays = IF match.level = "none" THEN {} ELSE {x}
  BY <1>1, SearchDetected DEF SayInv
<1>3. Plain(<<x>>) = {x} /\ x \in EvidenceItem /\ <<x>> \in Seq(EvidenceItem)
  <2>1. StacktraceStrength(match.level) \in Strengths
    BY DEF StacktraceStrength, Strengths
  <2>2. "stacktrace_match" \in Signals /\ "stacktrace_match" \notin ModelSignals
    BY DEF Signals, ModelSignals
  <2> HIDE DEF StacktraceStrength
  <2> QED BY <2>1, <2>2, PlainOne, ItemType
<1>4. code \in Seq(EvidenceItem)
  BY DEF IInv, TypeOK
<1> HIDE DEF x
<1>5. Append(code, x) = code \o <<x>>
  BY <1>3, <1>4, AppendIsConcat
<1>6. Plain(Append(code, x)) = Plain(code) \cup {x}
  BY <1>3, <1>4, <1>5, PlainConcat
<1>7. Plain(code) = DeployPart \cup ExceptionPart
  BY <1>1 DEF SayInv
<1>8. Plain(code') = DeployPart \cup ExceptionPart \cup ChangeSays
  BY <1>1, <1>2, <1>6, <1>7
<1>9. Plain(code)' = DeployPart' \cup ExceptionPart' \cup ChangeSays'
  BY <1>1, <1>8, SamePlain, SameParts
<1>10. config' = <<>> /\ changes' = <<>>
  BY <1>1 DEF SayInv, BeforeConfig
<1> QED BY <1>1, <1>9, <1>10 DEF SayInv, Diagnosed, BeforeConfig

LEMMA SayAssessChange ==
  ASSUME IInv, SayInv, AssessChange
  PROVE  SayInv'
<1>1. PICK reply : code' = code \o Assessment("llm_case_b_analysis", reply, IsSmokingGun(reply))
  BY DEF AssessChange
<1> DEFINE a == Assessment("llm_case_b_analysis", reply, IsSmokingGun(reply))
<1>2. a \in Seq(EvidenceItem) /\ Plain(a) = {}
  BY PlainAssessment DEF ModelSignals
<1>3. /\ pc = "case_b" /\ pc' = "end_code" /\ code' = code \o a
      /\ UNCHANGED <<inc, config, changes, cursor, match>>
  BY <1>1 DEF AssessChange
<1> HIDE DEF a
<1>4. Plain(code') = Plain(code)
  <2>1. code \in Seq(EvidenceItem)
    BY DEF IInv, TypeOK
  <2>2. Plain(code \o a) = Plain(code) \cup Plain(a)
    BY <1>2, <2>1, PlainConcat
  <2> QED BY <1>2, <1>3, <2>2
<1>5. Plain(code)' = DeployPart' \cup ExceptionPart' \cup ChangeSays' /\ cursor' = 0
  BY <1>3, <1>4, SamePlain, SameParts DEF SayInv
<1>6. config' = <<>> /\ changes' = <<>>
  BY <1>3 DEF SayInv, BeforeConfig
<1> QED BY <1>3, <1>5, <1>6 DEF SayInv, Diagnosed, BeforeConfig

LEMMA SayEndCode ==
  ASSUME IInv, SayInv, EndCode
  PROVE  SayInv'
<1> DEFINE x == Item("degraded_operation", "WEAK")
           y == Item("no_deploy_in_window", "WEAK")
           s == IF ErrorSpans # {} THEN <<x>> ELSE <<>>
           d == IF ~deploy_found THEN <<y>> ELSE <<>>
<1>1. /\ s \in Seq(EvidenceItem) /\ Plain(s) = (IF ErrorSpans # {} THEN {x} ELSE {})
      /\ d \in Seq(EvidenceItem) /\ Plain(d) = (IF ~deploy_found THEN {y} ELSE {})
  <2>1. /\ "degraded_operation" \in Signals \ ModelSignals
        /\ "no_deploy_in_window" \in Signals \ ModelSignals
        /\ "WEAK" \in Strengths /\ deploy_found \in BOOLEAN
    BY DEF Signals, ModelSignals, Strengths, deploy_found
  <2> QED BY <2>1, PlainIf
<1>2. /\ pc = "end_code" /\ pc' = "changes" /\ UNCHANGED <<inc, config, changes, cursor>>
      /\ code' = (code \o s) \o d
  BY DEF EndCode
<1>3. /\ ~deploy_found => DeploySays = {y}
      /\ SpansSay = IF ErrorSpans = {} THEN {} ELSE {x} \cup ExceptionPart
      /\ DeployPart = IF deploy_found THEN DeploySays ELSE {}
      /\ ErrorSpans = {} => ExceptionPart = {}
  BY DeployDetected DEF IInv, TypeOK, SpansSay, ExceptionPart, DeployPart, exception_found,
     ErrorEvents
<1>4. code \in Seq(EvidenceItem)
  BY DEF IInv, TypeOK
<1> HIDE DEF x, y, s, d
<1>5. code \o s \in Seq(EvidenceItem)
  BY <1>1, <1>4, ConcatProperties
<1>6. Plain(code') = (Plain(code) \cup Plain(s)) \cup Plain(d)
  BY <1>1, <1>2, <1>4, <1>5, PlainConcat
<1>7. Plain(code) = DeployPart \cup ExceptionPart \cup ChangeSays /\ cursor = 0
  BY <1>2 DEF SayInv
<1>8. Plain(code') = CodeSays
  BY <1>1, <1>3, <1>6, <1>7 DEF CodeSays
<1>9. Plain(code)' = CodeSays'
  BY <1>2, <1>8, SamePlain, SameParts
<1>10. config' = <<>> /\ changes' = <<>> /\ cursor' = 0
  BY <1>2, <1>7 DEF SayInv, BeforeConfig
<1>11. Found(cursor)' = {} /\ ChangeItems(cursor)' = {}
  BY <1>10 DEF Found, ChangeItems
<1>12. cursor' <= Len(Attached)'
  <2>1. Len(Attached)' = Len(Attached) /\ Len(Attached) \in Nat
    BY <1>2, AttachedFacts DEF IInv, TypeOK, Attached
  <2> QED BY <1>10, <2>1
<1>13. Plain(config)' = {}
  BY <1>10, SamePlain, PlainEmpty
<1> QED BY <1>2, <1>9, <1>10, <1>11, <1>12, <1>13 DEF SayInv, Diagnosed, BeforeConfig

LEMMA SayDetect ==
  ASSUME IInv, SayInv, DetectChange
  PROVE  SayInv'
<1> DEFINE i == cursor + 1
           found == InLookback(Attached[i], CONFIG_LOOKBACK_MINUTES)
           x == ChangeEvidence(Kind(i), Attached[i])
           kind == Kind(i)
<1>1. /\ pc = "changes" /\ pc' = "changes" /\ cursor' = i /\ UNCHANGED <<inc, code>>
      /\ cursor < Len(Attached)
      /\ changes' = (IF found THEN Append(changes, kind) ELSE changes)
      /\ config' = (IF found THEN Append(config, x) ELSE config)
  BY DEF DetectChange
<1>2. /\ config \in Seq(EvidenceItem) /\ changes \in Seq({"flag", "config"}) /\ cursor \in Nat
      /\ Len(Attached) \in Nat
  BY AttachedFacts DEF IInv, TypeOK
<1>3. i \in Nat /\ i <= Len(Attached) /\ 1..i = 1..cursor \cup {i}
  BY <1>1, <1>2
<1>4. x \in EvidenceItem /\ <<x>> \in Seq(EvidenceItem) /\ Plain(<<x>>) = {x}
  BY PlainOne, ItemType DEF ChangeEvidence, Signals, ModelSignals, Strengths
<1>5. kind \in {"flag", "config"}
  BY KindType
<1>6. /\ Plain(config) = ChangeItems(cursor)
      /\ changes = <<>> <=> Found(cursor) = {}
  BY <1>1 DEF SayInv
<1>7. Attached' = Attached
  BY <1>1 DEF Attached
<1>8. /\ Found(i) = Found(cursor) \cup (IF found THEN {i} ELSE {})
      /\ ChangeItems(i) = ChangeItems(cursor) \cup (IF found THEN {x} ELSE {})
  <2>1. Found(i) = Found(cursor) \cup (IF found THEN {i} ELSE {})
    <3> HIDE DEF i
    <3> QED BY <1>3 DEF Found
  <2> HIDE DEF i, found
  <2> QED BY <2>1 DEF ChangeItems
<1>9. Found(cursor)' = Found(i) /\ ChangeItems(cursor)' = ChangeItems(i)
  <2>1. Found(cursor)' = Found(i)
    BY <1>1, <1>7 DEF Found
  <2>2. \A k : (Kind(k) = "flag")' <=> Kind(k) = "flag"
    BY <1>1 DEF Kind
  <2>3. \A k : ChangeEvidence(Kind(k), Attached[k])' = ChangeEvidence(Kind(k), Attached[k])
    BY <1>1, <1>7 DEF ChangeEvidence, Kind
  <2> QED BY <2>1, <2>3 DEF ChangeItems
<1> HIDE DEF i, found, x, kind
<1>10. Plain(config') = ChangeItems(i) /\ (changes' = <<>> <=> Found(i) = {})
  <2>1. CASE found
    <3>1. Append(config, x) = config \o <<x>>
      BY <1>2, <1>4, AppendIsConcat
    <3>2. Plain(Append(config, x)) = Plain(config) \cup {x}
      BY <1>2, <1>4, <3>1, PlainConcat
    <3>3. changes' # <<>>
      BY <1>1, <1>2, <1>5, <2>1, AppendProperties
    <3>4. Found(i) # {} /\ ChangeItems(i) = ChangeItems(cursor) \cup {x}
      BY <1>8, <2>1
    <3> QED BY <1>1, <1>6, <2>1, <3>2, <3>3, <3>4
  <2>2. CASE ~found
    BY <1>1, <1>6, <1>8, <2>2
  <2> QED BY <2>1, <2>2
<1>11. Plain(config)' = ChangeItems(cursor)' /\ (changes' = <<>> <=> Found(cursor)' = {})
  BY <1>9, <1>10, SamePlain
<1>12. cursor' <= Len(Attached)'
  BY <1>1, <1>3, <1>7
<1>13. Plain(code)' = CodeSays'
  BY <1>1, SamePlain, SameParts DEF SayInv
<1> QED BY <1>1, <1>11, <1>12, <1>13 DEF SayInv, Diagnosed, BeforeConfig

(* The changes stay as they were found. *)
LEMMA SameItems ==
  ASSUME inc' = inc
  PROVE  /\ ChangeItems(Len(Attached))' = ChangeItems(Len(Attached))
         /\ Found(Len(Attached))' = Found(Len(Attached))
<1>1. Attached' = Attached
  BY DEF Attached
<1>2. Found(Len(Attached))' = Found(Len(Attached))
  BY <1>1 DEF Found
<1>3. \A k : ChangeEvidence(Kind(k), Attached[k])' = ChangeEvidence(Kind(k), Attached[k])
  BY <1>1 DEF ChangeEvidence, Kind
<1> QED BY <1>2, <1>3 DEF ChangeItems

LEMMA SayEndDetect ==
  ASSUME IInv, SayInv, EndDetect
  PROVE  SayInv'
<1>1. /\ pc = "changes" /\ pc' = "assess" /\ UNCHANGED <<inc, code, config, changes>>
      /\ cursor >= Len(Attached)
  BY DEF EndDetect
<1>2. cursor = Len(Attached)
  <2>1. cursor \in Nat /\ Len(Attached) \in Nat
    BY AttachedFacts DEF IInv, TypeOK
  <2>2. cursor <= Len(Attached)
    BY <1>1 DEF SayInv
  <2> QED BY <1>1, <2>1, <2>2
<1>3. /\ Plain(config) = ChangeItems(Len(Attached))
      /\ changes = <<>> <=> Found(Len(Attached)) = {}
  BY <1>1, <1>2 DEF SayInv
<1>4. /\ Plain(config)' = ChangeItems(Len(Attached))'
      /\ changes' = <<>> <=> Found(Len(Attached))' = {}
  BY <1>1, <1>3, SameItems, SamePlain
<1>5. Plain(code)' = CodeSays'
  BY <1>1, SamePlain, SameParts DEF SayInv
<1> QED BY <1>1, <1>4, <1>5 DEF SayInv, Diagnosed, BeforeConfig

LEMMA SayAssess ==
  ASSUME IInv, SayInv, AssessConfigChange
  PROVE  SayInv'
<1>1. PICK reply : config' = config \o Assessment("llm_config_assessment", reply, TRUE)
  BY DEF AssessConfigChange
<1> DEFINE a == Assessment("llm_config_assessment", reply, TRUE)
<1>2. a \in Seq(EvidenceItem) /\ Plain(a) = {}
  BY PlainAssessment DEF ModelSignals
<1>3. /\ pc = "assess" /\ pc' = "assess" /\ config' = config \o a
      /\ UNCHANGED <<inc, code, changes>>
  BY <1>1 DEF AssessConfigChange
<1> HIDE DEF a
<1>4. Plain(config') = Plain(config)
  <2>1. config \in Seq(EvidenceItem)
    BY DEF IInv, TypeOK
  <2>2. Plain(config \o a) = Plain(config) \cup Plain(a)
    BY <1>2, <2>1, PlainConcat
  <2> QED BY <1>2, <1>3, <2>2
<1>5. /\ Plain(config)' = ChangeItems(Len(Attached))'
      /\ changes' = <<>> <=> Found(Len(Attached))' = {}
  BY <1>3, <1>4, SameItems, SamePlain DEF SayInv
<1>6. Plain(code)' = CodeSays'
  BY <1>3, SamePlain, SameParts DEF SayInv
<1> QED BY <1>3, <1>5, <1>6 DEF SayInv, Diagnosed, BeforeConfig

LEMMA SayEndConfig ==
  ASSUME IInv, SayInv, EndConfig
  PROVE  SayInv'
<1> DEFINE errors == changes # <<>> /\ ErrorSpans # {}
           deploys == changes # <<>> /\ deploy_found
           x == Item("post_change_errors", "MODERATE")
           y == Item("simultaneous_change", "MODERATE")
           e == IF errors THEN <<x>> ELSE <<>>
           s == IF deploys THEN <<y>> ELSE <<>>
<1>1. /\ pc = "assess" /\ pc' = "arbitrate" /\ UNCHANGED <<inc, code, changes>>
      /\ config' = config \o (e \o s)
  BY DEF EndConfig, LateEvidence
<1>2. /\ e \in Seq(EvidenceItem) /\ Plain(e) = (IF errors THEN {x} ELSE {})
      /\ s \in Seq(EvidenceItem) /\ Plain(s) = (IF deploys THEN {y} ELSE {})
  <2>1. /\ "post_change_errors" \in Signals \ ModelSignals
        /\ "simultaneous_change" \in Signals \ ModelSignals
        /\ "MODERATE" \in Strengths /\ errors \in BOOLEAN /\ deploys \in BOOLEAN
    BY DEF Signals, ModelSignals, Strengths, deploy_found
  <2> HIDE DEF errors, deploys
  <2> QED BY <2>1, PlainIf
<1>3. config \in Seq(EvidenceItem)
  BY DEF IInv, TypeOK
<1>4. /\ Plain(config) = ChangeItems(Len(Attached))
      /\ changes = <<>> <=> Found(Len(Attached)) = {}
  BY <1>1 DEF SayInv
<1>5. ConfigSays = IF Found(Len(Attached)) = {} THEN {}
                   ELSE ChangeItems(Len(Attached)) \cup PostChange \cup Simultaneous
  BY ChangesDetected DEF IInv, TypeOK
<1>6. /\ PostChange = (IF ErrorSpans # {} THEN {x} ELSE {})
      /\ Simultaneous = (IF deploy_found THEN {y} ELSE {})
  BY DEF PostChange, Simultaneous
<1> HIDE DEF e, s, x, y
<1>7. e \o s \in Seq(EvidenceItem) /\ Plain(e \o s) = Plain(e) \cup Plain(s)
  BY <1>2, ConcatProperties, PlainConcat
<1>8. Plain(config') = Plain(config) \cup (Plain(e) \cup Plain(s))
  BY <1>1, <1>3, <1>7, PlainConcat
<1>9. Plain(config') = ConfigSays
  <2>1. CASE changes = <<>>
    <3>1. ChangeItems(Len(Attached)) = {}
      BY <1>4, <2>1 DEF ChangeItems
    <3> QED BY <1>2, <1>4, <1>5, <1>8, <2>1, <3>1
  <2>2. CASE changes # <<>>
    BY <1>2, <1>4, <1>5, <1>6, <1>8, <2>2
  <2> QED BY <2>1, <2>2
<1>10. Plain(config)' = ConfigSays' /\ Plain(code)' = CodeSays'
  BY <1>1, <1>9, SamePlain, SameParts DEF SayInv
<1> QED BY <1>1, <1>10 DEF SayInv, Diagnosed, BeforeConfig

LEMMA SayStep ==
  ASSUME IInv, SayInv, [Next]_vars
  PROVE  SayInv'
<1>1. CASE Raise
  <2>1. result'.failure_type = "unknown" /\ pc' = "done"
    BY <1>1 DEF Raise, FailedOutcome, Outcome
  <2>2. ~Diagnosed'
    BY <2>1 DEF Diagnosed
  <2> QED BY <2>1, <2>2 DEF SayInv, BeforeConfig
<1>2. CASE Arbitrate
  <2>1. pc = "arbitrate" /\ pc' = "done" /\ UNCHANGED <<inc, code, config>>
    BY <1>2 DEF Arbitrate
  <2>2. Plain(code)' = CodeSays' /\ Plain(config)' = ConfigSays'
    BY <2>1, SamePlain, SameParts DEF SayInv
  <2> QED BY <2>1, <2>2 DEF SayInv, BeforeConfig
<1>3. CASE UNCHANGED vars
  <2>1. /\ UNCHANGED <<inc, pc, code, config, changes, cursor, match, result>>
    BY <1>3 DEF vars
  <2>2. /\ Plain(code)' = Plain(code) /\ Plain(config)' = Plain(config)
        /\ Diagnosed' = Diagnosed /\ Len(Attached)' = Len(Attached)
    BY <2>1 DEF Plain, Diagnosed, Attached
  <2>3. /\ Best(cursor, match.level)' <=> Best(cursor, match.level)
    BY <2>1, SameFindings DEF Best
  <2>4. /\ Found(cursor)' = Found(cursor) /\ ChangeItems(cursor)' = ChangeItems(cursor)
    BY <2>1 DEF Found, ChangeItems, ChangeEvidence, Kind, Attached
  <2>5. CASE pc \in {"deploy", "exception", "case_a", "match"}
    BY <2>1, <2>2, <2>3, <2>5, SameParts DEF SayInv, BeforeConfig, Diagnosed
  <2>6. CASE pc \in {"case_b", "end_code"}
    BY <2>1, <2>2, <2>6, SameParts DEF SayInv, BeforeConfig, Diagnosed
  <2>7. CASE pc \in {"changes", "assess"}
    BY <2>1, <2>2, <2>4, <2>7, SameParts, SameItems DEF SayInv, BeforeConfig, Diagnosed
  <2>8. CASE pc \in {"arbitrate", "done"}
    BY <2>1, <2>2, <2>8, SameParts DEF SayInv, BeforeConfig
  <2> QED BY <2>5, <2>6, <2>7, <2>8 DEF IInv, TypeOK, Stages
<1>4. CASE CodeEngine
  BY <1>1, <1>4, SayDeploy, SayException, SayAssessDeploy, SayMatchSpan, SayEndMatch,
     SayAssessChange, SayEndCode DEF CodeEngine, ExtractionFails, MatchFails
<1>5. CASE ConfigEngine
  BY <1>1, <1>5, SayDetect, SayEndDetect, SayAssess, SayEndConfig DEF ConfigEngine, PatternFails
<1> QED BY <1>2, <1>3, <1>4, <1>5 DEF Next, Returned

LEMMA SayIsIt ==
  ASSUME TypeOK, SayInv, Merged
  PROVE  EvidenceMatchesTelemetry
<1> SUFFICES ASSUME Diagnosed PROVE EvidenceMatchesTelemetry
  BY DEF EvidenceMatchesTelemetry
<1> DEFINE E == result.evidence
<1>1. E \in Seq(EvidenceItem)
  BY DEF TypeOK, Outcomes
<1>2. {E[i] : i \in (DOMAIN E) \ Items(ModelSignals)} = Plain(E)
  <2>1. \A i \in DOMAIN E : E[i] \in EvidenceItem
    <3> HIDE DEF E
    <3> QED BY <1>1, ElementOfSeq, LenProperties
  <2>2. \A i \in DOMAIN E : i \in Items(ModelSignals) <=> E[i].signal \in ModelSignals
    BY DEF Items
  <2> HIDE DEF E
  <2> QED BY <2>1, <2>2 DEF Plain
<1>3. /\ Plain(code \o config) = Plain(code) \cup Plain(config)
      /\ Plain(config \o code) = Plain(config) \cup Plain(code)
  BY PlainConcat DEF TypeOK
<1>4. E = code \o config \/ E = config \o code
  BY DEF Merged
<1>5. Plain(code) = CodeSays /\ Plain(config) = ConfigSays
  BY DEF SayInv
<1> HIDE DEF E
<1>6. Plain(E) = CodeSays \cup ConfigSays
  BY <1>3, <1>4, <1>5
<1> QED BY <1>2, <1>6 DEF E, CodeSays, EvidenceMatchesTelemetry

(* Whatever the order of deploys, spans and changes, and wherever a search stops
   early, a diagnosis lists what the telemetry and the changes say, no less and,
   beside the model's assessments, no more. *)
THEOREM EvidenceIsComplete == Spec => []EvidenceMatchesTelemetry
<1>1. Init => SayInv /\ Merged
  BY SayInit DEF Init, Merged, Diagnosed
<1>2. IInv /\ SayInv /\ Merged /\ [Next]_vars => SayInv' /\ Merged'
  BY SayStep, MergedStep
<1>3. IInv /\ SayInv /\ Merged => EvidenceMatchesTelemetry
  BY SayIsIt DEF IInv
<1> QED BY <1>1, <1>2, <1>3, Invariance, PTL DEF Spec

=============================================================================
