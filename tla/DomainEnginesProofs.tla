------------------------ MODULE DomainEnginesProofs ------------------------
(***************************************************************************)
(* The engines, for every incident and every priority.                     *)
(***************************************************************************)
EXTENDS DomainEngines, TLAPS, FiniteSetTheorems, WellFoundedInduction

EvidenceItem == [signal : Signals, strength : Strengths]

LEMMA IfType ==
  ASSUME NEW c, NEW item \in EvidenceItem
  PROVE  If(c, item) \in Seq(EvidenceItem)
BY DEF If

LEMMA Appended ==
  ASSUME NEW S, NEW s \in Seq(S), NEW t \in Seq(S)
  PROVE  s \o t \in Seq(S)
OBVIOUS

(* Of two sequences of evidence put together, nothing is lost. *)
LEMMA HasAppended ==
  ASSUME NEW s \in Seq(EvidenceItem), NEW t \in Seq(EvidenceItem), NEW signal
  PROVE  Has(s \o t, signal) <=> Has(s, signal) \/ Has(t, signal)
<1>1. /\ DOMAIN (s \o t) = 1..(Len(s) + Len(t))
      /\ \A i \in 1..Len(s) : (s \o t)[i] = s[i]
      /\ \A i \in 1..Len(t) : (s \o t)[Len(s) + i] = t[i]
  OBVIOUS
<1>2. DOMAIN s = 1..Len(s) /\ DOMAIN t = 1..Len(t) /\ Len(s) \in Nat /\ Len(t) \in Nat
  OBVIOUS
<1>3. \A i \in 1..(Len(s) + Len(t)) : i \in 1..Len(s) \/ i - Len(s) \in 1..Len(t)
  BY <1>2
<1>4. ASSUME Has(s \o t, signal) PROVE Has(s, signal) \/ Has(t, signal)
  <2>1. PICK i \in 1..(Len(s) + Len(t)) : (s \o t)[i].signal = signal
    BY <1>1, <1>4 DEF Has
  <2>2. CASE i \in 1..Len(s)
    BY <1>1, <1>2, <2>1, <2>2 DEF Has
  <2>3. CASE i - Len(s) \in 1..Len(t)
    <3>1. (s \o t)[Len(s) + (i - Len(s))] = t[i - Len(s)] /\ Len(s) + (i - Len(s)) = i
      BY <1>1, <1>2, <2>3
    <3> QED BY <1>2, <2>1, <2>3, <3>1 DEF Has
  <2> QED BY <1>3, <2>2, <2>3
<1>5. ASSUME Has(s, signal) PROVE Has(s \o t, signal)
  BY <1>1, <1>2, <1>5 DEF Has
<1>6. ASSUME Has(t, signal) PROVE Has(s \o t, signal)
  <2>1. PICK i \in 1..Len(t) : t[i].signal = signal
    BY <1>2, <1>6 DEF Has
  <2>2. Len(s) + i \in 1..(Len(s) + Len(t))
    BY <1>2
  <2> QED BY <1>1, <2>1, <2>2 DEF Has
<1> QED BY <1>4, <1>5, <1>6
LEMMA HasOne ==
  ASSUME NEW item, NEW signal
  PROVE  Has(<<item>>, signal) <=> item.signal = signal
BY DEF Has

LEMMA HasIf ==
  ASSUME NEW c \in BOOLEAN, NEW item, NEW signal
  PROVE  Has(If(c, item), signal) <=> c /\ item.signal = signal
<1>1. CASE c
  <2>1. If(c, item) = <<item>>
    BY <1>1 DEF If
  <2> QED BY <1>1, <2>1, HasOne
<1>2. CASE ~c
  <2>1. If(c, item) = <<>>
    BY <1>2 DEF If
  <2>2. ~Has(<<>>, signal)
    BY DEF Has
  <2> QED BY <1>2, <2>1, <2>2
<1> QED BY <1>1, <1>2

----------------------------------------------------------------------------
(* Types *)

LEMMA ItemTypes ==
  ASSUME NEW d
  PROVE  /\ LatencySpike(d) \in EvidenceItem
         /\ ErrorRate(d) \in EvidenceItem
         /\ SlowQuery(d) \in EvidenceItem
         /\ Exhaustion(d) \in EvidenceItem
         /\ CallerTimeout \in EvidenceItem
         /\ Missing \in EvidenceItem
         /\ HttpError(d) \in EvidenceItem
         /\ CallerScope(d) \in EvidenceItem
BY DEF LatencySpike, ErrorRate, SlowQuery, Exhaustion, CallerTimeout, Missing,
       HttpError, CallerScope, Item, EvidenceItem, Signals, Strengths

LEMMA FixedItemTypes ==
  /\ Item("db_integrity_error", "STRONG") \in EvidenceItem
  /\ Item("db_statement", "WEAK") \in EvidenceItem
BY DEF Item, EvidenceItem, Signals, Strengths

(* What the cap leaves is an item of the same signal, and is not strong. *)
LEMMA CappedType ==
  ASSUME NEW item \in EvidenceItem
  PROVE  /\ Capped(item) \in EvidenceItem
         /\ Capped(item).strength # "STRONG"
         /\ Capped(item).signal = item.signal
BY DEF Capped, EvidenceItem, Strengths

LEMMA OrMissingType ==
  ASSUME NEW s \in Seq(EvidenceItem)
  PROVE  OrMissing(s) \in Seq(EvidenceItem)
BY ItemTypes DEF OrMissing

LEMMA RelationalEvidenceType ==
  ASSUME NEW d
  PROVE  RelationalEvidence(d) \in Seq(EvidenceItem)
<1>1. ErrorEvidence(d) \in Seq(EvidenceItem)
  BY IfType, ItemTypes, FixedItemTypes DEF ErrorEvidence
<1>2. SlowEvidence(d) \in Seq(EvidenceItem)
  BY IfType, ItemTypes DEF SlowEvidence
<1>3. ExhaustionEvidence(d) \in Seq(EvidenceItem)
  BY IfType, ItemTypes DEF ExhaustionEvidence
<1> QED BY <1>1, <1>2, <1>3, ItemTypes DEF RelationalEvidence

LEMMA CacheEvidenceType ==
  ASSUME NEW d
  PROVE  CacheEvidence(d) \in Seq(EvidenceItem)
BY IfType, ItemTypes, Appended, OrMissingType DEF CacheEvidence

LEMMA GenericEvidenceType ==
  ASSUME NEW d
  PROVE  GenericEvidence(d) \in Seq(EvidenceItem)
BY IfType, ItemTypes, CappedType, Appended, OrMissingType DEF GenericEvidence

LEMMA DependencyEvidenceType ==
  ASSUME NEW d
  PROVE  DependencyEvidence(d) \in Seq(EvidenceItem)
BY ItemTypes DEF DependencyEvidence

LEMMA PriorityTypes ==
  ASSUME NEW p \in 0..100, NEW b \in {5, 10, 15}
  PROVE  Raised(p, b) \in 0..100 /\ Lowered(p, b) \in 0..100
BY DEF Raised, Lowered

LEMMA ItemSignals ==
  ASSUME NEW d
  PROVE  /\ LatencySpike(d).signal = "latency_spike"
         /\ ErrorRate(d).signal = "error_rate_spike"
         /\ SlowQuery(d).signal = "slow_query"
         /\ Exhaustion(d).signal = "connection_exhaustion"
         /\ CallerTimeout.signal = "caller_timeout"
         /\ Missing.signal = "missing_telemetry" /\ Missing.strength = "MODERATE"
         /\ HttpError(d).signal = "http_error_pattern"
         /\ CallerScope(d).signal = "all_callers_affected"
BY DEF LatencySpike, ErrorRate, SlowQuery, Exhaustion, CallerTimeout, Missing,
       HttpError, CallerScope, Item

----------------------------------------------------------------------------
(* What each kind of evidence has *)

LEMMA OnlyMissing ==
  /\ ~HasStrength(<<Missing>>, "STRONG")
  /\ <<Missing>> # <<>>
  /\ \A signal : Has(<<Missing>>, signal) <=> signal = "missing_telemetry"
<1>1. \A signal : Has(<<Missing>>, signal) <=> signal = "missing_telemetry"
  BY HasOne, ItemSignals
<1> QED BY <1>1, ItemSignals DEF HasStrength

LEMMA ErrorHas ==
  ASSUME NEW d
  PROVE  /\ Has(ErrorEvidence(d), "error_rate_spike")
         /\ HasStrength(ErrorEvidence(d), "STRONG")
         /\ ~Has(ErrorEvidence(d), "missing_telemetry")
<1> DEFINE a == <<Item("db_integrity_error", "STRONG"), ErrorRate(d)>>
           b == If(Statements(ErrorSpans(d), d) # {}, Item("db_statement", "WEAK"))
<1>1. a \in Seq(EvidenceItem) /\ b \in Seq(EvidenceItem)
  BY IfType, ItemTypes, FixedItemTypes
<1>2. Has(a, "error_rate_spike") /\ ~Has(a, "missing_telemetry")
  BY ItemSignals DEF Has, Item
<1>3. ~Has(b, "missing_telemetry")
  BY DEF Has, If, Item
<1>4. a[1].strength = "STRONG" /\ (a \o b)[1] = a[1] /\ 1 \in DOMAIN (a \o b)
  BY <1>1 DEF Item
<1> HIDE DEF a, b
<1>5. Has(a \o b, "error_rate_spike") /\ ~Has(a \o b, "missing_telemetry")
  BY <1>1, <1>2, <1>3, HasAppended
<1>6. HasStrength(a \o b, "STRONG")
  BY <1>4 DEF HasStrength
<1> QED BY <1>5, <1>6 DEF ErrorEvidence, a, b

LEMMA SlowHas ==
  ASSUME NEW d
  PROVE  /\ \/ Has(SlowEvidence(d), "latency_spike")
            \/ Has(SlowEvidence(d), "slow_query")
            \/ Untold(d)
         /\ SlowEvidence(d) = <<>> => ErrorSpans(d) = {}
         /\ ~Has(SlowEvidence(d), "missing_telemetry")
<1> DEFINE a == If(d.latency # <<>>, LatencySpike(d))
           b == If(Statements(DbSpans(d), d) # {}, SlowQuery(d))
           c == If(ErrorSpans(d) # {}, ErrorRate(d))
<1>1. /\ a \in Seq(EvidenceItem) /\ b \in Seq(EvidenceItem) /\ c \in Seq(EvidenceItem)
      /\ a \o b \in Seq(EvidenceItem)
  BY IfType, ItemTypes, Appended
<1>2. /\ d.latency # <<>> => Has(a, "latency_spike")
      /\ Statements(DbSpans(d), d) # {} => Has(b, "slow_query")
      /\ ErrorSpans(d) # {} => Has(c, "error_rate_spike")
      /\ ~Has(a, "missing_telemetry") /\ ~Has(b, "missing_telemetry")
      /\ ~Has(c, "missing_telemetry")
  BY HasIf, ItemSignals
<1> HIDE DEF a, b, c
<1>3. \A signal : Has((a \o b) \o c, signal) <=> Has(a, signal) \/ Has(b, signal) \/ Has(c, signal)
  BY <1>1, HasAppended
<1>4. SlowEvidence(d) = (a \o b) \o c
  BY DEF SlowEvidence, a, b, c
<1>5. ~Has(<<>>, "error_rate_spike")
  BY DEF Has
<1> QED BY <1>2, <1>3, <1>4, <1>5 DEF Untold

LEMMA ExhaustionHas ==
  ASSUME NEW d
  PROVE  /\ Has(ExhaustionEvidence(d), "connection_exhaustion")
         /\ Has(ExhaustionEvidence(d), "caller_timeout")
         /\ ~Has(ExhaustionEvidence(d), "missing_telemetry")
<1> DEFINE a == <<Exhaustion(d), CallerTimeout>>
           b == If(Cardinality(CallerSees(d, "timeout")) >= MAX_CALLER_TIMEOUT_EVIDENCE, CallerTimeout)
           c == <<ErrorRate(d)>>
           e == If(LatencyIsAbove(d), LatencySpike(d))
<1>1. /\ a \in Seq(EvidenceItem) /\ b \in Seq(EvidenceItem)
      /\ c \in Seq(EvidenceItem) /\ e \in Seq(EvidenceItem)
  BY IfType, ItemTypes
<1>2. (a \o b) \in Seq(EvidenceItem) /\ ((a \o b) \o c) \in Seq(EvidenceItem)
  BY <1>1, Appended
<1>3. /\ Has(a, "connection_exhaustion") /\ Has(a, "caller_timeout")
      /\ ~Has(a, "missing_telemetry")
  BY ItemSignals DEF Has
<1>4. ~Has(b, "missing_telemetry") /\ ~Has(c, "missing_telemetry") /\ ~Has(e, "missing_telemetry")
  BY ItemSignals DEF Has, If
<1> HIDE DEF a, b, c, e
<1>5. \A signal : Has(((a \o b) \o c) \o e, signal) <=>
                    Has(a, signal) \/ Has(b, signal) \/ Has(c, signal) \/ Has(e, signal)
  BY <1>1, <1>2, HasAppended
<1> QED BY <1>3, <1>4, <1>5 DEF ExhaustionEvidence, a, b, c, e

(* What Rests asks, of a relational database. *)
LEMMA RelationalHas ==
  ASSUME NEW d, NEW evidence0, evidence0 = RelationalEvidence(d)
  PROVE  /\ RelationalType(d) = "DB_ERROR" =>
              Has(evidence0, "error_rate_spike") /\ HasStrength(evidence0, "STRONG")
         /\ RelationalType(d) = "DB_CONNECTION_EXHAUSTION" =>
              /\ Has(evidence0, "connection_exhaustion")
              /\ Has(evidence0, "caller_timeout")
              /\ CallerSees(d, "timeout") # {}
         /\ RelationalType(d) = "DB_SLOW_QUERY" =>
              Has(evidence0, "latency_spike") \/ Has(evidence0, "slow_query") \/ Untold(d)
         /\ evidence0 = <<>> => RelationalType(d) = "DB_SLOW_QUERY" /\ ErrorSpans(d) = {}
         /\ Has(evidence0, "missing_telemetry") => RelationalType(d) = "UNKNOWN"
         /\ RelationalType(d) = "UNKNOWN" => ~HasStrength(evidence0, "STRONG")
<1>1. \A signal : ~Has(<<>>, signal)
  BY DEF Has
<1>2. CASE RelationalType(d) = "DB_ERROR"
  <2>1. evidence0 = ErrorEvidence(d)
    BY <1>2 DEF RelationalEvidence
  <2> QED BY <1>1, <1>2, <2>1, ErrorHas
<1>3. CASE RelationalType(d) = "DB_SLOW_QUERY"
  <2>1. evidence0 = SlowEvidence(d)
    BY <1>3 DEF RelationalEvidence
  <2> QED BY <1>3, <2>1, SlowHas
<1>4. CASE RelationalType(d) = "DB_CONNECTION_EXHAUSTION"
  <2>1. evidence0 = ExhaustionEvidence(d)
    BY <1>4 DEF RelationalEvidence
  <2>2. CallerSees(d, "timeout") # {}
    BY <1>4 DEF RelationalType
  <2> QED BY <1>1, <1>4, <2>1, <2>2, ExhaustionHas
<1>5. CASE RelationalType(d) = "UNKNOWN"
  <2>1. evidence0 = <<Missing>>
    BY <1>5 DEF RelationalEvidence
  <2> QED BY <1>5, <2>1, OnlyMissing
<1> QED BY <1>2, <1>3, <1>4, <1>5 DEF RelationalType
LEMMA CacheHas ==
  ASSUME NEW d
  PROVE  /\ CacheType(d) = "DB_ERROR" => Has(CacheEvidence(d), "error_rate_spike")
         /\ CacheType(d) = "DB_SLOW_QUERY" => Has(CacheEvidence(d), "latency_spike")
         /\ CacheEvidence(d) # <<>>
         /\ Has(CacheEvidence(d), "missing_telemetry") => CacheType(d) = "UNKNOWN"
         /\ CacheType(d) = "UNKNOWN" => ~HasStrength(CacheEvidence(d), "STRONG")
<1> DEFINE a == If(LatencyDeviates(d), LatencySpike(d))
           b == If(ErrorSpans(d) # {}, ErrorRate(d))
<1>1. a \in Seq(EvidenceItem) /\ b \in Seq(EvidenceItem)
  BY IfType, ItemTypes
<1>2. /\ LatencyDeviates(d) => Has(a, "latency_spike")
      /\ ErrorSpans(d) # {} => Has(b, "error_rate_spike")
      /\ ~Has(a, "missing_telemetry") /\ ~Has(b, "missing_telemetry")
  BY ItemSignals DEF Has, If
<1>3. CASE ~LatencyDeviates(d) /\ ErrorSpans(d) = {}
  <2>1. CacheEvidence(d) = <<Missing>>
    BY <1>3 DEF CacheEvidence, OrMissing, If
  <2>2. CacheType(d) = "UNKNOWN"
    BY <1>3 DEF CacheType
  <2> QED BY <2>1, <2>2, OnlyMissing
<1>4. CASE LatencyDeviates(d) \/ ErrorSpans(d) # {}
  <2> HIDE DEF a, b
  <2>1. \A signal : Has(a \o b, signal) <=> Has(a, signal) \/ Has(b, signal)
    BY <1>1, HasAppended
  <2>2. a \o b # <<>>
    <3>1. \A signal : ~Has(<<>>, signal)
      BY DEF Has
    <3> QED BY <1>2, <1>4, <2>1, <3>1
  <2>3. CacheEvidence(d) = a \o b
    BY <2>2 DEF CacheEvidence, OrMissing, a, b
  <2> QED BY <1>2, <1>4, <2>1, <2>2, <2>3 DEF CacheType
<1> QED BY <1>3, <1>4

LEMMA GenericHas ==
  ASSUME NEW d
  PROVE  /\ GenericEvidence(d) # <<>>
         /\ ~HasStrength(GenericEvidence(d), "STRONG")
<1> DEFINE a == If(LatencyDeviates(d), Capped(LatencySpike(d)))
           b == If(ErrorSpans(d) # {}, Capped(ErrorRate(d)))
<1>1. /\ \A i \in DOMAIN a : a[i].strength # "STRONG"
      /\ \A i \in DOMAIN b : b[i].strength # "STRONG"
  BY CappedType, ItemTypes DEF If
<1>2. a \in Seq(EvidenceItem) /\ b \in Seq(EvidenceItem)
  BY IfType, ItemTypes, CappedType
<1> HIDE DEF a, b
<1>3. \A i \in DOMAIN (a \o b) : (a \o b)[i].strength # "STRONG"
  <2> TAKE i \in DOMAIN (a \o b)
  <2>1. CASE i \in DOMAIN a
    BY <1>1, <1>2, <2>1
  <2>2. CASE i \notin DOMAIN a
    <3>1. i - Len(a) \in DOMAIN b /\ (a \o b)[i] = b[i - Len(a)]
      BY <1>2, <2>2
    <3> QED BY <1>1, <3>1
  <2> QED BY <2>1, <2>2
<1>4. GenericEvidence(d) = OrMissing(a \o b)
  BY DEF GenericEvidence, a, b
<1> QED BY <1>3, <1>4, OnlyMissing DEF OrMissing, HasStrength

LEMMA DependencyHas ==
  ASSUME NEW d
  PROVE  /\ DependencyType(d) = "UPSTREAM_OUTAGE" <=>
              Has(DependencyEvidence(d), "http_error_pattern")
         /\ Has(DependencyEvidence(d), "all_callers_affected")
         /\ Has(DependencyEvidence(d), "missing_telemetry") =>
              DependencyType(d) = "EXTERNAL_DEP_FAILURE"
<1> DEFINE a == If(FiveXX(d) # {}, HttpError(d))
           b == <<CallerScope(d)>>
           c == If(Calls(d) = {}, Missing)
<1>1. /\ a \in Seq(EvidenceItem) /\ b \in Seq(EvidenceItem) /\ c \in Seq(EvidenceItem)
      /\ a \o b \in Seq(EvidenceItem)
  BY IfType, ItemTypes, Appended
<1>2. DependencyEvidence(d) = (a \o b) \o c
  BY DEF DependencyEvidence, If
<1>3. /\ FiveXX(d) # {} <=> Has(a, "http_error_pattern")
      /\ ~Has(b, "http_error_pattern") /\ ~Has(c, "http_error_pattern")
      /\ ~Has(a, "missing_telemetry") /\ ~Has(b, "missing_telemetry")
      /\ Has(b, "all_callers_affected")
      /\ Has(c, "missing_telemetry") => Calls(d) = {}
  BY ItemSignals DEF Has, If
<1> HIDE DEF a, b, c
<1>4. \A signal : Has((a \o b) \o c, signal) <=> Has(a, signal) \/ Has(b, signal) \/ Has(c, signal)
  BY <1>1, HasAppended
<1>5. \A signal : ~Has(<<>>, signal)
  BY DEF Has
<1>6. ASSUME Calls(d) = {} PROVE DependencyType(d) = "EXTERNAL_DEP_FAILURE"
  BY <1>6 DEF DependencyType, FiveXX, WithStatus, TimesOut
<1>7. DependencyType(d) = "UPSTREAM_OUTAGE" <=> FiveXX(d) # {}
  BY DEF DependencyType
<1> QED BY <1>2, <1>3, <1>4, <1>5, <1>6, <1>7

(* What the calls of the window show, by the type that is named. *)
LEMMA DependencyShows ==
  ASSUME NEW d, d \in Dependency
  PROVE  /\ DependencyType(d) = "UPSTREAM_OUTAGE" => Answered(d, 500..599)
         /\ DependencyType(d) = "RATE_LIMITED" =>
              Answered(d, {429}) /\ ~Answered(d, 500..599)
         /\ DependencyType(d) = "TIMEOUT" =>
              RanOut(d) /\ ~Answered(d, 500..599 \cup {429})
         /\ DependencyType(d) = "EXTERNAL_DEP_FAILURE" =>
              ~RanOut(d) /\ ~Answered(d, 500..599 \cup {429})
<1>1. \A i : i \in Calls(d) <=>
              i \in DOMAIN d.calls /\ 0 <= d.calls[i].at /\ d.calls[i].at <= 300
  <2>1. \A i \in DOMAIN d.calls : d.calls[i].at \in Int
    <3> DEFINE c == d.calls
    <3>1. c \in Seq(Call)
      BY DEF Dependency
    <3> HIDE DEF c
    <3>2. \A i \in DOMAIN c : c[i] \in Call
      BY <3>1
    <3> QED
      BY <3>2 DEF Call, c
  <2> QED
    BY <2>1 DEF Calls, InWindow, INCIDENT_WINDOW_SECONDS
<1>2. FiveXX(d) # {} <=> Answered(d, 500..599)
  <2>1. ASSUME NEW x \in FiveXX(d) PROVE Answered(d, 500..599)
    <3>1. PICK i \in Calls(d) : d.calls[i].status = x
      BY DEF FiveXX
    <3>2. d.calls[i].status \in 500..599
      BY <3>1 DEF FiveXX
    <3> QED
      BY <1>1, <3>2 DEF Answered
  <2>2. ASSUME Answered(d, 500..599) PROVE FiveXX(d) # {}
    <3>1. PICK i \in Calls(d) : d.calls[i].status \in 500..599
      BY <1>1, <2>2 DEF Answered
    <3>2. d.calls[i].status \in FiveXX(d)
      BY <3>1 DEF FiveXX
    <3> QED
      BY <3>2
  <2> QED
    BY <2>1, <2>2
<1>3. WithStatus(d, 429) # {} <=> Answered(d, {429})
  BY <1>1 DEF WithStatus, Answered
<1>4. TimesOut(d) <=> RanOut(d)
  BY <1>1 DEF TimesOut, RanOut
<1>5. Answered(d, 500..599 \cup {429}) <=> Answered(d, 500..599) \/ Answered(d, {429})
  BY DEF Answered
<1> DEFINE broken == Answered(d, 500..599)
           limited == Answered(d, {429})
           either == Answered(d, 500..599 \cup {429})
           late == RanOut(d)
<1>6. DependencyType(d) =
        IF broken THEN "UPSTREAM_OUTAGE" ELSE IF limited THEN "RATE_LIMITED"
        ELSE IF late THEN "TIMEOUT" ELSE "EXTERNAL_DEP_FAILURE"
  BY <1>2, <1>3, <1>4 DEF DependencyType
<1>7. either <=> broken \/ limited
  BY <1>5
<1> HIDE DEF broken, limited, either, late
<1>8. /\ DependencyType(d) = "UPSTREAM_OUTAGE" => broken
      /\ DependencyType(d) = "RATE_LIMITED" => limited /\ ~broken
      /\ DependencyType(d) = "TIMEOUT" => late /\ ~either
      /\ DependencyType(d) = "EXTERNAL_DEP_FAILURE" => ~late /\ ~either
  BY <1>6, <1>7
<1> QED
  BY <1>8 DEF broken, limited, either, late

----------------------------------------------------------------------------
(* What is greatest in a finite set *)

(* A set of natural numbers has a least element. *)
LEMMA LeastExists ==
  ASSUME NEW S \in SUBSET Nat, S # {}
  PROVE  \E i \in S : \A j \in S : i <= j
<1> DEFINE less == OpToRel(<, Nat)
<1>1. IsWellFoundedOn(less, Nat)
  BY NatLessThanWellFounded
<1>2. \A x, y \in Nat : x < y => <<x, y>> \in less
  BY DEF OpToRel
<1> HIDE DEF less
<1>3. PICK i \in S : \A j \in S : <<j, i>> \notin less
  BY <1>1, WFMin
<1>4. ASSUME NEW j \in S PROVE i <= j
  <2>1. ~(j < i)
    BY <1>2, <1>3
  <2> QED BY <2>1
<1> QED BY <1>4

(* A finite set that R orders totally, ties allowed, has an element before all:
   of the subsets without one take a least, and leave one of its elements out. *)
LEMMA FirstExists ==
  ASSUME NEW S, IsFiniteSet(S), S # {}, NEW R,
         \A x, y \in S : <<x, y>> \in R \/ <<y, x>> \in R,
         \A x, y, z \in S : <<x, y>> \in R /\ <<y, z>> \in R => <<x, z>> \in R
  PROVE  \E x \in S : \A y \in S : <<x, y>> \in R
<1> DEFINE Led(T) == \E x \in T : \A y \in T : <<x, y>> \in R
           Bad == {k \in Nat : \E T \in SUBSET S : T # {} /\ Cardinality(T) = k /\ ~Led(T)}
           less == OpToRel(<, Nat)
<1>1. SUFFICES ASSUME Bad # {} PROVE FALSE
  <2>1. Cardinality(S) \in Nat
    BY FS_CardinalityType
  <2>2. Led(S)
    BY <1>1, <2>1
  <2> QED BY <2>2
<1>2. IsWellFoundedOn(less, Nat)
  BY NatLessThanWellFounded
<1>3. \A x, y \in Nat : x < y => <<x, y>> \in less
  BY DEF OpToRel
<1> HIDE DEF less
<1>4. PICK k \in Bad : \A j \in Bad : <<j, k>> \notin less
  <2>1. Bad \in SUBSET Nat
    OBVIOUS
  <2> HIDE DEF Bad
  <2> QED BY <1>1, <1>2, <2>1, WFMin
<1>5. PICK T \in SUBSET S : T # {} /\ Cardinality(T) = k /\ ~Led(T)
  BY <1>4
<1>6. PICK x \in T : TRUE
  BY <1>5
<1> DEFINE U == T \ {x}
<1>7. /\ U \in SUBSET S
      /\ Cardinality(U) \in Nat /\ Cardinality(U) < k /\ k \in Nat
  <2>1. IsFiniteSet(T)
    BY <1>5, FS_Subset
  <2>2. IsFiniteSet(U) /\ Cardinality(U) = Cardinality(T) - 1
    BY <1>6, <2>1, FS_RemoveElement
  <2> QED BY <1>5, <2>1, <2>2, FS_CardinalityType
<1>8. Cardinality(U) \notin Bad
  BY <1>3, <1>4, <1>7
<1>9. U = {} \/ Led(U)
  BY <1>7, <1>8
<1>10. CASE U = {}
  <2>1. T = {x} /\ x \in S
    BY <1>5, <1>6, <1>10
  <2>2. <<x, x>> \in R
    BY <2>1
  <2> QED BY <1>5, <2>1, <2>2
<1>11. CASE Led(U)
  <2>1. PICK m \in U : \A y \in U : <<m, y>> \in R
    BY <1>11
  <2>2. \A y \in T : y \in U \/ y = x
    OBVIOUS
  <2>3. T \subseteq S /\ m \in T /\ x \in S /\ m \in S
    BY <1>5, <1>6, <2>1
  <2>4. <<x, x>> \in R
    BY <2>3
  <2>5. CASE <<m, x>> \in R
    BY <1>5, <2>1, <2>2, <2>3, <2>5
  <2>6. CASE <<x, m>> \in R
    <3>1. \A y \in T : <<x, y>> \in R
      BY <2>1, <2>2, <2>3, <2>4, <2>6
    <3> QED BY <1>5, <1>6, <3>1
  <2> QED BY <2>3, <2>5, <2>6
<1> QED BY <1>9, <1>10, <1>11

----------------------------------------------------------------------------
(* Sums *)

(* The element a sum takes next. *)
Pick(S) == CHOOSE x \in S : TRUE

(* What makes g the sum of f over each set of D. *)
Sums(g, f, D) ==
  \A s \in D : g[s] = IF s = {} THEN 0 ELSE f[Pick(s)] + g[s \ {Pick(s)}]

SmallSubsets(S, k) == {s \in SUBSET S : Cardinality(s) <= k}

LEMMA SmallSubsetFacts ==
  ASSUME NEW S, IsFiniteSet(S), NEW k \in Nat
  PROVE  /\ \A s \in SUBSET S : IsFiniteSet(s) /\ Cardinality(s) \in Nat
         /\ \A s \in SUBSET S : s # {} =>
              /\ Pick(s) \in s
              /\ s \ {Pick(s)} \in SUBSET S
              /\ Cardinality(s \ {Pick(s)}) = Cardinality(s) - 1
         /\ SmallSubsets(S, 0) = {{}}
         /\ SmallSubsets(S, Cardinality(S)) = SUBSET S
<1>1. \A s \in SUBSET S : IsFiniteSet(s) /\ Cardinality(s) \in Nat
  BY FS_Subset, FS_CardinalityType
<1>2. \A s : s # {} => Pick(s) \in s
  BY DEF Pick
<1>3. \A s \in SUBSET S : s # {} => Cardinality(s \ {Pick(s)}) = Cardinality(s) - 1
  BY <1>1, <1>2, FS_RemoveElement
<1>4. \A s \in SUBSET S : Cardinality(s) <= 0 <=> s = {}
  BY <1>1, FS_EmptySet
<1>5. \A s \in SUBSET S : Cardinality(s) <= Cardinality(S)
  BY FS_Subset
<1> QED BY <1>1, <1>2, <1>3, <1>4, <1>5 DEF SmallSubsets

(* Functions that sum over ever larger subsets: a least k without one would have a
   predecessor with one, and that one extends. *)
LEMMA SumsExist ==
  ASSUME NEW S, IsFiniteSet(S), NEW f
  PROVE  \E g : g = [s \in SUBSET S |-> g[s]] /\ Sums(g, f, SUBSET S)
<1> DEFINE Summed(k) == \E g : /\ g = [s \in SmallSubsets(S, k) |-> g[s]]
                               /\ Sums(g, f, SmallSubsets(S, k))
<1>1. Summed(0)
  <2> DEFINE g == [s \in SmallSubsets(S, 0) |-> 0]
  <2>1. \A s \in SmallSubsets(S, 0) : s = {} /\ g[s] = 0
    BY SmallSubsetFacts
  <2>2. g = [s \in SmallSubsets(S, 0) |-> g[s]]
    OBVIOUS
  <2> HIDE DEF g
  <2> QED BY <2>1, <2>2 DEF Sums
<1>2. ASSUME NEW k \in Nat, Summed(k) PROVE Summed(k + 1)
  <2>1. PICK g : /\ g = [s \in SmallSubsets(S, k) |-> g[s]]
                 /\ Sums(g, f, SmallSubsets(S, k))
    BY <1>2
  <2> DEFINE D == SmallSubsets(S, k + 1)
             h == [s \in D |-> IF s = {} THEN 0 ELSE f[Pick(s)] + g[s \ {Pick(s)}]]
  <2>2. ASSUME NEW s \in D, s # {}
        PROVE  s \ {Pick(s)} \in SmallSubsets(S, k) /\ s \ {Pick(s)} \in D
    <3>1. s \in SUBSET S /\ Cardinality(s) <= k + 1
      BY DEF SmallSubsets
    <3>2. /\ Cardinality(s) \in Nat
          /\ s \ {Pick(s)} \in SUBSET S
          /\ Cardinality(s \ {Pick(s)}) = Cardinality(s) - 1
      BY <2>2, <3>1, SmallSubsetFacts
    <3> QED BY <3>1, <3>2 DEF SmallSubsets
  <2>3. \A s \in SmallSubsets(S, k) : s \in D /\ h[s] = g[s]
    <3>1. SmallSubsets(S, k) \subseteq D
      BY SmallSubsetFacts DEF SmallSubsets
    <3> QED BY <2>1, <3>1 DEF Sums
  <2>4. h = [s \in D |-> h[s]]
    OBVIOUS
  <2>5. \A s \in D : h[s] = IF s = {} THEN 0 ELSE f[Pick(s)] + g[s \ {Pick(s)}]
    OBVIOUS
  <2> HIDE DEF h, D
  <2>6. Sums(h, f, D)
    BY <2>2, <2>3, <2>5 DEF Sums
  <2> QED BY <2>4, <2>6 DEF D
<1> HIDE DEF Summed
<1>3. Summed(Cardinality(S))
  <2> DEFINE Bad == {k \in Nat : ~Summed(k)}
             less == OpToRel(<, Nat)
  <2>1. SUFFICES ASSUME Bad # {} PROVE FALSE
    BY FS_CardinalityType
  <2>2. IsWellFoundedOn(less, Nat)
    BY NatLessThanWellFounded
  <2>3. \A x, y \in Nat : x < y => <<x, y>> \in less
    BY DEF OpToRel
  <2> HIDE DEF less
  <2>4. PICK x \in Bad : \A y \in Bad : <<y, x>> \notin less
    <3>1. Bad \in SUBSET Nat
      OBVIOUS
    <3> HIDE DEF Bad
    <3> QED BY <2>1, <2>2, <3>1, WFMin
  <2>5. x \in Nat /\ ~Summed(x)
    BY <2>4
  <2>6. x # 0
    BY <1>1, <2>5
  <2>7. x - 1 \in Nat /\ x - 1 < x /\ (x - 1) + 1 = x
    BY <2>5, <2>6
  <2>8. x - 1 \notin Bad
    BY <2>3, <2>4, <2>5, <2>7
  <2>9. Summed(x)
    BY <1>2, <2>7, <2>8
  <2> QED BY <2>5, <2>9
<1>4. PICK g : /\ g = [s \in SmallSubsets(S, Cardinality(S)) |-> g[s]]
               /\ Sums(g, f, SmallSubsets(S, Cardinality(S)))
  BY <1>3 DEF Summed
<1>5. SmallSubsets(S, Cardinality(S)) = SUBSET S
  BY SmallSubsetFacts, FS_CardinalityType
<1> QED BY <1>4, <1>5

(* A sum of natural numbers is one. *)
LEMMA SumType ==
  ASSUME NEW S, IsFiniteSet(S), NEW f, f \in [S -> Nat]
  PROVE  SumFunction(f) \in Nat
<1>0. \E h : h = [s \in SUBSET S |-> IF s = {} THEN 0 ELSE f[Pick(s)] + h[s \ {Pick(s)}]]
  <2>1. PICK g : g = [s \in SUBSET S |-> g[s]] /\ Sums(g, f, SUBSET S)
    BY SumsExist
  <2>2. \A s \in SUBSET S : g[s] = IF s = {} THEN 0 ELSE f[Pick(s)] + g[s \ {Pick(s)}]
    BY <2>1 DEF Sums
  <2>3. g = [s \in SUBSET S |-> IF s = {} THEN 0 ELSE f[Pick(s)] + g[s \ {Pick(s)}]]
    BY <2>1, <2>2
  <2> QED BY <2>3
<1> DEFINE g == CHOOSE h : h = [s \in SUBSET S |->
                  IF s = {} THEN 0 ELSE f[Pick(s)] + h[s \ {Pick(s)}]]
<1>1. SumFunction(f) = g[S]
  BY DEF SumFunction, SumFunctionOnSet, FoldFunctionOnSet, MapThenFoldSet, Pick
<1>2. g = [s \in SUBSET S |-> IF s = {} THEN 0 ELSE f[Pick(s)] + g[s \ {Pick(s)}]]
  BY <1>0
<1> HIDE DEF g
<1>3. Sums(g, f, SUBSET S)
  BY <1>2 DEF Sums
<1> DEFINE Bad == {k \in Nat : \E s \in SUBSET S : Cardinality(s) = k /\ g[s] \notin Nat}
           less == OpToRel(<, Nat)
<1>4. SUFFICES ASSUME Bad # {} PROVE FALSE
  BY <1>1, FS_CardinalityType
<1>5. IsWellFoundedOn(less, Nat)
  BY NatLessThanWellFounded
<1>6. \A x, y \in Nat : x < y => <<x, y>> \in less
  BY DEF OpToRel
<1> HIDE DEF less
<1>7. PICK k \in Bad : \A j \in Bad : <<j, k>> \notin less
  <2>1. Bad \in SUBSET Nat
    OBVIOUS
  <2> HIDE DEF Bad
  <2> QED BY <1>4, <1>5, <2>1, WFMin
<1>8. PICK s \in SUBSET S : Cardinality(s) = k /\ g[s] \notin Nat
  BY <1>7
<1>9. s # {}
  <2>1. g[{}] = 0
    BY <1>3 DEF Sums
  <2> QED BY <1>8, <2>1
<1> DEFINE t == s \ {Pick(s)}
<1>10. /\ Pick(s) \in s /\ t \in SUBSET S
       /\ Cardinality(t) = Cardinality(s) - 1 /\ Cardinality(t) \in Nat /\ k \in Nat
  BY <1>8, <1>9, SmallSubsetFacts
<1>11. g[t] \in Nat
  <2>1. Cardinality(t) < k
    BY <1>8, <1>10
  <2>2. Cardinality(t) \notin Bad
    BY <1>6, <1>7, <1>10, <2>1
  <2> QED BY <1>10, <2>2
<1>12. g[s] = f[Pick(s)] + g[t]
  BY <1>3, <1>9 DEF Sums
<1>13. f[Pick(s)] \in Nat
  BY <1>10
<1> QED BY <1>8, <1>11, <1>12, <1>13

----------------------------------------------------------------------------
(* The worst of several *)

(* Comparing a mean with one, and that with another, compares the two. *)
LEMMA MeansCompare ==
  ASSUME NEW a \in Nat, NEW b \in Nat, NEW c \in Nat, NEW d \in Nat \ {0},
         NEW e \in Nat, NEW f \in Nat,
         a * d >= c * b, c * f >= e * d
  PROVE  a * f >= e * b
<1>1. (a * d) * f >= (c * b) * f
  <2> DEFINE x == a * d
             y == c * b
  <2>1. x \in Nat /\ y \in Nat /\ x >= y
    OBVIOUS
  <2> HIDE DEF x, y
  <2>2. x * f >= y * f
    BY <2>1
  <2> QED BY <2>2 DEF x, y
<1>2. (c * f) * b >= (e * d) * b
  <2> DEFINE x == c * f
             y == e * d
  <2>1. x \in Nat /\ y \in Nat /\ x >= y
    OBVIOUS
  <2> HIDE DEF x, y
  <2>2. x * b >= y * b
    BY <2>1
  <2> QED BY <2>2 DEF x, y
<1>3. (c * b) * f = (c * f) * b
  OBVIOUS
<1>4. (a * d) * f = d * (a * f) /\ (e * d) * b = d * (e * b)
  OBVIOUS
<1> DEFINE p == a * f
           q == e * b
<1>5. p \in Nat /\ q \in Nat
  OBVIOUS
<1>6. d * p >= d * q
  <2>1. (a * d) * f \in Nat /\ (c * b) * f \in Nat /\ (e * d) * b \in Nat
    OBVIOUS
  <2> QED BY <1>1, <1>2, <1>3, <1>4, <2>1
<1> HIDE DEF p, q
<1>7. SUFFICES ASSUME p + 1 <= q PROVE FALSE
  BY <1>5 DEF p, q
<1>8. d * (p + 1) <= d * q
  BY <1>5, <1>7
<1>9. d * (p + 1) = d * p + d
  BY <1>5
<1> QED BY <1>5, <1>6, <1>8, <1>9

LEMMA DomainIsFinite ==
  ASSUME NEW S, NEW s \in Seq(S)
  PROVE  IsFiniteSet(DOMAIN s)
<1>1. DOMAIN s = 1..Len(s) /\ Len(s) \in Int /\ 1 \in Int
  OBVIOUS
<1>2. IsFiniteSet(1..Len(s))
  BY <1>1, FS_Interval
<1> QED BY <1>1, <1>2

(* What a function makes of a finite set is finite. *)
LEMMA ImageIsFinite ==
  ASSUME NEW S, IsFiniteSet(S), NEW f
  PROVE  IsFiniteSet({f[x] : x \in S})
<1> DEFINE T == {f[x] : x \in S}
           g == [x \in S |-> f[x]]
<1>1. g \in Surjection(S, T)
  BY DEF Surjection
<1> HIDE DEF g, T
<1>2. IsFiniteSet(T)
  BY <1>1, FS_Surjection
<1> QED BY <1>2 DEF T

LEMMA SpanSets ==
  ASSUME NEW d \in Database
  PROVE  /\ d.spans \in Seq(Span) /\ IsFiniteSet(DOMAIN d.spans)
         /\ NodeSpans(d) \subseteq DOMAIN d.spans
         /\ DbSpans(d) \subseteq NodeSpans(d)
         /\ ErrorSpans(d) \subseteq NodeSpans(d)
         /\ IsFiniteSet(NodeSpans(d)) /\ IsFiniteSet(DbSpans(d)) /\ IsFiniteSet(ErrorSpans(d))
<1>1. d.spans \in Seq(Span)
  BY DEF Database
<1>2. IsFiniteSet(DOMAIN d.spans)
  BY <1>1, DomainIsFinite
<1>3. /\ NodeSpans(d) \subseteq DOMAIN d.spans
      /\ DbSpans(d) \subseteq NodeSpans(d)
      /\ ErrorSpans(d) \subseteq NodeSpans(d)
  BY DEF NodeSpans, DbSpans, ErrorSpans
<1> QED BY <1>1, <1>2, <1>3, FS_Subset

LEMMA DurationType ==
  ASSUME NEW d \in Database, NEW S, S \subseteq DOMAIN d.spans
  PROVE  TotalDuration(S, d) \in Nat
<1> DEFINE f == [i \in S |-> d.spans[i].duration]
<1>1. \A i \in DOMAIN d.spans : d.spans[i] \in Span
  BY SpanSets
<1>2. f \in [S -> Nat]
  BY <1>1 DEF Span
<1>3. IsFiniteSet(S)
  BY SpanSets, FS_Subset
<1> HIDE DEF f
<1>4. SumFunction(f) \in Nat
  BY <1>2, <1>3, SumType
<1> QED BY <1>4 DEF f, TotalDuration

(* What is known of the spans with a statement. *)
LEMMA StatementFacts ==
  ASSUME NEW d \in Database, NEW s \in Statements(DbSpans(d), d)
  PROVE  /\ TotalDuration(WithStatement(DbSpans(d), d, s), d) \in Nat
         /\ Cardinality(WithStatement(DbSpans(d), d, s)) \in Nat \ {0}
<1> DEFINE S == WithStatement(DbSpans(d), d, s)
<1>1. S \subseteq DbSpans(d) /\ S # {}
  BY DEF WithStatement, Statements
<1>2. S \subseteq DOMAIN d.spans /\ IsFiniteSet(S)
  BY <1>1, SpanSets, FS_Subset
<1>3. TotalDuration(S, d) \in Nat
  BY <1>2, DurationType
<1>4. Cardinality(S) \in Nat /\ Cardinality(S) # 0
  BY <1>1, <1>2, FS_CardinalityType, FS_EmptySet
<1> QED BY <1>3, <1>4

LEMMA StatementsAreFinite ==
  ASSUME NEW d \in Database
  PROVE  IsFiniteSet(Statements(DbSpans(d), d))
<1> DEFINE all == {d.spans[i].statement : i \in DbSpans(d)}
<1>1. IsFiniteSet(all)
  <2> DEFINE f == [i \in DbSpans(d) |-> d.spans[i].statement]
  <2>1. all = {f[i] : i \in DbSpans(d)}
    OBVIOUS
  <2> HIDE DEF f, all
  <2> QED BY <2>1, SpanSets, ImageIsFinite
<1>2. Statements(DbSpans(d), d) \subseteq all
  BY DEF Statements
<1> QED BY <1>1, <1>2, FS_Subset

(* Of several statements one is the slowest, and Slowest is such a one. *)
LEMMA SlowestProperties ==
  ASSUME NEW d \in Database, Statements(DbSpans(d), d) # {}
  PROVE  /\ Slowest(d) \in Statements(DbSpans(d), d)
         /\ \A t \in Statements(DbSpans(d), d) : AtLeastAsSlow(d, Slowest(d), t)
<1> DEFINE S == Statements(DbSpans(d), d)
           T(s) == TotalDuration(WithStatement(DbSpans(d), d, s), d)
           N(s) == Cardinality(WithStatement(DbSpans(d), d, s))
           R == {p \in S \X S : AtLeastAsSlow(d, p[1], p[2])}
<1>1. \A s \in S : T(s) \in Nat /\ N(s) \in Nat \ {0}
  BY StatementFacts
<1>2. \A s, t \in S : AtLeastAsSlow(d, s, t) <=> T(s) * N(t) >= T(t) * N(s)
  BY DEF AtLeastAsSlow
<1> HIDE DEF T, N
<1>3. \A s, t \in S : <<s, t>> \in R <=> T(s) * N(t) >= T(t) * N(s)
  BY <1>2
<1>4. \A s, t \in S : <<s, t>> \in R \/ <<t, s>> \in R
  <2> TAKE s, t \in S
  <2> DEFINE x == T(s) * N(t)
             y == T(t) * N(s)
  <2>1. x \in Nat /\ y \in Nat
    BY <1>1
  <2>2. x >= y \/ y >= x
    <3> HIDE DEF x, y
    <3> QED BY <2>1
  <2> QED BY <1>3, <2>2
<1>5. \A s, t, u \in S : <<s, t>> \in R /\ <<t, u>> \in R => <<s, u>> \in R
  <2> TAKE s, t, u \in S
  <2> HAVE <<s, t>> \in R /\ <<t, u>> \in R
  <2>1. T(s) * N(t) >= T(t) * N(s) /\ T(t) * N(u) >= T(u) * N(t)
    BY <1>3
  <2>2. T(s) * N(u) >= T(u) * N(s)
    BY <1>1, <2>1, MeansCompare
  <2> QED BY <1>3, <2>2
<1>6. IsFiniteSet(S)
  BY StatementsAreFinite
<1> HIDE DEF R
<1>7. \E s \in S : \A t \in S : <<s, t>> \in R
  <2> HIDE DEF S
  <2> QED BY <1>4, <1>5, <1>6, FirstExists DEF S
<1>8. \E s \in S : \A t \in S : AtLeastAsSlow(d, s, t)
  BY <1>2, <1>3, <1>7
<1> QED BY <1>8 DEF Slowest

LEMMA BaselineType ==
  ASSUME NEW d \in Database
  PROVE  BaselineMs(d) \in Nat
<1>1. d.latency_baseline \in Seq(Baseline)
  BY DEF Database
<1>2. CASE d.latency_baseline # <<>>
  <2>1. d.latency_baseline[1] \in Baseline
    BY <1>1, <1>2
  <2> QED BY <1>2, <2>1 DEF BaselineMs, Baseline
<1> QED BY <1>2 DEF BaselineMs

(* A statement that is far slower makes the slowest far slower. *)
LEMMA SlowQueryIsWorst ==
  ASSUME NEW d \in Database, Statements(DbSpans(d), d) # {}
  PROVE  SlowQuery(d).strength = "STRONG" <=>
           /\ BaselineMs(d) > 0
           /\ \E s \in Statements(DbSpans(d), d) : IsFarSlower(d, s)
<1> DEFINE S == Statements(DbSpans(d), d)
           T(s) == TotalDuration(WithStatement(DbSpans(d), d, s), d)
           N(s) == Cardinality(WithStatement(DbSpans(d), d, s))
           m == Slowest(d)
           b == 3 * BaselineMs(d)
<1>1. b \in Nat
  BY BaselineType
<1>2. \A s \in S : T(s) \in Nat /\ N(s) \in Nat \ {0}
  BY StatementFacts
<1>3. m \in S /\ \A s \in S : T(m) * N(s) >= T(s) * N(m)
  BY SlowestProperties DEF AtLeastAsSlow
<1>4. \A s : IsFarSlower(d, s) <=> T(s) >= b * N(s)
  BY DEF IsFarSlower
<1> HIDE DEF T, N, m, b
<1>5. ASSUME NEW s \in S, IsFarSlower(d, s) PROVE IsFarSlower(d, m)
  <2>1. T(s) * 1 >= b * N(s)
    BY <1>2, <1>4, <1>5
  <2>2. T(m) * 1 >= b * N(m)
    BY <1>1, <1>2, <1>3, <2>1, MeansCompare
  <2> QED BY <1>2, <1>3, <1>4, <2>2
<1>6. (\E s \in S : IsFarSlower(d, s)) <=> IsFarSlower(d, m)
  BY <1>3, <1>5
<1>7. SlowQuery(d).strength = "STRONG" <=> BaselineMs(d) > 0 /\ IsFarSlower(d, m)
  BY DEF SlowQuery, Item, m
<1> QED BY <1>6, <1>7

LEMMA CallSets ==
  ASSUME NEW d \in Dependency
  PROVE  /\ d.calls \in Seq(Call)
         /\ Calls(d) \subseteq DOMAIN d.calls /\ IsFiniteSet(Calls(d))
         /\ IsFiniteSet(FiveXX(d))
         /\ Cardinality(Calls(d)) \in Nat
         /\ \A code : Cardinality(WithStatus(d, code)) \in Nat
<1>1. d.calls \in Seq(Call)
  BY DEF Dependency
<1>2. IsFiniteSet(DOMAIN d.calls)
  BY <1>1, DomainIsFinite
<1>3. Calls(d) \subseteq DOMAIN d.calls /\ IsFiniteSet(Calls(d))
  BY <1>2, FS_Subset DEF Calls
<1>4. IsFiniteSet(FiveXX(d))
  <2> DEFINE all == {d.calls[i].status : i \in Calls(d)}
  <2>1. IsFiniteSet(all)
    <3> DEFINE f == [i \in Calls(d) |-> d.calls[i].status]
    <3>1. all = {f[i] : i \in Calls(d)}
      OBVIOUS
    <3> HIDE DEF f, all
    <3> QED BY <1>3, <3>1, ImageIsFinite
  <2>2. FiveXX(d) \subseteq all
    BY DEF FiveXX
  <2> QED BY <2>1, <2>2, FS_Subset
<1>5. \A code : IsFiniteSet(WithStatus(d, code))
  BY <1>3, FS_Subset DEF WithStatus
<1> QED BY <1>1, <1>3, <1>4, <1>5, FS_CardinalityType

(* Of several codes one is the most common, and decides. *)
LEMMA MostCommonDecides ==
  ASSUME NEW d \in Dependency, FiveXX(d) # {}
  PROVE  HttpError(d).strength = "STRONG" <=>
           \E code \in FiveXX(d) :
             2 * Cardinality(WithStatus(d, code)) >= Cardinality(Calls(d))
<1> DEFINE S == FiveXX(d)
           N(c) == Cardinality(WithStatus(d, c))
           R == {p \in S \X S : N(p[1]) >= N(p[2])}
           m == MostCommon(d)
<1>1. \A c : N(c) \in Nat
  BY CallSets
<1>2. MostCommon(d) = CHOOSE c \in S : \A e \in S : N(c) >= N(e)
  BY DEF MostCommon
<1> HIDE DEF N
<1>3. \A c, e \in S : <<c, e>> \in R <=> N(c) >= N(e)
  OBVIOUS
<1>4. \A c, e \in S : <<c, e>> \in R \/ <<e, c>> \in R
  <2> TAKE c, e \in S
  <2>1. N(c) >= N(e) \/ N(e) >= N(c)
    BY <1>1
  <2> QED BY <1>3, <2>1
<1>5. \A c, e, f \in S : <<c, e>> \in R /\ <<e, f>> \in R => <<c, f>> \in R
  BY <1>1, <1>3
<1>6. IsFiniteSet(S)
  BY CallSets
<1> HIDE DEF R
<1>7. \E c \in S : \A e \in S : <<c, e>> \in R
  <2> HIDE DEF S
  <2> QED BY <1>4, <1>5, <1>6, FirstExists DEF S
<1>8. m \in S /\ \A e \in S : N(m) >= N(e)
  BY <1>2, <1>3, <1>7
<1>9. HttpError(d).strength = "STRONG" <=> 2 * N(m) >= Cardinality(Calls(d))
  BY DEF HttpError, Item, N
<1>10. Cardinality(Calls(d)) \in Nat
  BY CallSets
<1> HIDE DEF m
<1>11. (2 * N(m) >= Cardinality(Calls(d))) <=> \E c \in S : 2 * N(c) >= Cardinality(Calls(d))
  BY <1>1, <1>8, <1>10
<1> QED BY <1>9, <1>11 DEF N

----------------------------------------------------------------------------
(* The invariant *)

IInv ==
  /\ TypeOK
  /\ stage = "start" => failure_type = "UNKNOWN"
  /\ stage = "classified" =>
       IsDatabase("relational") /\ failure_type = RelationalType(incident)
  /\ stage \in {"investigated", "done"} => Rests

USE EnginesAssumption

LEMMA IncidentTypes ==
  ASSUME incident \in Databases \cup Dependencies
  PROVE  /\ incident \in Database \cup Dependency
         /\ incident.type = "DATABASE" <=> incident \in Database
         /\ incident.type # "DATABASE" <=> incident.type = "EXTERNAL_DEP"
BY DEF Database, Dependency

LEMMA InitInv == Init => IInv
<1> SUFFICES ASSUME Init PROVE IInv
  OBVIOUS
<1>1. priority_score \in 0..100
  BY DEF Init
<1>2. evidence \in Seq(EvidenceItem)
  BY DEF Init
<1> QED BY <1>1, <1>2, IncidentTypes DEF Init, IInv, TypeOK, DatabaseTypes, EvidenceItem

LEMMA NextInv ==
  ASSUME IInv, [Next]_vars
  PROVE  IInv'
<1>1. CASE Fail
  <2>1. TypeOK'
    <3>1. priority_score' \in 0..100
      BY <1>1, PriorityTypes DEF Fail, IInv, TypeOK, PRIORITY_PENALTY_MISSING
    <3>2. evidence' \in Seq(EvidenceItem)
      BY <1>1, ItemTypes DEF Fail
    <3> QED BY <1>1, <3>1, <3>2 DEF Fail, IInv, TypeOK, DatabaseTypes, IsDatabase, EvidenceItem
  <2>2. Rests'
    BY <1>1, OnlyMissing DEF Fail, Rests, DatabaseRests, IsDatabase
  <2> QED BY <1>1, <2>1, <2>2 DEF Fail, IInv
<1>2. CASE Classify
  <2>1. TypeOK'
    BY <1>2 DEF Classify, IInv, TypeOK, DatabaseTypes, IsDatabase, RelationalType
  <2> QED BY <1>2, <2>1 DEF Classify, IInv, IsDatabase
<1>3. CASE Emit
  <2>1. TypeOK'
    BY <1>3, RelationalEvidenceType DEF Emit, IInv, TypeOK, EvidenceItem, IsDatabase
  <2>2. Rests'
    BY <1>3, RelationalHas DEF Emit, IInv, Rests, DatabaseRests, IsDatabase, RelationalType
  <2> QED BY <1>3, <2>1, <2>2 DEF Emit, IInv
<1>4. CASE InvestigateCache
  <2>1. TypeOK'
    BY <1>4, CacheEvidenceType
       DEF InvestigateCache, IInv, TypeOK, EvidenceItem, IsDatabase, CacheType, DatabaseTypes
  <2>2. Rests'
    BY <1>4, CacheHas DEF InvestigateCache, Rests, DatabaseRests, IsDatabase, CacheType
  <2> QED BY <1>4, <2>1, <2>2 DEF InvestigateCache, IInv
<1>5. CASE InvestigateGeneric
  <2>1. TypeOK'
    BY <1>5, GenericEvidenceType
       DEF InvestigateGeneric, IInv, TypeOK, EvidenceItem, IsDatabase, DatabaseTypes
  <2>2. Rests'
    BY <1>5, GenericHas DEF InvestigateGeneric, Rests, DatabaseRests, IsDatabase
  <2> QED BY <1>5, <2>1, <2>2 DEF InvestigateGeneric, IInv
<1>6. CASE InvestigateDependency
  <2>1. TypeOK'
    BY <1>6, DependencyEvidenceType
       DEF InvestigateDependency, IInv, TypeOK, EvidenceItem, DependencyType, DependencyTypes
  <2>2. Rests'
    <3>1. incident \in Dependency /\ incident' = incident
      BY <1>6 DEF InvestigateDependency, IInv, TypeOK, Database
    <3>2. DependencyRests'
      <4>1. /\ failure_type' = DependencyType(incident)
            /\ evidence' = DependencyEvidence(incident)
        BY <1>6 DEF InvestigateDependency
      <4> QED
        <5>1. /\ DependencyType(incident) = "UPSTREAM_OUTAGE" => Answered(incident, 500..599)
              /\ DependencyType(incident) = "RATE_LIMITED" =>
                   Answered(incident, {429}) /\ ~Answered(incident, 500..599)
              /\ DependencyType(incident) = "TIMEOUT" =>
                   RanOut(incident) /\ ~Answered(incident, 500..599 \cup {429})
              /\ DependencyType(incident) = "EXTERNAL_DEP_FAILURE" =>
                   ~RanOut(incident) /\ ~Answered(incident, 500..599 \cup {429})
          BY <3>1, DependencyShows, Zenon
        <5>2. /\ failure_type' = "UPSTREAM_OUTAGE" <=> Has(evidence', "http_error_pattern")
              /\ Has(evidence', "all_callers_affected")
              /\ Has(evidence', "missing_telemetry") => failure_type' = "EXTERNAL_DEP_FAILURE"
          BY <4>1, DependencyHas
        <5>3. CASE failure_type' = "UPSTREAM_OUTAGE"
          BY <3>1, <4>1, <5>1, <5>2, <5>3 DEF DependencyRests
        <5>4. CASE failure_type' = "RATE_LIMITED"
          BY <3>1, <4>1, <5>1, <5>2, <5>4 DEF DependencyRests
        <5>5. CASE failure_type' = "TIMEOUT"
          BY <3>1, <4>1, <5>1, <5>2, <5>5 DEF DependencyRests
        <5>6. CASE failure_type' = "EXTERNAL_DEP_FAILURE"
          BY <3>1, <4>1, <5>1, <5>2, <5>6 DEF DependencyRests
        <5> QED
          BY <4>1, <5>3, <5>4, <5>5, <5>6 DEF DependencyType
    <3> QED
      BY <1>6, <3>1, <3>2 DEF InvestigateDependency, Rests
  <2> QED BY <1>6, <2>1, <2>2 DEF InvestigateDependency, IInv
<1>7. CASE Prioritise
  <2>1. priority_score' \in 0..100
    BY <1>7, PriorityTypes
       DEF Prioritise, IInv, TypeOK, DatabasePriority, DependencyPriority,
           PRIORITY_BOOST_STRONG, PRIORITY_BOOST_MODERATE, PRIORITY_PENALTY_MISSING,
           PRIORITY_BOOST_ALL_CALLERS, PRIORITY_BOOST_PARTIAL, PRIORITY_PENALTY_NO_EVIDENCE
  <2>2. TypeOK' /\ Rests'
    BY <1>7, <2>1 DEF Prioritise, IInv, TypeOK, Rests, DatabaseRests, DependencyRests, IsDatabase
  <2> QED BY <1>7, <2>2 DEF Prioritise, IInv
<1>8. CASE Returned \/ UNCHANGED vars
  <2>1. UNCHANGED vars
    BY <1>8 DEF Returned
  <2>2. TypeOK'
    BY <2>1 DEF vars, IInv, TypeOK
  <2>3. Rests' <=> Rests
    BY <2>1 DEF vars, Rests, DatabaseRests, DependencyRests, IsDatabase
  <2> QED BY <2>1, <2>2, <2>3 DEF vars, IInv, IsDatabase
<1> QED BY <1>1, <1>2, <1>3, <1>4, <1>5, <1>6, <1>7, <1>8 DEF Next

LEMMA Invariance == Spec => []IInv
<1>1. Init => IInv
  BY InitInv
<1>2. IInv /\ [Next]_vars => IInv'
  BY NextInv
<1> QED BY <1>1, <1>2, PTL DEF Spec

(* The variables of an investigation keep to their types. *)
THEOREM TypeCorrect == Spec => []TypeOK
<1>1. IInv => TypeOK
  BY DEF IInv
<1> QED BY <1>1, Invariance, PTL

(* No engine names a cause without evidence for it, but in the one case that
   TypeRestsOnEvidence tells. *)
THEOREM TypesRest == Spec => []TypeRestsOnEvidence
<1>1. IInv => TypeRestsOnEvidence
  BY DEF IInv, TypeRestsOnEvidence
<1> QED BY <1>1, Invariance, PTL

----------------------------------------------------------------------------
(* What is blanked outside the window *)

(* Every event keeps what tells when and of what it is; in the window it keeps
   all. *)
LEMMA BlankSpan ==
  ASSUME NEW e \in Span
  PROVE  /\ Blank(e) \in Span
         /\ Blank(e).at = e.at /\ Blank(e).system = e.system
         /\ Blank(e).named = e.named /\ Blank(e).statement = e.statement
         /\ InWindow(e) => Blank(e) = e
<1>1. "emitter" \notin DOMAIN e /\ "duration" \in DOMAIN e
  BY DEF Span
<1>2. e.at \in Int
  BY DEF Span
<1>3. InWindow(e) <=> 0 <= e.at /\ e.at <= 300
  BY <1>2 DEF InWindow, INCIDENT_WINDOW_SECONDS
<1>4. CASE InWindow(e)
  BY <1>3, <1>4 DEF Blank
<1>5. CASE ~InWindow(e)
  <2>1. Blank(e) = [e EXCEPT !.error = FALSE, !.exceptions = {}, !.duration = 0]
    BY <1>1, <1>3, <1>5 DEF Blank
  <2>2. Blank(e) = [system |-> e.system, named |-> e.named, at |-> e.at, error |-> FALSE,
                    duration |-> 0, statement |-> e.statement, exceptions |-> {}]
    BY <2>1 DEF Span
  <2>3. /\ e.system \in Systems \cup {"none"} /\ e.named \in BOOLEAN
        /\ e.statement \in STRING
    BY DEF Span
  <2>4. Blank(e) \in Span
    BY <1>2, <2>2, <2>3 DEF Span
  <2> QED BY <1>5, <2>2, <2>4
<1> QED BY <1>4, <1>5

LEMMA BlankCallerSpan ==
  ASSUME NEW e \in CallerSpan
  PROVE  /\ Blank(e) \in CallerSpan
         /\ Blank(e).at = e.at
         /\ InWindow(e) => Blank(e) = e
<1>1. "emitter" \notin DOMAIN e /\ "duration" \notin DOMAIN e
  BY DEF CallerSpan
<1>2. e.at \in Int
  BY DEF CallerSpan
<1>3. InWindow(e) <=> 0 <= e.at /\ e.at <= 300
  BY <1>2 DEF InWindow, INCIDENT_WINDOW_SECONDS
<1>4. CASE InWindow(e)
  BY <1>3, <1>4 DEF Blank
<1>5. CASE ~InWindow(e)
  <2>1. Blank(e) = [e EXCEPT !.exceptions = {}]
    BY <1>1, <1>3, <1>5 DEF Blank
  <2> QED BY <1>5, <2>1 DEF CallerSpan
<1> QED BY <1>4, <1>5

LEMMA BlankCall ==
  ASSUME NEW e \in Call
  PROVE  /\ Blank(e) \in Call
         /\ Blank(e).at = e.at
         /\ InWindow(e) => Blank(e) = e
<1>1. "emitter" \in DOMAIN e
  BY DEF Call
<1>2. e.at \in Int
  BY DEF Call
<1>3. InWindow(e) <=> 0 <= e.at /\ e.at <= 300
  BY <1>2 DEF InWindow, INCIDENT_WINDOW_SECONDS
<1>4. CASE InWindow(e)
  BY <1>3, <1>4 DEF Blank
<1>5. CASE ~InWindow(e)
  <2>1. Blank(e) = [e EXCEPT !.error = FALSE, !.status = 0, !.timeout = FALSE]
    BY <1>1, <1>3, <1>5 DEF Blank
  <2>2. Blank(e) = [emitter |-> e.emitter, at |-> e.at, error |-> FALSE, status |-> 0,
                    timeout |-> FALSE]
    BY <2>1 DEF Call
  <2>3. e.emitter \in STRING
    BY DEF Call
  <2>4. Blank(e) \in Call
    BY <1>2, <2>2, <2>3 DEF Call
  <2> QED BY <1>5, <2>2, <2>4
<1> QED BY <1>4, <1>5

LEMMA BlankAllType ==
  ASSUME NEW S, NEW s \in Seq(S), \A e \in S : Blank(e) \in S
  PROVE  /\ BlankAll(s) \in Seq(S)
         /\ DOMAIN BlankAll(s) = DOMAIN s
         /\ \A i \in DOMAIN s : BlankAll(s)[i] = Blank(s[i])
<1>1. DOMAIN s = 1..Len(s) /\ Len(s) \in Nat /\ \A i \in 1..Len(s) : s[i] \in S
  OBVIOUS
<1>2. BlankAll(s) = [i \in 1..Len(s) |-> Blank(s[i])]
  BY <1>1 DEF BlankAll
<1> QED BY <1>1, <1>2

LEMMA BlankedDatabase ==
  ASSUME NEW d \in Database
  PROVE  LET b == Blanked(d)
         IN  /\ b \in Database
             /\ b.type = "DATABASE"
             /\ b.latency = d.latency
             /\ b.latency_baseline = d.latency_baseline
             /\ b.error_baseline = d.error_baseline
             /\ DOMAIN b.spans = DOMAIN d.spans
             /\ \A i \in DOMAIN d.spans : b.spans[i] = Blank(d.spans[i])
             /\ DOMAIN b.callers = DOMAIN d.callers
             /\ \A c \in DOMAIN d.callers :
                  /\ DOMAIN b.callers[c] = DOMAIN d.callers[c]
                  /\ \A i \in DOMAIN d.callers[c] :
                       b.callers[c][i] = Blank(d.callers[c][i])
<1> DEFINE callers == [c \in DOMAIN d.callers |-> BlankAll(d.callers[c])]
           b == [d EXCEPT !.spans = BlankAll(@), !.callers = callers]
<1>1. Blanked(d) = b
  BY DEF Blanked, Database
<1>2. /\ d.type = "DATABASE" /\ d.spans \in Seq(Span) /\ d.callers \in Seq(Seq(CallerSpan))
      /\ "spans" \in DOMAIN d /\ "callers" \in DOMAIN d
  BY DEF Database
<1>3. /\ BlankAll(d.spans) \in Seq(Span)
      /\ DOMAIN BlankAll(d.spans) = DOMAIN d.spans
      /\ \A i \in DOMAIN d.spans : BlankAll(d.spans)[i] = Blank(d.spans[i])
  BY <1>2, BlankSpan, BlankAllType
<1>4. /\ DOMAIN d.callers = 1..Len(d.callers) /\ Len(d.callers) \in Nat
      /\ \A c \in DOMAIN d.callers : d.callers[c] \in Seq(CallerSpan)
  BY <1>2
<1>5. \A c \in DOMAIN d.callers :
        /\ BlankAll(d.callers[c]) \in Seq(CallerSpan)
        /\ DOMAIN BlankAll(d.callers[c]) = DOMAIN d.callers[c]
        /\ \A i \in DOMAIN d.callers[c] : BlankAll(d.callers[c])[i] = Blank(d.callers[c][i])
  BY <1>4, BlankCallerSpan, BlankAllType
<1>6. callers \in Seq(Seq(CallerSpan))
  BY <1>4, <1>5
<1>7. b \in Database /\ b.spans = BlankAll(d.spans) /\ b.callers = callers
  <2> HIDE DEF callers
  <2> QED BY <1>3, <1>6 DEF Database
<1>8. /\ b.type = "DATABASE" /\ b.latency = d.latency
      /\ b.latency_baseline = d.latency_baseline /\ b.error_baseline = d.error_baseline
  BY DEF Database
<1> HIDE DEF b
<1> QED BY <1>1, <1>3, <1>5, <1>7, <1>8 DEF callers

LEMMA BlankedDependency ==
  ASSUME NEW d \in Dependency
  PROVE  LET b == Blanked(d)
         IN  /\ b \in Dependency
             /\ b.type = "EXTERNAL_DEP"
             /\ b.callers = d.callers
             /\ DOMAIN b.calls = DOMAIN d.calls
             /\ \A i \in DOMAIN d.calls : b.calls[i] = Blank(d.calls[i])
<1> DEFINE b == [d EXCEPT !.calls = BlankAll(@)]
<1>1. Blanked(d) = b
  BY DEF Blanked, Dependency
<1>2. d.calls \in Seq(Call)
  BY DEF Dependency
<1>3. /\ BlankAll(d.calls) \in Seq(Call)
      /\ DOMAIN BlankAll(d.calls) = DOMAIN d.calls
      /\ \A i \in DOMAIN d.calls : BlankAll(d.calls)[i] = Blank(d.calls[i])
  BY <1>2, BlankCall, BlankAllType
<1>4. /\ b \in Dependency /\ b.calls = BlankAll(d.calls)
      /\ b.type = "EXTERNAL_DEP" /\ b.callers = d.callers
  BY <1>3 DEF Dependency
<1> QED BY <1>1, <1>3, <1>4

(* The kind of a database is that of the first span that tells. *)
LEMMA SystemType ==
  ASSUME NEW d \in Database
  PROVE  System(d) \in Systems
<1> DEFINE named == {i \in DOMAIN d.spans : d.spans[i].system \in Systems}
           k == CHOOSE i \in named : \A j \in named : i <= j
<1>1. CASE named = {}
  BY <1>1 DEF System, Systems
<1>2. CASE named # {}
  <2>1. named \in SUBSET Nat
    BY SpanSets
  <2>2. \E i \in named : \A j \in named : i <= j
    <3> HIDE DEF named
    <3> QED BY <1>2, <2>1, LeastExists
  <2>3. k \in named
    BY <2>2
  <2>4. System(d) = d.spans[k].system
    BY <1>2 DEF System
  <2> QED BY <2>3, <2>4
<1> QED BY <1>1, <1>2

(* The spans that count are the same, and look the same. *)
LEMMA SameSpans ==
  ASSUME NEW d \in Database
  PROVE  LET b == Blanked(d)
         IN  /\ System(b) = System(d)
             /\ NodeSpans(b) = NodeSpans(d)
             /\ \A i \in NodeSpans(d) : b.spans[i] = d.spans[i]
             /\ ErrorSpans(b) = ErrorSpans(d)
             /\ DbSpans(b) = DbSpans(d)
             /\ \A x : DatabaseSees(b, x) <=> DatabaseSees(d, x)
             /\ \A x : CallerSees(b, x) = CallerSees(d, x)
<1> DEFINE b == Blanked(d)
<1>1. /\ DOMAIN b.spans = DOMAIN d.spans
      /\ \A i \in DOMAIN d.spans : b.spans[i] = Blank(d.spans[i])
  BY BlankedDatabase
<1>2. /\ DOMAIN b.callers = DOMAIN d.callers
      /\ \A c \in DOMAIN d.callers :
           /\ DOMAIN b.callers[c] = DOMAIN d.callers[c]
           /\ \A i \in DOMAIN d.callers[c] : b.callers[c][i] = Blank(d.callers[c][i])
  BY BlankedDatabase
<1>3. \A i \in DOMAIN d.spans :
        /\ b.spans[i].at = d.spans[i].at
        /\ b.spans[i].system = d.spans[i].system
        /\ b.spans[i].named = d.spans[i].named
        /\ InWindow(d.spans[i]) => b.spans[i] = d.spans[i]
  <2>1. \A i \in DOMAIN d.spans : d.spans[i] \in Span
    BY SpanSets
  <2> HIDE DEF b
  <2> QED BY <1>1, <2>1, BlankSpan
<1>4. \A c \in DOMAIN d.callers : \A i \in DOMAIN d.callers[c] :
        /\ b.callers[c][i].at = d.callers[c][i].at
        /\ InWindow(d.callers[c][i]) => b.callers[c][i] = d.callers[c][i]
  <2>1. d.callers \in Seq(Seq(CallerSpan))
    BY DEF Database
  <2>2. \A c \in DOMAIN d.callers : \A i \in DOMAIN d.callers[c] : d.callers[c][i] \in CallerSpan
    BY <2>1
  <2> HIDE DEF b
  <2> QED BY <1>2, <2>2, BlankCallerSpan
<1> HIDE DEF b
<1>5. System(b) = System(d)
  <2> DEFINE named == {i \in DOMAIN d.spans : d.spans[i].system \in Systems}
  <2>1. named = {i \in DOMAIN b.spans : b.spans[i].system \in Systems}
    BY <1>1, <1>3
  <2>2. CASE named = {}
    BY <2>1, <2>2 DEF System
  <2>3. CASE named # {}
    <3> DEFINE k == CHOOSE i \in named : \A j \in named : i <= j
    <3>1. k \in DOMAIN d.spans
      <4>1. named \subseteq Nat
        <5>1. DOMAIN d.spans \subseteq Nat
          BY SpanSets
        <5> QED BY <5>1
      <4>2. \E i \in named : \A j \in named : i <= j
        <5> HIDE DEF named
        <5> QED BY <2>3, <4>1, LeastExists
      <4> QED BY <4>2
    <3>2. System(d) = d.spans[k].system
      BY <2>3 DEF System
    <3>3. System(b) = b.spans[k].system
      BY <2>1, <2>3 DEF System
    <3> HIDE DEF k
    <3> QED BY <1>3, <3>1, <3>2, <3>3
  <2> QED BY <2>2, <2>3
<1>6. NodeSpans(b) = NodeSpans(d)
  BY <1>1, <1>3 DEF NodeSpans, InWindow
<1>7. \A i \in NodeSpans(d) : b.spans[i] = d.spans[i]
  BY <1>3 DEF NodeSpans
<1>8. ErrorSpans(b) = ErrorSpans(d) /\ DbSpans(b) = DbSpans(d)
  BY <1>6, <1>7 DEF ErrorSpans, DbSpans
<1>9. \A x : DatabaseSees(b, x) <=> DatabaseSees(d, x)
  BY <1>7, <1>8, SpanSets DEF DatabaseSees
<1>10. \A x : CallerSees(b, x) = CallerSees(d, x)
  <2> TAKE x
  <2>1. ASSUME NEW c \in DOMAIN d.callers, NEW i \in DOMAIN d.callers[c]
        PROVE  /\ InWindow(b.callers[c][i]) <=> InWindow(d.callers[c][i])
               /\ InWindow(d.callers[c][i]) => b.callers[c][i] = d.callers[c][i]
    BY <1>4 DEF InWindow
  <2> QED BY <1>2, <2>1 DEF CallerSees
<1> QED BY <1>5, <1>6, <1>7, <1>8, <1>9, <1>10 DEF b

(* So are statements, totals and all that is computed from them. *)
LEMMA SameStatements ==
  ASSUME NEW d \in Database
  PROVE  LET b == Blanked(d)
         IN  /\ Statements(DbSpans(b), b) = Statements(DbSpans(d), d)
             /\ Statements(ErrorSpans(b), b) = Statements(ErrorSpans(d), d)
             /\ BaselineMs(b) = BaselineMs(d)
             /\ \A s : IsFarSlower(b, s) <=> IsFarSlower(d, s)
<1> DEFINE b == Blanked(d)
<1>1. /\ DbSpans(b) = DbSpans(d) /\ ErrorSpans(b) = ErrorSpans(d)
      /\ \A i \in NodeSpans(d) : b.spans[i] = d.spans[i]
  BY SameSpans
<1>2. DbSpans(d) \subseteq NodeSpans(d) /\ ErrorSpans(d) \subseteq NodeSpans(d)
  BY SpanSets
<1>3. BaselineMs(b) = BaselineMs(d)
  BY BlankedDatabase DEF BaselineMs
<1> HIDE DEF b
<1>4. ASSUME NEW S \in SUBSET NodeSpans(d)
      PROVE  Statements(S, b) = Statements(S, d)
  BY <1>1 DEF Statements
<1>5. ASSUME NEW s PROVE IsFarSlower(b, s) <=> IsFarSlower(d, s)
  <2> DEFINE S == WithStatement(DbSpans(d), d, s)
  <2>1. WithStatement(DbSpans(b), b, s) = S /\ S \subseteq NodeSpans(d)
    BY <1>1, <1>2 DEF WithStatement
  <2>2. [i \in S |-> b.spans[i].duration] = [i \in S |-> d.spans[i].duration]
    <3> HIDE DEF S
    <3> QED BY <1>1, <2>1
  <2>3. TotalDuration(S, b) = TotalDuration(S, d)
    BY <2>2 DEF TotalDuration
  <2> QED BY <1>3, <2>1, <2>3 DEF IsFarSlower
<1> QED BY <1>1, <1>2, <1>3, <1>4, <1>5 DEF b

(* Every item of evidence is the same. *)
LEMMA SameItems ==
  ASSUME NEW d \in Database
  PROVE  LET b == Blanked(d)
         IN  /\ LatencyDeviates(b) <=> LatencyDeviates(d)
             /\ LatencyIsAbove(b) <=> LatencyIsAbove(d)
             /\ LatencySpike(b) = LatencySpike(d)
             /\ ErrorRate(b) = ErrorRate(d)
             /\ Exhaustion(b) = Exhaustion(d)
             /\ Statements(DbSpans(d), d) # {} => SlowQuery(b) = SlowQuery(d)
<1> DEFINE b == Blanked(d)
<1>1. /\ b \in Database
      /\ b.latency = d.latency /\ b.latency_baseline = d.latency_baseline
      /\ b.error_baseline = d.error_baseline
  BY BlankedDatabase
<1>2. /\ NodeSpans(b) = NodeSpans(d) /\ ErrorSpans(b) = ErrorSpans(d)
      /\ DbSpans(b) = DbSpans(d)
  BY SameSpans
<1>3. /\ Statements(DbSpans(b), b) = Statements(DbSpans(d), d)
      /\ BaselineMs(b) = BaselineMs(d)
      /\ \A s : IsFarSlower(b, s) <=> IsFarSlower(d, s)
  BY SameStatements
<1> HIDE DEF b
<1>4. /\ LatencyDeviates(b) <=> LatencyDeviates(d)
      /\ LatencyIsAbove(b) <=> LatencyIsAbove(d)
      /\ LatencySpike(b) = LatencySpike(d)
  BY <1>1, <1>3 DEF LatencyDeviates, LatencyIsAbove, HasDeviation, LatencySpike
<1>5. \A z : ErrorsDeviate(b, z) <=> ErrorsDeviate(d, z)
  BY <1>1, <1>2 DEF ErrorsDeviate, ErrorBaseline
<1>6. ErrorRate(b) = ErrorRate(d) /\ Exhaustion(b) = Exhaustion(d)
  BY <1>2, <1>5 DEF ErrorRate, Exhaustion
<1>7. ASSUME Statements(DbSpans(d), d) # {} PROVE SlowQuery(b) = SlowQuery(d)
  <2>1. SlowQuery(b).strength = "STRONG" <=> SlowQuery(d).strength = "STRONG"
    BY <1>1, <1>3, <1>7, SlowQueryIsWorst
  <2> QED BY <2>1 DEF SlowQuery, Item
<1> QED BY <1>4, <1>6, <1>7 DEF b

LEMMA SameDatabaseReport ==
  ASSUME NEW d \in Database
  PROVE  Report(Blanked(d)) = Report(d)
<1> DEFINE b == Blanked(d)
<1>1. b.type = "DATABASE" /\ d.type = "DATABASE" /\ b.latency = d.latency
  BY BlankedDatabase DEF Database
<1>2. /\ System(b) = System(d)
      /\ ErrorSpans(b) = ErrorSpans(d)
      /\ DbSpans(b) = DbSpans(d)
      /\ \A i \in DbSpans(d) : b.spans[i] = d.spans[i]
      /\ \A x : DatabaseSees(b, x) <=> DatabaseSees(d, x)
      /\ \A x : CallerSees(b, x) = CallerSees(d, x)
  BY SameSpans, SpanSets
<1>3. /\ Statements(DbSpans(b), b) = Statements(DbSpans(d), d)
      /\ Statements(ErrorSpans(b), b) = Statements(ErrorSpans(d), d)
  BY SameStatements
<1>4. /\ LatencyDeviates(b) <=> LatencyDeviates(d)
      /\ LatencyIsAbove(b) <=> LatencyIsAbove(d)
      /\ LatencySpike(b) = LatencySpike(d)
      /\ ErrorRate(b) = ErrorRate(d)
      /\ Exhaustion(b) = Exhaustion(d)
      /\ Statements(DbSpans(d), d) # {} => SlowQuery(b) = SlowQuery(d)
  BY SameItems
<1> HIDE DEF b
<1>5. Raises(b) <=> Raises(d)
  BY <1>2 DEF Raises
<1>6. RelationalType(b) = RelationalType(d)
  BY <1>2, <1>4 DEF RelationalType, IsSlow
<1>7. ErrorEvidence(b) = ErrorEvidence(d)
  BY <1>3, <1>4 DEF ErrorEvidence
<1>8. SlowEvidence(b) = SlowEvidence(d)
  <2>1. If(Statements(DbSpans(b), b) # {}, SlowQuery(b))
          = If(Statements(DbSpans(d), d) # {}, SlowQuery(d))
    BY <1>3, <1>4 DEF If
  <2> QED BY <1>1, <1>2, <1>4, <2>1 DEF SlowEvidence
<1>9. ExhaustionEvidence(b) = ExhaustionEvidence(d)
  <2>1. If(LatencyIsAbove(b), LatencySpike(b)) = If(LatencyIsAbove(d), LatencySpike(d))
    BY <1>4 DEF If
  <2> QED BY <1>2, <1>4, <2>1 DEF ExhaustionEvidence
<1>10. RelationalEvidence(b) = RelationalEvidence(d)
  BY <1>6, <1>7, <1>8, <1>9 DEF RelationalEvidence
<1>11. CacheType(b) = CacheType(d) /\ CacheEvidence(b) = CacheEvidence(d)
  <2>1. If(LatencyDeviates(b), LatencySpike(b)) = If(LatencyDeviates(d), LatencySpike(d))
    BY <1>4 DEF If
  <2> QED BY <1>2, <1>4, <2>1 DEF CacheType, CacheEvidence
<1>12. GenericEvidence(b) = GenericEvidence(d)
  <2>1. If(LatencyDeviates(b), Capped(LatencySpike(b)))
          = If(LatencyDeviates(d), Capped(LatencySpike(d)))
    BY <1>4 DEF If
  <2> QED BY <1>2, <1>4, <2>1 DEF GenericEvidence
<1>13. Report(b) = Report(d)
  <2>1. System(d) \in Systems
    BY SystemType
  <2>2. CASE Raises(d)
    BY <1>1, <1>2, <1>5, <2>2 DEF Report, Raises
  <2>3. CASE ~Raises(d) /\ System(d) = "relational"
    BY <1>1, <1>2, <1>5, <1>6, <1>10, <2>3 DEF Report
  <2>4. CASE ~Raises(d) /\ System(d) = "cache"
    BY <1>1, <1>2, <1>5, <1>11, <2>4 DEF Report
  <2>5. CASE ~Raises(d) /\ System(d) = "other"
    BY <1>1, <1>2, <1>5, <1>12, <2>5 DEF Report
  <2> QED BY <2>1, <2>2, <2>3, <2>4, <2>5 DEF Systems
<1> QED BY <1>13 DEF b

LEMMA SameDependencyReport ==
  ASSUME NEW d \in Dependency
  PROVE  Report(Blanked(d)) = Report(d)
<1> DEFINE b == Blanked(d)
<1>1. /\ b \in Dependency /\ b.type = "EXTERNAL_DEP" /\ d.type = "EXTERNAL_DEP"
      /\ b.callers = d.callers
      /\ DOMAIN b.calls = DOMAIN d.calls
      /\ \A i \in DOMAIN d.calls : b.calls[i] = Blank(d.calls[i])
  BY BlankedDependency DEF Dependency
<1> HIDE DEF b
<1>2. \A i \in DOMAIN d.calls :
        /\ b.calls[i].at = d.calls[i].at
        /\ InWindow(d.calls[i]) => b.calls[i] = d.calls[i]
  <2>1. \A i \in DOMAIN d.calls : d.calls[i] \in Call
    BY CallSets
  <2> QED BY <1>1, <2>1, BlankCall
<1>3. Calls(b) = Calls(d)
  BY <1>1, <1>2 DEF Calls, InWindow
<1>4. \A i \in Calls(d) : b.calls[i] = d.calls[i]
  BY <1>2 DEF Calls
<1>5. FiveXX(b) = FiveXX(d)
  BY <1>3, <1>4 DEF FiveXX
<1>6. \A code : WithStatus(b, code) = WithStatus(d, code)
  BY <1>3, <1>4 DEF WithStatus
<1>7. Affected(b) = Affected(d) /\ (TimesOut(b) <=> TimesOut(d))
  BY <1>3, <1>4 DEF Affected, TimesOut
<1>8. ASSUME FiveXX(d) # {} PROVE HttpError(b) = HttpError(d)
  <2>1. HttpError(b).strength = "STRONG" <=> HttpError(d).strength = "STRONG"
    BY <1>1, <1>3, <1>5, <1>6, <1>8, MostCommonDecides
  <2> QED BY <2>1 DEF HttpError, Item
<1>9. CallerScope(b) = CallerScope(d)
  BY <1>1, <1>7 DEF CallerScope, AllCallersAffected
<1>10. DependencyEvidence(b) = DependencyEvidence(d)
  BY <1>3, <1>5, <1>8, <1>9 DEF DependencyEvidence
<1>11. DependencyType(b) = DependencyType(d)
  BY <1>5, <1>6, <1>7 DEF DependencyType
<1> QED BY <1>1, <1>10, <1>11 DEF Report, b

LEMMA SameReport ==
  ASSUME NEW d \in Database \cup Dependency
  PROVE  Report(Blanked(d)) = Report(d)
BY SameDatabaseReport, SameDependencyReport

----------------------------------------------------------------------------
(* What an investigation reports *)

ReportInv ==
  /\ stage = "start" => failure_type = "UNKNOWN" /\ evidence = <<>>
  /\ stage = "classified" => ~Raises(incident)
  /\ stage \in {"investigated", "done"} => <<failure_type, evidence>> = Report(incident)

LEMMA InitReportInv == Init => ReportInv
BY DEF Init, ReportInv

LEMMA NextReportInv ==
  ASSUME IInv, ReportInv, [Next]_vars
  PROVE  ReportInv'
<1>1. CASE Fail
  <2>1. Report(incident) = <<"UNKNOWN", <<Missing>>>>
    BY <1>1 DEF Fail, IsDatabase, Report
  <2> QED BY <1>1, <2>1 DEF Fail, ReportInv
<1>2. CASE Classify
  BY <1>2 DEF Classify, ReportInv
<1>3. CASE Emit
  <2>1. Report(incident) = <<RelationalType(incident), RelationalEvidence(incident)>>
    BY <1>3 DEF Emit, IInv, ReportInv, IsDatabase, Report
  <2> QED BY <1>3, <2>1 DEF Emit, IInv, ReportInv
<1>4. CASE InvestigateCache
  <2>1. Report(incident) = <<CacheType(incident), CacheEvidence(incident)>>
    BY <1>4 DEF InvestigateCache, IsDatabase, Report, Raises
  <2> QED BY <1>4, <2>1 DEF InvestigateCache, ReportInv
<1>5. CASE InvestigateGeneric
  <2>1. Report(incident) = <<"UNKNOWN", GenericEvidence(incident)>>
    BY <1>5 DEF InvestigateGeneric, IsDatabase, Report, Raises
  <2> QED BY <1>5, <2>1 DEF InvestigateGeneric, ReportInv
<1>6. CASE InvestigateDependency
  <2>1. Report(incident) = <<DependencyType(incident), DependencyEvidence(incident)>>
    BY <1>6 DEF InvestigateDependency, Report
  <2> QED BY <1>6, <2>1 DEF InvestigateDependency, ReportInv
<1>7. CASE Prioritise
  BY <1>7 DEF Prioritise, ReportInv
<1>8. CASE Returned \/ UNCHANGED vars
  BY <1>8 DEF Returned, vars, ReportInv
<1> QED BY <1>1, <1>2, <1>3, <1>4, <1>5, <1>6, <1>7, <1>8 DEF Next

LEMMA ReportInvariance == Spec => [](IInv /\ ReportInv)
<1>1. IInv /\ ReportInv /\ [Next]_vars => ReportInv'
  BY NextReportInv
<1> QED BY <1>1, InitReportInv, Invariance, PTL DEF Spec

(* Whatever happened outside the incident's window, however much of it and however
   malformed, the findings are the same. *)
THEOREM OnlyTheWindowMatters == Spec => []OnlyTheWindowCounts
<1>1. IInv /\ ReportInv => OnlyTheWindowCounts
  <2> SUFFICES ASSUME IInv, ReportInv PROVE OnlyTheWindowCounts
    OBVIOUS
  <2>1. incident \in Database \cup Dependency
    BY DEF IInv, TypeOK
  <2>2. Report(Blanked(incident)) = Report(incident)
    BY <2>1, SameReport
  <2> QED BY <2>2 DEF ReportInv, OnlyTheWindowCounts
<1> QED BY <1>1, ReportInvariance, PTL

----------------------------------------------------------------------------
(* Which items an investigation can list *)

LEMMA RangeAppended ==
  ASSUME NEW S, NEW s \in Seq(S), NEW t \in Seq(S)
  PROVE  Range(s \o t) = Range(s) \cup Range(t)
<1>1. /\ DOMAIN (s \o t) = 1..(Len(s) + Len(t))
      /\ \A i \in 1..Len(s) : (s \o t)[i] = s[i]
      /\ \A i \in 1..Len(t) : (s \o t)[Len(s) + i] = t[i]
  OBVIOUS
<1>2. DOMAIN s = 1..Len(s) /\ DOMAIN t = 1..Len(t) /\ Len(s) \in Nat /\ Len(t) \in Nat
  OBVIOUS
<1>3. ASSUME NEW i \in 1..(Len(s) + Len(t)) PROVE (s \o t)[i] \in Range(s) \cup Range(t)
  <2>1. CASE i \in 1..Len(s)
    BY <1>1, <1>2, <2>1 DEF Range
  <2>2. CASE i \notin 1..Len(s)
    <3>1. i - Len(s) \in 1..Len(t) /\ Len(s) + (i - Len(s)) = i
      BY <1>2, <2>2
    <3>2. (s \o t)[i] = t[i - Len(s)]
      BY <1>1, <3>1
    <3> QED BY <1>2, <3>1, <3>2 DEF Range
  <2> QED BY <2>1, <2>2
<1>4. ASSUME NEW i \in 1..Len(s) PROVE s[i] \in Range(s \o t)
  <2>1. i \in 1..(Len(s) + Len(t))
    BY <1>2
  <2> QED BY <1>1, <2>1 DEF Range
<1>5. ASSUME NEW i \in 1..Len(t) PROVE t[i] \in Range(s \o t)
  <2>1. Len(s) + i \in 1..(Len(s) + Len(t))
    BY <1>2
  <2> QED BY <1>1, <2>1 DEF Range
<1>6. Range(s \o t) \subseteq Range(s) \cup Range(t)
  BY <1>1, <1>3 DEF Range
<1>7. Range(s) \subseteq Range(s \o t)
  <2>1. Range(s) = {s[i] : i \in 1..Len(s)}
    BY <1>2 DEF Range
  <2> QED BY <1>4, <2>1
<1>8. Range(t) \subseteq Range(s \o t)
  <2>1. Range(t) = {t[i] : i \in 1..Len(t)}
    BY <1>2 DEF Range
  <2> QED BY <1>5, <2>1
<1> QED BY <1>6, <1>7, <1>8

LEMMA RangeIf ==
  ASSUME NEW c, NEW item, NEW x \in Range(If(c, item))
  PROVE  c /\ x = item
<1>1. CASE c
  BY <1>1 DEF If, Range
<1>2. CASE ~c
  BY <1>2 DEF If, Range
<1> QED BY <1>1, <1>2

LEMMA RangeOne == \A x : Range(<<x>>) = {x}
BY DEF Range

LEMMA RangeTwo == \A x, y : Range(<<x, y>>) = {x, y}
BY DEF Range

(* A database is charged with a slow query only by SlowQuery, and never with an
   outage. *)
LEMMA DatabaseItems ==
  ASSUME NEW d \in Database, NEW x \in Range(Report(d)[2])
  PROVE  /\ x.signal # "http_error_pattern"
         /\ x.signal = "slow_query" => Statements(DbSpans(d), d) # {} /\ x = SlowQuery(d)
<1> DEFINE Fits(y) ==
      /\ y.signal # "http_error_pattern"
      /\ y.signal = "slow_query" => Statements(DbSpans(d), d) # {} /\ y = SlowQuery(d)
<1>1. Fits(Missing) /\ Fits(ErrorRate(d)) /\ Fits(LatencySpike(d)) /\ Fits(CallerTimeout)
      /\ Fits(Exhaustion(d))
  BY ItemSignals
<1>2. Fits(Item("db_integrity_error", "STRONG")) /\ Fits(Item("db_statement", "WEAK"))
  BY DEF Item
<1>3. Fits(Capped(LatencySpike(d))) /\ Fits(Capped(ErrorRate(d)))
  BY CappedType, ItemTypes, ItemSignals
<1>4. ASSUME NEW s \in Seq(EvidenceItem), NEW t \in Seq(EvidenceItem),
             \A y \in Range(s) : Fits(y), \A y \in Range(t) : Fits(y)
      PROVE  s \o t \in Seq(EvidenceItem) /\ \A y \in Range(s \o t) : Fits(y)
  BY <1>4, RangeAppended
<1>5. \A y \in Range(<<Missing>>) : Fits(y)
  BY <1>1, RangeOne
<1>6. \A y \in Range(ErrorEvidence(d)) : Fits(y)
  <2> DEFINE a == <<Item("db_integrity_error", "STRONG"), ErrorRate(d)>>
             b == If(Statements(ErrorSpans(d), d) # {}, Item("db_statement", "WEAK"))
  <2>1. a \in Seq(EvidenceItem) /\ b \in Seq(EvidenceItem)
    BY IfType, ItemTypes, FixedItemTypes
  <2>2. \A y \in Range(a) : Fits(y)
    BY <1>1, <1>2, RangeTwo
  <2>3. \A y \in Range(b) : Fits(y)
    BY <1>2, RangeIf
  <2> HIDE DEF a, b, Fits
  <2>4. \A y \in Range(a \o b) : Fits(y)
    BY <1>4, <2>1, <2>2, <2>3
  <2> QED BY <2>4 DEF ErrorEvidence, a, b
<1>7. \A y \in Range(SlowEvidence(d)) : Fits(y)
  <2> DEFINE a == If(d.latency # <<>>, LatencySpike(d))
             b == If(Statements(DbSpans(d), d) # {}, SlowQuery(d))
             c == If(ErrorSpans(d) # {}, ErrorRate(d))
  <2>1. a \in Seq(EvidenceItem) /\ b \in Seq(EvidenceItem) /\ c \in Seq(EvidenceItem)
    BY IfType, ItemTypes
  <2>2. \A y \in Range(a) : Fits(y)
    BY <1>1, RangeIf
  <2>3. \A y \in Range(b) : Fits(y)
    <3> TAKE y \in Range(b)
    <3>1. Statements(DbSpans(d), d) # {} /\ y = SlowQuery(d)
      BY RangeIf
    <3> QED BY <3>1, ItemSignals
  <2>4. \A y \in Range(c) : Fits(y)
    BY <1>1, RangeIf
  <2> HIDE DEF a, b, c, Fits
  <2>5. \A y \in Range((a \o b) \o c) : Fits(y)
    BY <1>4, <2>1, <2>2, <2>3, <2>4
  <2>6. SlowEvidence(d) = (a \o b) \o c
    BY DEF SlowEvidence, a, b, c
  <2> QED BY <2>5, <2>6
<1>8. \A y \in Range(ExhaustionEvidence(d)) : Fits(y)
  <2> DEFINE a == <<Exhaustion(d), CallerTimeout>>
             b == If(Cardinality(CallerSees(d, "timeout")) >= MAX_CALLER_TIMEOUT_EVIDENCE, CallerTimeout)
             c == <<ErrorRate(d)>>
             e == If(LatencyIsAbove(d), LatencySpike(d))
  <2>1. /\ a \in Seq(EvidenceItem) /\ b \in Seq(EvidenceItem)
        /\ c \in Seq(EvidenceItem) /\ e \in Seq(EvidenceItem)
    BY IfType, ItemTypes
  <2>2. (\A y \in Range(a) : Fits(y)) /\ (\A y \in Range(c) : Fits(y))
    BY <1>1, RangeOne, RangeTwo
  <2>3. (\A y \in Range(b) : Fits(y)) /\ (\A y \in Range(e) : Fits(y))
    BY <1>1, RangeIf
  <2> HIDE DEF a, b, c, e, Fits
  <2>4. /\ (a \o b) \o c \in Seq(EvidenceItem)
        /\ \A y \in Range((a \o b) \o c) : Fits(y)
    BY <1>4, <2>1, <2>2, <2>3
  <2>5. \A y \in Range(((a \o b) \o c) \o e) : Fits(y)
    BY <1>4, <2>1, <2>3, <2>4
  <2>6. ExhaustionEvidence(d) = ((a \o b) \o c) \o e
    BY DEF ExhaustionEvidence, a, b, c, e
  <2> QED BY <2>5, <2>6
<1>9. \A y \in Range(CacheEvidence(d)) : Fits(y)
  <2> DEFINE a == If(LatencyDeviates(d), LatencySpike(d))
             b == If(ErrorSpans(d) # {}, ErrorRate(d))
  <2>1. a \in Seq(EvidenceItem) /\ b \in Seq(EvidenceItem)
    BY IfType, ItemTypes
  <2>2. (\A y \in Range(a) : Fits(y)) /\ (\A y \in Range(b) : Fits(y))
    BY <1>1, RangeIf
  <2> HIDE DEF a, b, Fits
  <2>3. \A y \in Range(a \o b) : Fits(y)
    BY <1>4, <2>1, <2>2
  <2>4. CacheEvidence(d) = OrMissing(a \o b)
    BY DEF CacheEvidence, a, b
  <2> QED BY <1>5, <2>3, <2>4 DEF OrMissing
<1>10. \A y \in Range(GenericEvidence(d)) : Fits(y)
  <2> DEFINE a == If(LatencyDeviates(d), Capped(LatencySpike(d)))
             b == If(ErrorSpans(d) # {}, Capped(ErrorRate(d)))
  <2>1. a \in Seq(EvidenceItem) /\ b \in Seq(EvidenceItem)
    BY IfType, ItemTypes, CappedType
  <2>2. (\A y \in Range(a) : Fits(y)) /\ (\A y \in Range(b) : Fits(y))
    BY <1>3, RangeIf
  <2> HIDE DEF a, b, Fits
  <2>3. \A y \in Range(a \o b) : Fits(y)
    BY <1>4, <2>1, <2>2
  <2>4. GenericEvidence(d) = OrMissing(a \o b)
    BY DEF GenericEvidence, a, b
  <2> QED BY <1>5, <2>3, <2>4 DEF OrMissing
<1> HIDE DEF Fits
<1>11. \A y \in Range(RelationalEvidence(d)) : Fits(y)
  BY <1>5, <1>6, <1>7, <1>8 DEF RelationalEvidence, RelationalType
<1>12. d.type = "DATABASE" /\ System(d) \in Systems
  BY SystemType DEF Database
<1>13. Report(d)[2] \in {<<Missing>>, RelationalEvidence(d), CacheEvidence(d), GenericEvidence(d)}
  <2>1. CASE Raises(d)
    BY <1>12, <2>1 DEF Report, Raises
  <2>2. CASE ~Raises(d) /\ System(d) = "relational"
    BY <1>12, <2>2 DEF Report
  <2>3. CASE ~Raises(d) /\ System(d) = "cache"
    BY <1>12, <2>3 DEF Report
  <2>4. CASE ~Raises(d) /\ System(d) = "other"
    BY <1>12, <2>4 DEF Report
  <2> QED BY <1>12, <2>1, <2>2, <2>3, <2>4 DEF Systems
<1>14. Fits(x)
  BY <1>5, <1>9, <1>10, <1>11, <1>13
<1> QED BY <1>14 DEF Fits

(* A dependency is charged with an outage only by HttpError, and never with a
   slow query. *)
LEMMA DependencyItems ==
  ASSUME NEW d \in Dependency, NEW x \in Range(Report(d)[2])
  PROVE  /\ x.signal # "slow_query"
         /\ x.signal = "http_error_pattern" => FiveXX(d) # {} /\ x = HttpError(d)
<1> DEFINE a == If(FiveXX(d) # {}, HttpError(d))
           b == <<CallerScope(d)>>
           c == If(Calls(d) = {}, Missing)
<1>1. /\ a \in Seq(EvidenceItem) /\ b \in Seq(EvidenceItem) /\ c \in Seq(EvidenceItem)
      /\ a \o b \in Seq(EvidenceItem)
  BY IfType, ItemTypes, Appended
<1>2. DependencyEvidence(d) = (a \o b) \o c
  BY DEF DependencyEvidence, If
<1>3. Report(d)[2] = DependencyEvidence(d)
  BY DEF Report, Dependency
<1>4. x \in Range(a) \cup Range(b) \cup Range(c)
  <2> HIDE DEF a, b, c
  <2> DEFINE e == a \o b
  <2>1. Range(e) = Range(a) \cup Range(b)
    BY <1>1, RangeAppended
  <2>2. e \in Seq(EvidenceItem) /\ DependencyEvidence(d) = e \o c
    BY <1>1, <1>2
  <2> HIDE DEF e
  <2>3. Range(e \o c) = Range(e) \cup Range(c)
    BY <1>1, <2>2, RangeAppended
  <2>4. x \in Range(e \o c)
    BY <1>3, <2>2
  <2> QED BY <2>1, <2>3, <2>4
<1>5. CASE x \in Range(a)
  <2>1. FiveXX(d) # {} /\ x = HttpError(d)
    BY <1>5, RangeIf
  <2> QED BY <2>1, ItemSignals
<1>6. CASE x \in Range(b)
  BY <1>6, RangeOne, ItemSignals
<1>7. CASE x \in Range(c)
  BY <1>7, RangeIf, ItemSignals
<1> QED BY <1>4, <1>5, <1>6, <1>7

(* What an investigation finds of a signal, it finds as strong as its one item. *)
LEMMA OneItem ==
  ASSUME NEW s, NEW signal, NEW item, item.signal = signal,
         item = Item(signal, item.strength),
         \A x \in Range(s) : x.signal = signal => x = item,
         Has(s, signal)
  PROVE  (\E i \in DOMAIN s : s[i] = Item(signal, "STRONG")) <=> item.strength = "STRONG"
<1>1. PICK k \in DOMAIN s : s[k].signal = signal
  BY DEF Has
<1>2. \A i \in DOMAIN s : s[i] \in Range(s)
  BY DEF Range
<1>3. s[k] = item
  BY <1>1, <1>2
<1>4. Item(signal, "STRONG").signal = signal /\ Item(signal, "STRONG").strength = "STRONG"
  BY DEF Item
<1>5. ASSUME NEW i \in DOMAIN s, s[i] = Item(signal, "STRONG") PROVE item.strength = "STRONG"
  BY <1>2, <1>4, <1>5
<1>6. ASSUME item.strength = "STRONG" PROVE s[k] = Item(signal, "STRONG")
  BY <1>3, <1>6
<1> QED BY <1>1, <1>5, <1>6

(* However many statements or codes there are, the worst of them decides how strong
   the finding is. *)
THEOREM TheWorstDecides == Spec => []WorstDecides
<1>1. ASSUME IInv, ReportInv, stage = "done" PROVE WorstDecides
  <2>1. evidence = Report(incident)[2]
    <3>1. <<failure_type, evidence>> = Report(incident)
      BY <1>1 DEF ReportInv
    <3> QED BY <3>1
  <2>2. incident \in Database \/ incident \in Dependency
    BY <1>1 DEF IInv, TypeOK
  <2>3. \A signal : Has(evidence, signal) => \E x \in Range(evidence) : x.signal = signal
    BY DEF Has, Range
  <2>4. ASSUME Has(evidence, "slow_query")
        PROVE  (\E i \in DOMAIN evidence : evidence[i] = Item("slow_query", "STRONG"))
                 <=> /\ BaselineMs(incident) > 0
                     /\ \E s \in Statements(DbSpans(incident), incident) : IsFarSlower(incident, s)
    <3>1. incident \in Database
      BY <2>1, <2>2, <2>3, <2>4, DependencyItems
    <3>2. Statements(DbSpans(incident), incident) # {}
      BY <2>1, <2>3, <2>4, <3>1, DatabaseItems
    <3>3. \A x \in Range(evidence) : x.signal = "slow_query" => x = SlowQuery(incident)
      BY <2>1, <3>1, DatabaseItems
    <3>4. /\ SlowQuery(incident).signal = "slow_query"
          /\ SlowQuery(incident) = Item("slow_query", SlowQuery(incident).strength)
      BY DEF SlowQuery, Item
    <3>5. (\E i \in DOMAIN evidence : evidence[i] = Item("slow_query", "STRONG"))
            <=> SlowQuery(incident).strength = "STRONG"
      BY <2>4, <3>3, <3>4, OneItem
    <3> QED BY <3>1, <3>2, <3>5, SlowQueryIsWorst
  <2>5. ASSUME Has(evidence, "http_error_pattern")
        PROVE  (\E i \in DOMAIN evidence : evidence[i] = Item("http_error_pattern", "STRONG"))
                 <=> \E code \in FiveXX(incident) :
                       2 * Cardinality(WithStatus(incident, code)) >= Cardinality(Calls(incident))
    <3>1. incident \in Dependency
      BY <2>1, <2>2, <2>3, <2>5, DatabaseItems
    <3>2. FiveXX(incident) # {}
      BY <2>1, <2>3, <2>5, <3>1, DependencyItems
    <3>3. \A x \in Range(evidence) : x.signal = "http_error_pattern" => x = HttpError(incident)
      BY <2>1, <3>1, DependencyItems
    <3>4. /\ HttpError(incident).signal = "http_error_pattern"
          /\ HttpError(incident) = Item("http_error_pattern", HttpError(incident).strength)
      BY DEF HttpError, Item
    <3>5. (\E i \in DOMAIN evidence : evidence[i] = Item("http_error_pattern", "STRONG"))
            <=> HttpError(incident).strength = "STRONG"
      BY <2>5, <3>3, <3>4, OneItem
    <3> QED BY <3>1, <3>2, <3>5, MostCommonDecides
  <2> QED BY <2>4, <2>5 DEF WorstDecides
<1>2. IInv /\ ReportInv => WorstDecides
  BY <1>1 DEF WorstDecides
<1> QED BY <1>2, ReportInvariance, PTL
=============================================================================
