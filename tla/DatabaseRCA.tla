---------------------------- MODULE DatabaseRCA ----------------------------
(***************************************************************************)
(* What the database engine makes of an incident: investigate in           *)
(* database.py with its three investigators.                               *)
(*                                                                         *)
(* An incident d has the database's spans, the spans of each of its        *)
(* callers, the mean of its latency in the window and the baselines of     *)
(* latency and error rate; what may be absent is a sequence of length 0    *)
(* or 1.  Latencies are in hundredths of a millisecond, error rates in     *)
(* hundredths of a percent, so that 1 is the least deviation a baseline    *)
(* has.  Of a span's events only the kinds of exception count; a malformed *)
(* event is one whose attributes are not a map.                            *)
(***************************************************************************)
EXTENDS EngineEvidence, Functions

SLOW_QUERY_DURATION == 10000
MAX_CALLER_TIMEOUT_EVIDENCE == 2

Systems == {"relational", "cache", "other"}

(* db.system of the first span that has one, whenever that was. *)
System(d) ==
  LET named == {i \in DOMAIN d.spans : d.spans[i].system \in Systems}
  IN  IF named = {} THEN "other" ELSE d.spans[CHOOSE i \in named : \A j \in named : i <= j].system

NodeSpans(d) == {i \in DOMAIN d.spans : InWindow(d.spans[i])}

ErrorSpans(d) == {i \in NodeSpans(d) : d.spans[i].error}

DbSpans(d) ==
  {i \in NodeSpans(d) : d.spans[i].named \/ d.spans[i].system \in Systems}

(* _get_exception_types looks at the spans in error, and at all of a caller's. *)
CallerSees(d, exception) ==
  {c \in DOMAIN d.callers :
     \E i \in DOMAIN d.callers[c] :
       InWindow(d.callers[c][i]) /\ exception \in d.callers[c][i].exceptions}

DatabaseSees(d, exception) ==
  \E i \in ErrorSpans(d) : exception \in d.spans[i].exceptions

(* The two cases in which an event without attributes to read is met. *)
Raises(d) ==
  /\ System(d) = "relational"
  /\ DatabaseSees(d, "malformed") \/ CallerSees(d, "malformed") # {}

----------------------------------------------------------------------------
(* Deviations *)

HasDeviation(d) == d.latency # <<>> /\ d.latency_baseline # <<>>

(* z-score of 1 *)
LatencyDeviates(d) ==
  HasDeviation(d) /\ d.latency[1] - d.latency_baseline[1].mean >= d.latency_baseline[1].std

LatencyIsAbove(d) == HasDeviation(d) /\ d.latency[1] > d.latency_baseline[1].mean

(* A missing baseline reads as 0. *)
BaselineMs(d) == IF d.latency_baseline = <<>> THEN 0 ELSE d.latency_baseline[1].mean

LatencySpike(d) ==
  Item("latency_spike",
       IF BaselineMs(d) = 0 THEN "MODERATE"
       ELSE IF d.latency[1] >= 3 * BaselineMs(d) THEN "STRONG"
       ELSE IF 2 * d.latency[1] >= 3 * BaselineMs(d) THEN "MODERATE" ELSE "WEAK")

(* A missing error baseline reads as 0 with a deviation of one percent. *)
ErrorBaseline(d) ==
  IF d.error_baseline = <<>> THEN [mean |-> 0, std |-> 100] ELSE d.error_baseline[1]

ErrorsDeviate(d, z) ==
  LET total == Cardinality(NodeSpans(d))
  IN  10000 * Cardinality(ErrorSpans(d)) - ErrorBaseline(d).mean * total
        >= z * ErrorBaseline(d).std * total

ErrorRate(d) ==
  Item("error_rate_spike",
       IF ErrorsDeviate(d, 5) THEN "STRONG"
       ELSE IF ErrorsDeviate(d, 3) THEN "MODERATE" ELSE "WEAK")

----------------------------------------------------------------------------
(* Statements *)

WithStatement(spans, d, statement) == {i \in spans : d.spans[i].statement = statement}

Statements(spans, d) == {d.spans[i].statement : i \in spans} \ {"none"}

TotalDuration(spans, d) == SumFunction([i \in spans |-> d.spans[i].duration])

(* The mean duration of s is at least that of t. *)
AtLeastAsSlow(d, s, t) ==
  LET S == WithStatement(DbSpans(d), d, s)
      T == WithStatement(DbSpans(d), d, t)
  IN  TotalDuration(S, d) * Cardinality(T) >= TotalDuration(T, d) * Cardinality(S)

(* Mutant: statements are ranked by their total time. *)
SlowestInTotal(d) ==
  CHOOSE s \in Statements(DbSpans(d), d) :
    \A t \in Statements(DbSpans(d), d) :
      TotalDuration(WithStatement(DbSpans(d), d, s), d)
        >= TotalDuration(WithStatement(DbSpans(d), d, t), d)

(* _get_slowest_db_statement; of several the first, all of the same mean. *)
Slowest(d) ==
  CHOOSE s \in Statements(DbSpans(d), d) :
    \A t \in Statements(DbSpans(d), d) : AtLeastAsSlow(d, s, t)

(* The mean duration of s is at least three times the baseline. *)
IsFarSlower(d, s) ==
  LET S == WithStatement(DbSpans(d), d, s)
  IN  TotalDuration(S, d) >= 3 * BaselineMs(d) * Cardinality(S)

SlowQuery(d) ==
  Item("slow_query",
       IF BaselineMs(d) > 0 /\ IsFarSlower(d, Slowest(d)) THEN "STRONG" ELSE "MODERATE")

----------------------------------------------------------------------------
(* _investigate_relational *)

IsSlow(d) ==
  LatencyDeviates(d) \/ \E i \in DbSpans(d) : d.spans[i].duration > SLOW_QUERY_DURATION

(* Mutant: errors alone are taken for a full connection pool. *)
RelationalTypeByErrors(d) ==
  IF DatabaseSees(d, "integrity") THEN "DB_ERROR"
  ELSE IF IsSlow(d) THEN "DB_SLOW_QUERY"
  ELSE IF ErrorSpans(d) # {} THEN "DB_CONNECTION_EXHAUSTION"
  ELSE "UNKNOWN"

(* The first that matches. *)
RelationalType(d) ==
  IF DatabaseSees(d, "integrity") THEN "DB_ERROR"
  ELSE IF IsSlow(d) THEN "DB_SLOW_QUERY"
  ELSE IF ErrorSpans(d) # {} /\ CallerSees(d, "timeout") # {} THEN "DB_CONNECTION_EXHAUSTION"
  ELSE "UNKNOWN"

If(condition, item) == IF condition THEN <<item>> ELSE <<>>

ErrorEvidence(d) ==
  <<Item("db_integrity_error", "STRONG"), ErrorRate(d)>>
    \o If(Statements(ErrorSpans(d), d) # {}, Item("db_statement", "WEAK"))

SlowEvidence(d) ==
  If(d.latency # <<>>, LatencySpike(d))
    \o If(Statements(DbSpans(d), d) # {}, SlowQuery(d))
    \o If(ErrorSpans(d) # {}, ErrorRate(d))

(* All failed spans of the node over those that name a database, if any does. *)
Exhaustion(d) ==
  LET of == IF DbSpans(d) # {} THEN DbSpans(d) ELSE NodeSpans(d)
  IN  Item("connection_exhaustion",
           IF 2 * Cardinality(ErrorSpans(d)) >= Cardinality(of) THEN "STRONG" ELSE "MODERATE")

CallerTimeout == Item("caller_timeout", "MODERATE")

ExhaustionEvidence(d) ==
  <<Exhaustion(d), CallerTimeout>>
    \o If(Cardinality(CallerSees(d, "timeout")) >= MAX_CALLER_TIMEOUT_EVIDENCE, CallerTimeout)
    \o <<ErrorRate(d)>>
    \o If(LatencyIsAbove(d), LatencySpike(d))

RelationalEvidence(d) ==
  CASE RelationalType(d) = "DB_ERROR" -> ErrorEvidence(d)
    [] RelationalType(d) = "DB_SLOW_QUERY" -> SlowEvidence(d)
    [] RelationalType(d) = "DB_CONNECTION_EXHAUSTION" -> ExhaustionEvidence(d)
    [] OTHER -> <<Missing>>

----------------------------------------------------------------------------
(* _investigate_cache and _investigate_generic *)

OrMissing(evidence) == IF evidence = <<>> THEN <<Missing>> ELSE evidence

CacheEvidence(d) ==
  OrMissing(If(LatencyDeviates(d), LatencySpike(d)) \o If(ErrorSpans(d) # {}, ErrorRate(d)))

CacheType(d) ==
  IF LatencyDeviates(d) THEN "DB_SLOW_QUERY"
  ELSE IF ErrorSpans(d) # {} THEN "DB_ERROR"
  ELSE "UNKNOWN"

Capped(item) ==
  IF item.strength = "STRONG" THEN [item EXCEPT !.strength = "MODERATE"] ELSE item

GenericEvidence(d) ==
  OrMissing(If(LatencyDeviates(d), Capped(LatencySpike(d)))
              \o If(ErrorSpans(d) # {}, Capped(ErrorRate(d))))

----------------------------------------------------------------------------
PRIORITY_BOOST_STRONG == 15
PRIORITY_BOOST_MODERATE == 5
PRIORITY_PENALTY_MISSING == 10

DatabasePriority(priority, evidence) ==
  IF HasStrength(evidence, "STRONG") THEN Raised(priority, PRIORITY_BOOST_STRONG)
  ELSE IF HasStrength(evidence, "MODERATE") THEN Raised(priority, PRIORITY_BOOST_MODERATE)
  ELSE Lowered(priority, PRIORITY_PENALTY_MISSING)
=============================================================================
