--------------------------- MODULE DomainEngines ---------------------------
(***************************************************************************)
(* One investigation by the database or the dependency engine, from the    *)
(* dispatch on the node's type to the enriched candidate.                  *)
(***************************************************************************)
EXTENDS DatabaseRCA, DependencyRCA

CONSTANTS
  Databases,            \* incidents of databases
  Dependencies,         \* incidents of external dependencies
  Priorities            \* what candidates come with

----------------------------------------------------------------------------
Strengths == {"STRONG", "MODERATE", "WEAK"}

Span ==
  [system : Systems \cup {"none"}, named : BOOLEAN, at : Int, error : BOOLEAN,
   duration : Nat, statement : STRING,
   exceptions : SUBSET {"integrity", "timeout", "other", "malformed"}]

CallerSpan ==
  [at : Int, exceptions : SUBSET {"integrity", "timeout", "other", "malformed"}]

Baseline == [mean : Nat, std : Nat \ {0}]

Database ==
  [type : {"DATABASE"}, spans : Seq(Span), callers : Seq(Seq(CallerSpan)),
   latency : Seq(Nat), latency_baseline : Seq(Baseline), error_baseline : Seq(Baseline)]

Call ==
  [emitter : STRING, at : Int, error : BOOLEAN, status : Nat, timeout : BOOLEAN]

Dependency ==
  [type : {"EXTERNAL_DEP"}, callers : SUBSET STRING, calls : Seq(Call)]

ASSUME EnginesAssumption ==
  /\ \A d \in Databases : d \in Database
  /\ \A d \in Dependencies : d \in Dependency /\ IsFiniteSet(d.callers)
  /\ Priorities \subseteq 0..100

VARIABLES
  incident,             \* what the engine reads: constant
  stage,                \* how far investigate has come
  failure_type,
  evidence,
  priority_score

vars == <<incident, stage, failure_type, evidence, priority_score>>

Init ==
  /\ incident \in Databases \cup Dependencies
  /\ stage = "start"
  /\ failure_type = "UNKNOWN"
  /\ evidence = <<>>
  /\ priority_score \in Priorities

IsDatabase(system) ==
  /\ incident.type = "DATABASE"
  /\ System(incident) = system

(* The catch-all of the database engine. *)
Fail ==
  /\ stage = "start"
  /\ IsDatabase("relational")
  /\ Raises(incident)
  /\ failure_type' = "UNKNOWN"
  /\ evidence' = <<Missing>>
  /\ priority_score' = Lowered(priority_score, PRIORITY_PENALTY_MISSING)
  /\ stage' = "done"
  /\ UNCHANGED incident

Classify ==
  /\ stage = "start"
  /\ IsDatabase("relational")
  /\ ~Raises(incident)
  /\ failure_type' = RelationalType(incident)
  /\ stage' = "classified"
  /\ UNCHANGED <<incident, evidence, priority_score>>

Emit ==
  /\ stage = "classified"
  /\ evidence' = RelationalEvidence(incident)
  /\ stage' = "investigated"
  /\ UNCHANGED <<incident, failure_type, priority_score>>

InvestigateCache ==
  /\ stage = "start"
  /\ IsDatabase("cache")
  /\ failure_type' = CacheType(incident)
  /\ evidence' = CacheEvidence(incident)
  /\ stage' = "investigated"
  /\ UNCHANGED <<incident, priority_score>>

InvestigateGeneric ==
  /\ stage = "start"
  /\ IsDatabase("other")
  /\ failure_type' = "UNKNOWN"
  /\ evidence' = GenericEvidence(incident)
  /\ stage' = "investigated"
  /\ UNCHANGED <<incident, priority_score>>

InvestigateDependency ==
  /\ stage = "start"
  /\ incident.type = "EXTERNAL_DEP"
  /\ failure_type' = DependencyType(incident)
  /\ evidence' = DependencyEvidence(incident)
  /\ stage' = "investigated"
  /\ UNCHANGED <<incident, priority_score>>

Prioritise ==
  /\ stage = "investigated"
  /\ priority_score' =
       IF incident.type = "DATABASE" THEN DatabasePriority(priority_score, evidence)
       ELSE DependencyPriority(priority_score, incident)
  /\ stage' = "done"
  /\ UNCHANGED <<incident, failure_type, evidence>>

Returned == stage = "done" /\ UNCHANGED vars

Next ==
  \/ Fail
  \/ Classify
  \/ Emit
  \/ InvestigateCache
  \/ InvestigateGeneric
  \/ InvestigateDependency
  \/ Prioritise
  \/ Returned

Spec == Init /\ [][Next]_vars

----------------------------------------------------------------------------
(* Properties *)

Signals ==
  {"db_integrity_error", "error_rate_spike", "db_statement", "latency_spike",
   "slow_query", "connection_exhaustion", "caller_timeout", "missing_telemetry",
   "http_error_pattern", "all_callers_affected"}

DatabaseTypes == {"DB_ERROR", "DB_SLOW_QUERY", "DB_CONNECTION_EXHAUSTION", "UNKNOWN"}

DependencyTypes == {"UPSTREAM_OUTAGE", "RATE_LIMITED", "TIMEOUT", "EXTERNAL_DEP_FAILURE"}

(* The variables keep to their types, each engine to its failure types, and
   priorities to their scale. *)
TypeOK ==
  /\ incident \in Database \cup Dependency
  /\ stage \in {"start", "classified", "investigated", "done"}
  /\ evidence \in Seq([signal : Signals, strength : Strengths])
  /\ priority_score \in 0..100
  /\ failure_type \in
       IF incident.type = "DATABASE" \/ stage = "start" THEN DatabaseTypes
       ELSE DependencyTypes

(* Neither a reading nor a statement tells what is slow. *)
Untold(d) == d.latency = <<>> /\ Statements(DbSpans(d), d) = {}

(* Some call during the incident got one of these codes, or timed out. *)
Answered(d, codes) ==
  \E i \in DOMAIN d.calls :
    0 <= d.calls[i].at /\ d.calls[i].at <= 300 /\ d.calls[i].status \in codes

RanOut(d) ==
  \E i \in DOMAIN d.calls :
    0 <= d.calls[i].at /\ d.calls[i].at <= 300 /\ d.calls[i].timeout

(* A limited rate and a timeout have no evidence of their own: the calls must show them. *)
DependencyRests ==
  /\ failure_type = "UPSTREAM_OUTAGE" <=> Has(evidence, "http_error_pattern")
  /\ failure_type = "UPSTREAM_OUTAGE" => Answered(incident, 500..599)
  /\ failure_type = "RATE_LIMITED" =>
       Answered(incident, {429}) /\ ~Answered(incident, 500..599)
  /\ failure_type = "TIMEOUT" =>
       RanOut(incident) /\ ~Answered(incident, 500..599 \cup {429})
  /\ failure_type = "EXTERNAL_DEP_FAILURE" =>
       ~RanOut(incident) /\ ~Answered(incident, 500..599 \cup {429})
  /\ Has(evidence, "all_callers_affected")
  /\ Has(evidence, "missing_telemetry") => failure_type = "EXTERNAL_DEP_FAILURE"

DatabaseRests ==
  /\ failure_type = "DB_ERROR" =>
       /\ Has(evidence, "error_rate_spike")
       /\ IsDatabase("relational") => HasStrength(evidence, "STRONG")
  /\ failure_type = "DB_CONNECTION_EXHAUSTION" =>
       /\ Has(evidence, "connection_exhaustion")
       /\ Has(evidence, "caller_timeout")
       /\ CallerSees(incident, "timeout") # {}
  /\ failure_type = "DB_SLOW_QUERY" =>
       \/ Has(evidence, "latency_spike")
       \/ Has(evidence, "slow_query")
       \/ IsDatabase("relational") /\ Untold(incident)
  /\ evidence = <<>> => failure_type = "DB_SLOW_QUERY" /\ ErrorSpans(incident) = {}
  /\ Has(evidence, "missing_telemetry") => failure_type = "UNKNOWN"
  /\ failure_type = "UNKNOWN" => ~HasStrength(evidence, "STRONG")

Rests == IF incident.type = "DATABASE" THEN DatabaseRests ELSE DependencyRests

(* The failure type that a database's engine names rests on evidence of just that, but
   for one case in which there is none at all: spans that took too long, of which nothing
   else is known.  An outage of a dependency is named just when a pattern of errors
   is listed.  Two types of a dependency have no evidence item; a call within
   the incident's window must have been turned away, or have timed out, with
   no worse answer beside it (database.py and dependency.py: investigate). *)
TypeRestsOnEvidence == stage = "done" => Rests

(* d, with nothing to be seen outside the window. *)
Blank(event) ==
  IF 0 <= event.at /\ event.at <= 300 THEN event
  ELSE IF "emitter" \in DOMAIN event
    THEN [event EXCEPT !.error = FALSE, !.status = 0, !.timeout = FALSE]
  ELSE IF "duration" \in DOMAIN event
    THEN [event EXCEPT !.error = FALSE, !.exceptions = {}, !.duration = 0]
  ELSE [event EXCEPT !.exceptions = {}]

BlankAll(events) == [i \in DOMAIN events |-> Blank(events[i])]

Blanked(d) ==
  IF d.type = "DATABASE"
  THEN [d EXCEPT !.spans = BlankAll(@),
                 !.callers = [c \in DOMAIN @ |-> BlankAll(@[c])]]
  ELSE [d EXCEPT !.calls = BlankAll(@)]

Report(d) ==
  CASE d.type # "DATABASE" -> <<DependencyType(d), DependencyEvidence(d)>>
    [] d.type = "DATABASE" /\ Raises(d) -> <<"UNKNOWN", <<Missing>>>>
    [] d.type = "DATABASE" /\ ~Raises(d) /\ System(d) = "relational" ->
         <<RelationalType(d), RelationalEvidence(d)>>
    [] d.type = "DATABASE" /\ System(d) = "cache" -> <<CacheType(d), CacheEvidence(d)>>
    [] d.type = "DATABASE" /\ System(d) = "other" -> <<"UNKNOWN", GenericEvidence(d)>>

(* What happened outside the incident's window changes nothing, not even by a
   malformed event; only what kind of database it is may be learnt from there. *)
OnlyTheWindowCounts ==
  stage = "done" => <<failure_type, evidence>> = Report(Blanked(incident))

(* The worst of several decides: a slow query is strong evidence just when some
   statement takes three times the baseline on average, however seldom it ran,
   and an outage when a single code makes up half of the calls. *)
WorstDecides ==
  stage = "done" =>
    /\ Has(evidence, "slow_query") =>
         LET strong == \E i \in DOMAIN evidence : evidence[i] = Item("slow_query", "STRONG")
         IN  strong <=> /\ BaselineMs(incident) > 0
                        /\ \E s \in Statements(DbSpans(incident), incident) :
                             IsFarSlower(incident, s)
    /\ Has(evidence, "http_error_pattern") =>
         LET strong ==
               \E i \in DOMAIN evidence : evidence[i] = Item("http_error_pattern", "STRONG")
         IN  strong <=> \E code \in FiveXX(incident) :
                          2 * Cardinality(WithStatus(incident, code)) >= Cardinality(Calls(incident))

=============================================================================
