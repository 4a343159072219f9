-------------------------- MODULE MCDomainEngines --------------------------
(***************************************************************************)
(* Databases of up to two spans and two callers, and dependencies of up to *)
(* three calls, with everything at the ends of its range.                  *)
(***************************************************************************)
EXTENDS DomainEngines

SpanOf(system, at, error, duration, statement, exceptions) ==
  [system |-> system, named |-> system # "none", at |-> at, error |-> error,
   duration |-> duration, statement |-> statement, exceptions |-> exceptions]

Fast(system) == SpanOf(system, 0, FALSE, 10000, "get", {})
Failed(system, exceptions) == SpanOf(system, 300, TRUE, 10000, "put", exceptions)

Own(system) ==
  {Fast(system),
   Failed(system, {"other"}),
   Failed(system, {"integrity", "other"}),
   Failed(system, {"malformed"}),
   SpanOf(system, 301, TRUE, 60000, "put", {"integrity"}),
   SpanOf(system, -1, TRUE, 60000, "put", {"malformed"}),
   SpanOf(system, 10, FALSE, 10001, "none", {}),
   SpanOf(system, 10, FALSE, 30000, "scan", {}),
   SpanOf(system, 10, TRUE, 29999, "put", {})}

Lists(system) ==
  {<<>>} \cup {<<s>> : s \in Own(system)}
         \cup {<<s, t>> : s \in Own(system), t \in Own(system) \cup {Failed("none", {"other"})}}

(* A statement that runs often and one that is slow. *)
Mixed ==
  <<SpanOf("relational", 1, FALSE, 20000, "get", {}), SpanOf("relational", 1, FALSE, 20000, "get", {}),
    SpanOf("relational", 1, FALSE, 30000, "scan", {})>>

CallersOf ==
  {<<>>,
   <<<<[at |-> 300, exceptions |-> {"timeout"}]>>>>,
   <<<<[at |-> 301, exceptions |-> {"timeout", "malformed"}]>>>>,
   <<<<[at |-> 0, exceptions |-> {"timeout"}]>>, <<>>, <<[at |-> 5, exceptions |-> {"timeout", "other"}]>>>>,
   <<<<[at |-> 0, exceptions |-> {"malformed"}]>>>>}

At(mean, std) == <<[mean |-> mean, std |-> std]>>

Latencies ==
  {<< <<>>, <<>> >>, << <<>>, At(10000, 1) >>, << <<20000>>, <<>> >>,
   << <<10000>>, At(10000, 1) >>, << <<10001>>, At(10000, 1) >>,
   << <<30000>>, At(10000, 5000) >>, << <<12000>>, At(10000, 5000) >>}

DatabaseOf(spans, callers, latency, errors) ==
  [type |-> "DATABASE", spans |-> spans, callers |-> callers, latency |-> latency[1],
   latency_baseline |-> latency[2], error_baseline |-> errors]

MCDatabases ==
  {DatabaseOf(spans, callers, latency, errors) :
     spans \in Lists("relational") \cup {Mixed}, callers \in CallersOf,
     latency \in Latencies, errors \in {<<>>, At(5000, 1000)}}
  \cup
  {DatabaseOf(spans, <<>>, latency, errors) :
     spans \in Lists("cache") \cup Lists("none"), latency \in Latencies,
     errors \in {<<>>, At(5000, 1000)}}

CallOf(emitter, at, error, status, timeout) ==
  [emitter |-> emitter, at |-> at, error |-> error, status |-> status, timeout |-> timeout]

MCCalls ==
  {CallOf("checkout", 0, TRUE, 503, FALSE), CallOf("checkout", 300, FALSE, 200, FALSE),
   CallOf("billing", 5, TRUE, 500, FALSE), CallOf("billing", 5, TRUE, 429, FALSE),
   CallOf("billing", 301, TRUE, 503, FALSE), CallOf("checkout", 9, TRUE, 0, TRUE),
   CallOf("billing", -1, TRUE, 429, TRUE)}

(* A dependency may report spans of its own, as those of the simulator do. *)
Reported == CallOf("stripe", 3, TRUE, 503, FALSE)

DependencyOf(callers, calls) ==
  [type |-> "EXTERNAL_DEP", callers |-> callers, calls |-> calls]

MCDependencies ==
  {DependencyOf(callers, calls) :
     callers \in SUBSET {"checkout", "billing"},
     calls \in {<<>>} \cup {<<c>> : c \in MCCalls \cup {Reported}}
               \cup {<<c, d>> : c, d \in MCCalls} \cup {<<c, d, e>> : c, d, e \in MCCalls}}

MCPriorities == {5, 90}
=============================================================================
