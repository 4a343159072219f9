---------------------------- MODULE GraphBuilder ----------------------------
(***************************************************************************)
(* context/graph_builder.build, run again and again in one process: seed,  *)
(* discover the nodes of all spans, then the edges of all spans, then      *)
(* attach the change events.  A pass takes one span, or event, per step.   *)
(*                                                                         *)
(* Node objects are on a heap: object <<r, n>> was created by build r, and *)
(* <<0, n>> is the reference topology's own, which lives as long as the    *)
(* process.  Edge types, protocols and tags are left out; the handlers of  *)
(* exceptions too, since ingested attributes are strings and none raises.  *)
(***************************************************************************)
EXTENDS Integers, Sequences, FiniteSets, SequencesExt

CONSTANTS
  Name,           \* identities found in spans and events
  Empty,          \* the empty string: falsy, but a value
  UnknownQueue,   \* "unknown-queue"
  OwnDatabase,    \* the synthetic "<service>-db" of each service
  Traces,         \* what may be ingested: sequences of spans
  Changes,        \* sequences of change events, in the order they are attached
  SeedType,       \* the reference topology: its nodes with their types
  SeedCalls,      \* and its edges
  MaxBuilds       \* bound: builds in one process

NodeType == {"service", "database", "queue", "external_dep"}

Attribute == {"db.system", "db.name", "db.namespace",
              "messaging.system", "messaging.destination", "messaging.destination.name",
              "peer.service"}

Value == Name \cup {Empty}

(* kind "server" stands for every kind that names no dependency; parent is
   Empty for a root span. *)
IsSpan(s) ==
  /\ s.kind \in {"server", "client", "producer", "consumer"}
  /\ s.service \in Name
  /\ DOMAIN s.attributes \subseteq Attribute
  /\ \A key \in DOMAIN s.attributes : s.attributes[key] \in Value
  /\ s.id # Empty

ASSUME GraphBuilderAssumption ==
  /\ Empty \notin Name
  /\ UnknownQueue \in Name
  /\ OwnDatabase \in [Name -> Name]
  /\ \A t \in Traces : t \in Seq(Range(t)) /\ \A i \in DOMAIN t : IsSpan(t[i])
  /\ \A c \in Changes : c \in Seq(Range(c)) /\ \A i \in DOMAIN c : c[i].service \in Name
  /\ DOMAIN SeedType \subseteq Name
  /\ \A n \in DOMAIN SeedType : SeedType[n] \in NodeType
  /\ SeedCalls \subseteq (DOMAIN SeedType) \X (DOMAIN SeedType)
  /\ MaxBuilds \in Nat \ {0}

VARIABLES
  round,     \* builds started
  pc,
  at,        \* the next span, or event, of the current pass
  spans, changes, seeded,   \* the arguments of this build
  node,      \* the graph's nodes: type and object
  calls,     \* the graph's edges
  recent     \* the heap: the change events attached to each object

vars == <<round, pc, at, spans, changes, seeded, node, calls, recent>>

----------------------------------------------------------------------------
(* What a span tells *)

Says(span, key) == key \in DOMAIN span.attributes

SaysAny(span, keys) == \E key \in keys : Says(span, key)

(* Python's a or b or default: the first key whose value is not empty. *)
FirstOf(span, keys, default) ==
  LET named == {i \in DOMAIN keys :
                  Says(span, keys[i]) /\ span.attributes[keys[i]] # Empty}
  IN  IF named = {} THEN default ELSE span.attributes[keys[Min(named)]]

DatabaseTarget(span) ==
  [id |-> FirstOf(span, <<"db.name", "db.namespace">>, OwnDatabase[span.service]),
   type |-> "database"]

QueueTarget(span) ==
  [id |-> FirstOf(span, <<"messaging.destination", "messaging.destination.name">>, UnknownQueue),
   type |-> "queue"]

PeerTarget(span) == [id |-> span.attributes["peer.service"], type |-> "external_dep"]

DatabaseKeys == {"db.system", "db.name", "db.namespace"}
QueueKeys == {"messaging.system", "messaging.destination", "messaging.destination.name"}

(* The dependency that a span calls: none, or one.  A database goes before a
   queue, and a queue before a peer. *)
InferTarget(span) ==
  CASE span.kind = "producer" -> {QueueTarget(span)}
    [] span.kind = "client" ->
         IF SaysAny(span, DatabaseKeys) THEN {DatabaseTarget(span)}
         ELSE IF SaysAny(span, QueueKeys) THEN {QueueTarget(span)}
         ELSE IF Says(span, "peer.service") THEN {PeerTarget(span)}
         ELSE {}
    [] OTHER -> {}

(* The nodes a span speaks of, each with the type it implies: the emitter is a
   service, unless it is itself the dependency. *)
Mentions(span) ==
  LET target == InferTarget(span)
  IN  [n \in {span.service} \cup {t.id : t \in target} |->
         IF \E t \in target : t.id = n THEN (CHOOSE t \in target : TRUE).type ELSE "service"]

(* The edge a span names by itself.  It uses fewer keys than InferTarget. *)
NamedCalls(span) ==
  LET destination == IF Says(span, "messaging.destination")
                     THEN span.attributes["messaging.destination"] ELSE UnknownQueue
      present == SelectSeq(<<"db.name", "messaging.destination", "peer.service">>,
                           LAMBDA key : Says(span, key))
  IN  CASE span.kind = "client" /\ present # <<>>
             /\ span.attributes[Head(present)] # Empty ->
             {<<span.service, span.attributes[Head(present)]>>}
        [] span.kind = "producer" -> {<<span.service, destination>>}
        [] span.kind = "consumer" -> {<<destination, span.service>>}
        [] OTHER -> {}

(* Mutant: a service may call itself. *)
OwnCallsToSelf(span) == NamedCalls(span)

OwnCalls(span) == {e \in NamedCalls(span) : e[1] # e[2]}

(* Mutant: the lookup only knows the spans met so far. *)
SpanLookupSoFar(id) == {j \in 1..(at - 1) : spans[j].id = id}

(* The span of a given id; of several, the last. *)
SpanLookup(id) ==
  {j \in DOMAIN spans : /\ spans[j].id = id
                        /\ \A k \in DOMAIN spans : k > j => spans[k].id # id}

(* The edge from the parent's service. *)
ParentCalls(span) ==
  {<<spans[j].service, span.service>> :
     j \in {k \in SpanLookup(span.parent) : spans[k].service # span.service}}

----------------------------------------------------------------------------
(* The passes *)

Reference == {<<0, n>> : n \in DOMAIN SeedType}

(* Mutant: the topology hands out its own nodes, without a copy. *)
GetNodeShared(build, n) == <<0, n>>

(* The topology's nodes are deep copies. *)
GetNode(build, n) == <<build, n>>

Init ==
  /\ round = 0
  /\ pc = "idle"
  /\ at = 1
  /\ spans = <<>> /\ changes = <<>> /\ seeded = FALSE
  /\ node = <<>>
  /\ calls = {}
  /\ recent = [o \in Reference |-> <<>>]

Build ==
  /\ pc = "idle"
  /\ round < MaxBuilds
  /\ round' = round + 1
  /\ spans' \in Traces
  /\ changes' \in Changes
  /\ seeded' \in BOOLEAN
  /\ LET seed == IF seeded' THEN DOMAIN SeedType ELSE {}
     IN  /\ node' = [n \in seed |-> [type |-> SeedType[n], object |-> GetNode(round', n)]]
         /\ recent' = [o \in Reference \cup {GetNode(round', n) : n \in seed} |->
                         recent[<<0, o[2]>>]]
  /\ calls' = IF seeded' THEN SeedCalls ELSE {}
  /\ pc' = "nodes"
  /\ UNCHANGED at

(* First discovery wins. *)
GetOrCreate(n, type) ==
  IF n \in DOMAIN node THEN node[n] ELSE [type |-> type, object |-> <<round, n>>]

DiscoverNodes ==
  /\ pc = "nodes"
  /\ at <= Len(spans)
  /\ LET found == Mentions(spans[at])
     IN  /\ node' = [n \in DOMAIN node \cup DOMAIN found |->
                       IF n \in DOMAIN found THEN GetOrCreate(n, found[n]) ELSE node[n]]
         /\ recent' = [o \in DOMAIN recent \cup {node'[n].object : n \in DOMAIN found} |->
                         IF o \in DOMAIN recent THEN recent[o] ELSE <<>>]
  /\ at' = at + 1
  /\ UNCHANGED <<round, pc, spans, changes, seeded, calls>>

(* An edge needs both its nodes. *)
DiscoverEdges ==
  /\ pc = "edges"
  /\ at <= Len(spans)
  /\ calls' = calls \cup ((OwnCalls(spans[at]) \cup ParentCalls(spans[at]))
                            \cap ((DOMAIN node) \X (DOMAIN node)))
  /\ at' = at + 1
  /\ UNCHANGED <<round, pc, spans, changes, seeded, node, recent>>

(* An event for a node that is missing, or is no service, is dropped. *)
AttachChangeEvents ==
  /\ pc = "events"
  /\ at <= Len(changes)
  /\ LET event == changes[at]
     IN  recent' = IF event.service \in DOMAIN node /\ node[event.service].type = "service"
                   THEN [recent EXCEPT ![node[event.service].object] = Append(@, event)]
                   ELSE recent
  /\ at' = at + 1
  /\ UNCHANGED <<round, pc, spans, changes, seeded, node, calls>>

EndPass ==
  /\ \/ pc = "nodes" /\ at > Len(spans) /\ pc' = "edges"
     \/ pc = "edges" /\ at > Len(spans) /\ pc' = "events"
     \/ pc = "events" /\ at > Len(changes) /\ pc' = "built"
  /\ at' = 1
  /\ UNCHANGED <<round, spans, changes, seeded, node, calls, recent>>

(* The request that asked for the graph ends, and drops it. *)
Drop ==
  /\ pc = "built"
  /\ pc' = "idle"
  /\ spans' = <<>> /\ changes' = <<>> /\ seeded' = FALSE
  /\ node' = <<>>
  /\ calls' = {}
  /\ recent' = [o \in Reference |-> recent[o]]
  /\ UNCHANGED <<round, at>>

Next == Build \/ DiscoverNodes \/ DiscoverEdges \/ AttachChangeEvents \/ EndPass \/ Drop

Spec == Init /\ [][Next]_vars

----------------------------------------------------------------------------
(* Properties *)

(* Every edge joins two nodes of the graph and no node calls itself; each node's
   object is on the heap (graph_builder.py: _add_edge, _get_or_create_node). *)
TypeOK ==
  /\ round \in 0..MaxBuilds
  /\ pc \in {"idle", "nodes", "edges", "events", "built"}
  /\ at \in 1..Len(spans) + Len(changes) + 1
  /\ DOMAIN node \subseteq Value
  /\ \A n \in DOMAIN node :
       node[n].type \in NodeType /\ node[n].object \in DOMAIN recent
  /\ \A e \in calls \ SeedCalls :
       {e[1], e[2]} \subseteq DOMAIN node /\ e[1] # e[2]
  /\ Reference \subseteq DOMAIN recent

(* r lists the elements of s at the positions in S, each once and in order. *)
Lists(r, s, S) ==
  \E f \in [DOMAIN r -> S] :
    /\ \A k, l \in DOMAIN r : k < l => f[k] < f[l]
    /\ \A i \in S : \E k \in DOMAIN r : f[k] = i
    /\ \A k \in DOMAIN r : r[k] = s[f[k]]

(* The positions, up to a point, of the events for a node. *)
EventsFor(n, upTo) ==
  {i \in 1..upTo : node[n].type = "service" /\ changes[i].service = n}

(* A graph carries the change events of its own request, each once and in
   order, on the services they are for, and none of an earlier request: the
   nodes of the topology are not shared between builds (topology.py: get_nodes). *)
EventsAreThisBuilds ==
  pc = "built" =>
    \A n \in DOMAIN node :
      Lists(recent[node[n].object], changes, EventsFor(n, Len(changes)))

(* The graph of a set of spans, given which span is meant by each id. *)
NodesOf(told) ==
  (IF seeded THEN DOMAIN SeedType ELSE {}) \cup UNION {DOMAIN Mentions(s) : s \in told}

EdgesOf(told, meant) ==
  LET children == {s \in told : s.parent \in DOMAIN meant}
      inherited == {<<meant[s.parent].service, s.service>> : s \in children}
      joined == (UNION {OwnCalls(s) : s \in told}) \cup {e \in inherited : e[1] # e[2]}
  IN  (IF seeded THEN SeedCalls ELSE {})
        \cup (joined \cap (NodesOf(told) \X NodesOf(told)))

(* The order in which spans are ingested decides one thing only: which of several spans
   of one id that id stands for, the same for all their children.  Up to that, nodes and
   edges come from the set of the spans: a child may come before its parent, and a call
   before what it calls (graph_builder.py: discover_nodes before discover_edges,
   span_lookup).  Spans with ids of their own have one graph, whatever their order. *)
OrderOnlyResolvesIds ==
  pc = "built" =>
    LET told == Range(spans)
    IN  /\ DOMAIN node = NodesOf(told)
        /\ \E meant \in [{s.id : s \in told} -> told] :
             /\ \A id \in DOMAIN meant : meant[id].id = id
             /\ calls = EdgesOf(told, meant)

(* What README.md and the assertion of rank_candidates say of the graph: it is
   a DAG.  Nothing in build sees to it. *)
GraphIsDAG ==
  pc = "built" =>
    \A S \in SUBSET DOMAIN node :
      S # {} => \E n \in S : \A m \in S : <<n, m>> \notin calls
============================================================================
