------------------------- MODULE GraphBuilderProofs -------------------------
(***************************************************************************)
(* What every graph is, whatever spans and events are ingested in whatever *)
(* order and however many graphs one process builds: proofs about          *)
(* GraphBuilder.                                                           *)
(***************************************************************************)
EXTENDS GraphBuilder, TLAPS, WellFoundedInduction

Event == UNION {Range(c) : c \in Changes}

SeededCalls == IF seeded THEN SeedCalls ELSE {}

(* One of the first so many spans names the edge, or is a child of the last span of its
   parent's id. *)
Implied(e, upTo) ==
  \E i \in 1..upTo :
    \/ e \in OwnCalls(spans[i])
    \/ /\ e[2] = spans[i].service /\ e[1] # e[2]
       /\ \E j \in DOMAIN spans :
            /\ spans[j].id = spans[i].parent /\ spans[j].service = e[1]
            /\ \A k \in j + 1..Len(spans) : spans[k].id # spans[j].id

(* The edges once so many spans are read. *)
EdgesFrom(upTo) ==
  SeededCalls \cup {e \in (DOMAIN node) \X (DOMAIN node) : Implied(e, upTo)}

----------------------------------------------------------------------------
(* The inductive invariant *)

(* Where a build is in its arguments, and that none is under way between two. *)
Cursor ==
  /\ pc = "idle" => node = <<>> /\ calls = {} /\ at = 1 /\ spans = <<>> /\ changes = <<>>
  /\ pc # "idle" => spans \in Traces /\ changes \in Changes /\ round > 0
  /\ pc \in {"nodes", "edges"} => at <= Len(spans) + 1
  /\ pc = "events" => at <= Len(changes) + 1
  /\ pc = "built" => at = 1

(* The heap holds the topology's own nodes, without events, and the nodes that
   this build created or copied. *)
Heap ==
  /\ DOMAIN recent = Reference \cup {node[n].object : n \in DOMAIN node}
  /\ \A n \in DOMAIN node : node[n].object = <<round, n>>
  /\ \A o \in Reference : recent[o] = <<>>
  /\ \A o \in DOMAIN recent : recent[o] \in Seq(Event)

(* A node starts without events and gets those for it, one at a time. *)
Attached ==
  /\ pc \in {"nodes", "edges"} => \A n \in DOMAIN node : recent[node[n].object] = <<>>
  /\ pc = "events" =>
       \A n \in DOMAIN node :
         Lists(recent[node[n].object], changes, EventsFor(n, at - 1))

(* The graph starts with the topology's edges and gets those of one span after
   the other, once all nodes are there. *)
Joined ==
  /\ pc = "nodes" => calls = SeededCalls
  /\ pc = "edges" => calls = EdgesFrom(at - 1)
  /\ pc = "events" => calls = EdgesFrom(Len(spans))

(* And keeps them, when change events are attached, until it is built. *)
Settled == pc = "built" => calls = EdgesFrom(Len(spans))

IInv ==
  /\ TypeOK
  /\ Cursor
  /\ Heap
  /\ Attached
  /\ Joined
  /\ EventsAreThisBuilds
  /\ Settled

----------------------------------------------------------------------------
(* What a span tells *)

(* The first of two keys that has a value gives a value; without one the default
   is taken. *)
LEMMA FirstOfType ==
  ASSUME NEW span, IsSpan(span), NEW a, NEW b, NEW default \in Value
  PROVE  FirstOf(span, <<a, b>>, default) \in Value
<1> DEFINE keys == <<a, b>>
           named == {i \in DOMAIN keys : Says(span, keys[i])
                                           /\ span.attributes[keys[i]] # Empty}
<1>1. named \subseteq {1, 2}
  OBVIOUS
<1>2. \A i \in named : span.attributes[keys[i]] \in Value
  BY DEF IsSpan, Says
<1>3. FirstOf(span, <<a, b>>, default) =
        IF named = {} THEN default ELSE span.attributes[keys[Min(named)]]
  BY DEF FirstOf
<1> HIDE DEF named, keys
<1>4. named # {} => Min(named) \in named
  <2>1. CASE 1 \in named
    <3>1. 1 \in named /\ \A j \in named : 1 <= j
      BY <1>1, <2>1
    <3> QED
      BY <3>1 DEF Min
  <2>2. CASE 1 \notin named /\ 2 \in named
    <3>1. 2 \in named /\ \A j \in named : 2 <= j
      BY <1>1, <2>2
    <3> QED
      BY <3>1 DEF Min
  <2> QED
    BY <1>1, <2>1, <2>2
<1> QED
  BY <1>2, <1>3, <1>4

(* A span speaks of nodes with names, or of one whose name is empty, each with a
   type. *)
LEMMA MentionsType ==
  ASSUME NEW span, IsSpan(span)
  PROVE  /\ DOMAIN Mentions(span) \subseteq Value
         /\ \A n \in DOMAIN Mentions(span) : Mentions(span)[n] \in NodeType
<1>1. span.service \in Value /\ UnknownQueue \in Value /\ OwnDatabase[span.service] \in Value
  BY GraphBuilderAssumption DEF IsSpan, Value
<1>2. /\ DatabaseTarget(span).id \in Value /\ DatabaseTarget(span).type \in NodeType
      /\ QueueTarget(span).id \in Value /\ QueueTarget(span).type \in NodeType
  BY <1>1, FirstOfType DEF DatabaseTarget, QueueTarget, NodeType
<1>3. Says(span, "peer.service") =>
        PeerTarget(span).id \in Value /\ PeerTarget(span).type \in NodeType
  BY DEF IsSpan, Says, PeerTarget, NodeType
<1> DEFINE target == InferTarget(span)
<1>4. \A t \in target : t.id \in Value /\ t.type \in NodeType
  <2>1. \/ target = {} \/ target = {QueueTarget(span)} \/ target = {DatabaseTarget(span)}
        \/ Says(span, "peer.service") /\ target = {PeerTarget(span)}
    BY DEF IsSpan, InferTarget
  <2> HIDE DEF target
  <2> QED
    BY <1>2, <1>3, <2>1
<1>5. Mentions(span) =
        [n \in {span.service} \cup {t.id : t \in target} |->
           IF \E t \in target : t.id = n THEN (CHOOSE t \in target : TRUE).type
                                         ELSE "service"]
  BY DEF Mentions
<1> HIDE DEF target
<1>6. "service" \in NodeType
  BY DEF NodeType
<1>7. target # {} => (CHOOSE t \in target : TRUE) \in target
  OBVIOUS
<1> QED
  BY <1>1, <1>4, <1>5, <1>6, <1>7

(* No span names an edge from a node to itself. *)
LEMMA OwnCallsJoinTwo == \A span : \A e \in OwnCalls(span) : e[1] # e[2]
BY DEF OwnCalls

(* The ends of an edge among the nodes. *)
LEMMA PairEnds ==
  ASSUME NEW S, NEW e \in S \X S
  PROVE  e = <<e[1], e[2]>> /\ e[1] \in S /\ e[2] \in S
OBVIOUS

(* What a span adds is what it implies: the edge it names and the one from the
   service of the last span of its parent's id. *)
LEMMA SpanImplies ==
  ASSUME NEW i \in DOMAIN spans, NEW e, e = <<e[1], e[2]>>,
         Len(spans) \in Nat, DOMAIN spans = 1..Len(spans)
  PROVE  e \in OwnCalls(spans[i]) \cup ParentCalls(spans[i]) <=>
           \/ e \in OwnCalls(spans[i])
           \/ /\ e[2] = spans[i].service /\ e[1] # e[2]
              /\ \E j \in DOMAIN spans :
                   /\ spans[j].id = spans[i].parent /\ spans[j].service = e[1]
                   /\ \A k \in j + 1..Len(spans) : spans[k].id # spans[j].id
<1>1. \A j \in DOMAIN spans : \A k : k \in j + 1..Len(spans) <=> k \in DOMAIN spans /\ k > j
  OBVIOUS
<1>2. \A j : j \in SpanLookup(spans[i].parent) <=>
        /\ j \in DOMAIN spans
        /\ spans[j].id = spans[i].parent
        /\ \A k \in j + 1..Len(spans) : spans[k].id # spans[j].id
  BY <1>1 DEF SpanLookup
<1>3. e \in ParentCalls(spans[i]) <=>
        \E j \in SpanLookup(spans[i].parent) :
          /\ spans[j].service # spans[i].service
          /\ e = <<spans[j].service, spans[i].service>>
  BY DEF ParentCalls
<1>4. \A a, b : e = <<a, b>> <=> e[1] = a /\ e[2] = b
  OBVIOUS
<1> QED
  BY <1>2, <1>3, <1>4

----------------------------------------------------------------------------
(* Lists of events *)

LEMMA NothingListed == \A s : Lists(<<>>, s, {})
<1> SUFFICES ASSUME NEW s PROVE Lists(<<>>, s, {})
  OBVIOUS
<1> DEFINE f == [k \in DOMAIN <<>> |-> 0]
<1>1. DOMAIN <<>> = {} /\ f \in [DOMAIN <<>> -> {}]
  OBVIOUS
<1> HIDE DEF f
<1> QED
  BY <1>1 DEF Lists

(* Appending the element at a position past those listed lists it too. *)
LEMMA OneMoreListed ==
  ASSUME NEW T, NEW r \in Seq(T), NEW s, NEW S \in SUBSET Nat, NEW i \in Nat,
         s[i] \in T, \A j \in S : j < i, Lists(r, s, S)
  PROVE  Lists(Append(r, s[i]), s, S \cup {i})
<1> DEFINE n == Len(r)
           q == Append(r, s[i])
<1>1. n \in Nat /\ DOMAIN r = 1..n
  OBVIOUS
<1>2. /\ DOMAIN q = 1..(n + 1)
      /\ \A k \in 1..n : q[k] = r[k]
      /\ q[n + 1] = s[i]
  OBVIOUS
<1>3. PICK f \in [DOMAIN r -> S] :
        /\ \A k, l \in DOMAIN r : k < l => f[k] < f[l]
        /\ \A j \in S : \E k \in DOMAIN r : f[k] = j
        /\ \A k \in DOMAIN r : r[k] = s[f[k]]
  BY DEF Lists
<1> HIDE DEF n, q
<1> DEFINE g == [k \in 1..(n + 1) |-> IF k = n + 1 THEN i ELSE f[k]]
<1>4. \A k \in 1..(n + 1) : k = n + 1 \/ k \in 1..n
  BY <1>1
<1>5. g[n + 1] = i /\ \A k \in 1..n : g[k] = f[k] /\ k < n + 1 /\ k \in 1..(n + 1)
  BY <1>1
<1>6. g \in [DOMAIN q -> S \cup {i}]
  BY <1>1, <1>2, <1>3, <1>4
<1> HIDE DEF g
<1>7. ASSUME NEW k \in DOMAIN q, NEW l \in DOMAIN q, k < l PROVE g[k] < g[l]
  <2>1. k \in 1..n
    BY <1>1, <1>2, <1>7
  <2>2. f[k] \in S
    BY <1>1, <1>3, <2>1
  <2>3. CASE l = n + 1
    BY <1>5, <2>1, <2>2, <2>3
  <2>4. CASE l \in 1..n
    BY <1>1, <1>3, <1>5, <1>7, <2>1, <2>4
  <2> QED
    BY <1>2, <1>4, <2>3, <2>4
<1>8. \A j \in S \cup {i} : \E k \in DOMAIN q : g[k] = j
  <2>1. n + 1 \in DOMAIN q
    BY <1>1, <1>2
  <2>2. \A j \in S : \E k \in DOMAIN q : g[k] = j
    BY <1>1, <1>2, <1>3, <1>5
  <2> QED
    BY <1>5, <2>1, <2>2
<1>9. \A k \in DOMAIN q : q[k] = s[g[k]]
  BY <1>1, <1>2, <1>3, <1>4, <1>5
<1>10. Lists(q, s, S \cup {i})
  BY <1>6, <1>7, <1>8, <1>9 DEF Lists
<1> QED
  BY <1>10 DEF q

(* The arguments of a build are lists of spans and of events for names. *)
LEMMA Arguments ==
  ASSUME Cursor
  PROVE  /\ Len(spans) \in Nat /\ DOMAIN spans = 1..Len(spans)
         /\ Len(changes) \in Nat /\ DOMAIN changes = 1..Len(changes)
         /\ \A i \in DOMAIN spans : IsSpan(spans[i])
         /\ \A i \in DOMAIN changes : changes[i] \in Event
<1>1. CASE pc = "idle"
  BY <1>1 DEF Cursor
<1>2. CASE pc # "idle"
  <2>1. spans \in Traces /\ changes \in Changes
    BY <1>2 DEF Cursor
  <2>2. spans \in Seq(Range(spans)) /\ changes \in Seq(Range(changes))
    BY <2>1, GraphBuilderAssumption
  <2>3. \A i \in DOMAIN changes : changes[i] \in Range(changes)
    BY DEF Range
  <2>4. \A i \in DOMAIN spans : IsSpan(spans[i])
    BY <2>1, GraphBuilderAssumption
  <2> QED
    BY <2>1, <2>2, <2>3, <2>4 DEF Event
<1> QED
  BY <1>1, <1>2

----------------------------------------------------------------------------
(* The invariant is inductive *)

LEMMA InitIInv == Init => IInv
<1> SUFFICES ASSUME Init PROVE IInv
  OBVIOUS
<1>1. 0 \in 0..MaxBuilds
  BY GraphBuilderAssumption
<1>2. at \in 1..Len(spans) + Len(changes) + 1
  BY DEF Init
<1>3. DOMAIN node = {}
  BY DEF Init
<1>4. TypeOK
  BY <1>1, <1>2, <1>3 DEF Init, TypeOK
<1>5. Heap
  BY <1>3 DEF Init, Heap
<1> QED
  BY <1>4, <1>5 DEF Init, IInv, Cursor, Attached, Joined, EventsAreThisBuilds,
                    Settled

(* A build starts with copies of the topology's nodes, which have no events. *)
LEMMA BuildIInv == IInv /\ Build => IInv'
<1> SUFFICES ASSUME IInv, Build PROVE IInv'
  OBVIOUS
<1> DEFINE seed == IF seeded' THEN DOMAIN SeedType ELSE {}
<1>1. /\ round' = round + 1
      /\ spans' \in Traces /\ changes' \in Changes /\ seeded' \in BOOLEAN
      /\ node' = [n \in seed |-> [type |-> SeedType[n], object |-> <<round', n>>]]
      /\ recent' = [o \in Reference \cup {<<round', n>> : n \in seed} |->
                      recent[<<0, o[2]>>]]
      /\ calls' = IF seeded' THEN SeedCalls ELSE {}
      /\ pc' = "nodes" /\ at' = at
  BY DEF Build, GetNode
<1>2. round \in Nat /\ round' \in 0..MaxBuilds /\ round' > 0 /\ at = 1
  BY GraphBuilderAssumption DEF IInv, TypeOK, Cursor, Build
<1>3. /\ seed \subseteq DOMAIN SeedType
      /\ seed \subseteq Value
      /\ \A n \in seed : SeedType[n] \in NodeType
  BY GraphBuilderAssumption DEF Value
<1> HIDE DEF seed
<1>4. /\ DOMAIN node' = seed
      /\ \A n \in seed : node'[n].type = SeedType[n] /\ node'[n].object = <<round', n>>
  BY <1>1
<1>5. /\ DOMAIN recent' = Reference \cup {node'[n].object : n \in DOMAIN node'}
      /\ \A o \in DOMAIN recent' : recent'[o] = <<>>
  <2>1. DOMAIN recent' = Reference \cup {<<round', n>> : n \in seed}
    BY <1>1
  <2>2. \A o \in DOMAIN recent' : <<0, o[2]>> \in Reference
    BY <1>3, <2>1 DEF Reference
  <2>3. \A o \in DOMAIN recent' : recent'[o] = recent[<<0, o[2]>>]
    BY <1>1, <2>1
  <2>4. \A o \in DOMAIN recent' : recent'[o] = <<>>
    BY <2>2, <2>3 DEF IInv, Heap
  <2>5. {<<round', n>> : n \in seed} = {node'[n].object : n \in DOMAIN node'}
    BY <1>4
  <2> QED
    BY <2>1, <2>4, <2>5
<1>6. Len(spans') \in Nat /\ Len(changes') \in Nat
  BY <1>1, GraphBuilderAssumption
<1>7. TypeOK'
  <2>1. at' \in 1..Len(spans') + Len(changes') + 1
    BY <1>1, <1>2, <1>6
  <2>2. \A n \in DOMAIN node' :
          node'[n].type \in NodeType /\ node'[n].object \in DOMAIN recent'
    BY <1>3, <1>4, <1>5
  <2>3. calls' \ SeedCalls = {}
    BY <1>1
  <2> QED
    BY <1>1, <1>2, <1>3, <1>4, <1>5, <2>1, <2>2, <2>3 DEF TypeOK
<1>8. Cursor'
  BY <1>1, <1>2, <1>6 DEF Cursor
<1>9. Heap'
  <2>1. <<>> \in Seq(Event)
    OBVIOUS
  <2> QED
    BY <1>4, <1>5, <2>1 DEF Heap, Reference
<1>10. Attached' /\ Joined' /\ EventsAreThisBuilds' /\ Settled'
  BY <1>1, <1>4, <1>5 DEF Attached, Joined, SeededCalls, EventsAreThisBuilds,
                          Settled
<1> QED
  BY <1>7, <1>8, <1>9, <1>10 DEF IInv

(* A node that is there stays as it is; a new one has an object of this build and
   no events. *)
LEMMA DiscoverNodesIInv == IInv /\ DiscoverNodes => IInv'
<1> SUFFICES ASSUME IInv, DiscoverNodes PROVE IInv'
  OBVIOUS
<1> DEFINE found == Mentions(spans[at])
<1>1. /\ pc = "nodes" /\ pc' = pc /\ at <= Len(spans) /\ at' = at + 1
      /\ UNCHANGED <<round, spans, changes, seeded, calls>>
      /\ node' = [n \in DOMAIN node \cup DOMAIN found |->
                    IF n \in DOMAIN found THEN GetOrCreate(n, found[n]) ELSE node[n]]
      /\ recent' = [o \in DOMAIN recent \cup {node'[n].object : n \in DOMAIN found} |->
                      IF o \in DOMAIN recent THEN recent[o] ELSE <<>>]
  BY DEF DiscoverNodes
<1>2. /\ Len(spans) \in Nat /\ Len(changes) \in Nat
      /\ at \in DOMAIN spans /\ at \in Nat /\ round > 0
      /\ IsSpan(spans[at])
  BY <1>1, Arguments DEF IInv, Cursor, TypeOK
<1>3. /\ DOMAIN found \subseteq Value
      /\ \A n \in DOMAIN found : found[n] \in NodeType
  BY <1>2, MentionsType
<1> HIDE DEF found
<1>4. DOMAIN node' = DOMAIN node \cup DOMAIN found
  BY <1>1
<1>5. /\ \A n \in DOMAIN node : node'[n] = node[n]
      /\ \A n \in DOMAIN found \ DOMAIN node :
           node'[n] = [type |-> found[n], object |-> <<round, n>>]
  BY <1>1 DEF GetOrCreate
<1>6. \A n \in DOMAIN node' : node'[n].object = <<round, n>> /\ node'[n].type \in NodeType
  BY <1>3, <1>4, <1>5 DEF IInv, Heap, TypeOK
<1>7. DOMAIN recent' = Reference \cup {node'[n].object : n \in DOMAIN node'}
  <2>1. DOMAIN recent' = DOMAIN recent \cup {node'[n].object : n \in DOMAIN found}
    BY <1>1
  <2>2. DOMAIN recent = Reference \cup {node[n].object : n \in DOMAIN node}
    BY DEF IInv, Heap
  <2> QED
    BY <1>4, <1>5, <2>1, <2>2
<1>8. /\ \A o \in DOMAIN recent : recent'[o] = recent[o]
      /\ \A o \in DOMAIN recent' \ DOMAIN recent : recent'[o] = <<>>
  BY <1>1
<1>9. TypeOK'
  <2>1. at' \in 1..Len(spans') + Len(changes') + 1
    BY <1>1, <1>2
  <2>2. \A e \in calls' \ SeedCalls : {e[1], e[2]} \subseteq DOMAIN node' /\ e[1] # e[2]
    BY <1>1, <1>4 DEF IInv, TypeOK
  <2>3. DOMAIN node' \subseteq Value
    BY <1>3, <1>4 DEF IInv, TypeOK
  <2> QED
    BY <1>1, <1>6, <1>7, <2>1, <2>2, <2>3 DEF IInv, TypeOK
<1>10. Cursor'
  BY <1>1, <1>2 DEF IInv, Cursor
<1>11. Heap'
  <2>1. \A o \in Reference : o \in DOMAIN recent /\ recent[o] = <<>>
    BY DEF IInv, Heap, TypeOK
  <2>2. \A o \in DOMAIN recent' : recent'[o] \in Seq(Event)
    <3>1. <<>> \in Seq(Event)
      OBVIOUS
    <3> QED
      BY <1>8, <3>1 DEF IInv, Heap
  <2>3. Reference' = Reference
    BY DEF Reference
  <2> QED
    BY <1>1, <1>6, <1>7, <1>8, <2>1, <2>2, <2>3 DEF Heap
<1>12. Attached'
  <2>1. ASSUME NEW n \in DOMAIN node' PROVE recent'[node'[n].object] = <<>>
    <3>1. CASE n \in DOMAIN node
      BY <1>1, <1>5, <1>8, <3>1 DEF IInv, Attached, TypeOK
    <3>2. CASE n \notin DOMAIN node
      <4>1. node'[n].object = <<round, n>> /\ node'[n].object \in DOMAIN recent'
        BY <1>6, <1>7
      <4>2. <<round, n>> \notin DOMAIN recent
        <5>1. <<round, n>> \notin Reference
          BY <1>2 DEF Reference
        <5>2. \A m \in DOMAIN node : node[m].object = <<round, m>>
          BY DEF IInv, Heap
        <5>3. \A m \in DOMAIN node : <<round, n>> # <<round, m>>
          BY <3>2
        <5> QED
          BY <5>1, <5>2, <5>3 DEF IInv, Heap
      <4> QED
        BY <1>8, <4>1, <4>2
    <3> QED
      BY <3>1, <3>2
  <2> QED
    BY <1>1, <2>1 DEF Attached
<1>13. Joined' /\ EventsAreThisBuilds' /\ Settled'
  BY <1>1 DEF IInv, Joined, SeededCalls, EventsAreThisBuilds, Settled
<1> QED
  BY <1>9, <1>10, <1>11, <1>12, <1>13 DEF IInv

(* A span adds the edges it implies between nodes that are there. *)
LEMMA DiscoverEdgesIInv == IInv /\ DiscoverEdges => IInv'
<1> SUFFICES ASSUME IInv, DiscoverEdges PROVE IInv'
  OBVIOUS
<1> DEFINE pairs == (DOMAIN node) \X (DOMAIN node)
           new == (OwnCalls(spans[at]) \cup ParentCalls(spans[at])) \cap pairs
<1>1. /\ pc = "edges" /\ pc' = pc /\ at <= Len(spans) /\ at' = at + 1
      /\ UNCHANGED <<round, spans, changes, seeded, node, recent>>
      /\ calls' = calls \cup new
  BY DEF DiscoverEdges
<1>2. /\ Len(spans) \in Nat /\ DOMAIN spans = 1..Len(spans) /\ Len(changes) \in Nat
      /\ at \in DOMAIN spans /\ at \in Nat
  BY <1>1, Arguments DEF IInv, Cursor, TypeOK
<1>3. \A e \in new : e \in pairs /\ e = <<e[1], e[2]>> /\ e[1] # e[2]
  BY OwnCallsJoinTwo DEF ParentCalls
<1>4. TypeOK'
  <2>1. at' \in 1..Len(spans') + Len(changes') + 1
    BY <1>1, <1>2
  <2>2. \A e \in new : {e[1], e[2]} \subseteq DOMAIN node /\ e[1] # e[2]
    BY <1>3
  <2> HIDE DEF new
  <2>3. \A e \in calls' \ SeedCalls : {e[1], e[2]} \subseteq DOMAIN node' /\ e[1] # e[2]
    BY <1>1, <2>2 DEF IInv, TypeOK
  <2> QED
    BY <1>1, <2>1, <2>3 DEF IInv, TypeOK, Reference
<1>5. Cursor'
  BY <1>1, <1>2 DEF IInv, Cursor
<1>6. Heap' /\ Attached' /\ EventsAreThisBuilds' /\ Settled'
  BY <1>1 DEF IInv, Heap, Attached, EventsAreThisBuilds, Settled, Reference
<1>7. Joined'
  <2>1. calls = EdgesFrom(at - 1)
    BY <1>1 DEF IInv, Joined
  <2>2. ASSUME NEW e \in pairs
        PROVE  Implied(e, at) <=> Implied(e, at - 1) \/ e \in new
    <3>1. \A i : i \in 1..at <=> i \in 1..(at - 1) \/ i = at
      BY <1>2
    <3>2. e = <<e[1], e[2]>>
      OBVIOUS
    <3>3. e \in new <=> e \in OwnCalls(spans[at]) \cup ParentCalls(spans[at])
      OBVIOUS
    <3> HIDE DEF new, pairs
    <3>4. e \in new <=>
            \/ e \in OwnCalls(spans[at])
            \/ /\ e[2] = spans[at].service /\ e[1] # e[2]
               /\ \E j \in DOMAIN spans :
                    /\ spans[j].id = spans[at].parent /\ spans[j].service = e[1]
                    /\ \A k \in j + 1..Len(spans) : spans[k].id # spans[j].id
      BY <1>2, <3>2, <3>3, SpanImplies
    <3> QED
      BY <3>1, <3>4 DEF Implied
  <2>3. new \subseteq pairs
    OBVIOUS
  <2>4. EdgesFrom(at) = EdgesFrom(at - 1) \cup new
    <3>1. \A e : e \in EdgesFrom(at) <=>
                   e \in SeededCalls \/ (e \in pairs /\ Implied(e, at))
      BY DEF EdgesFrom, SeededCalls
    <3>2. \A e : e \in EdgesFrom(at - 1) <=>
                   e \in SeededCalls \/ (e \in pairs /\ Implied(e, at - 1))
      BY DEF EdgesFrom, SeededCalls
    <3> HIDE DEF new, pairs
    <3> QED
      BY <2>2, <2>3, <3>1, <3>2
  <2>5. calls' = EdgesFrom(at)
    BY <1>1, <2>1, <2>4
  <2>6. EdgesFrom(at - 1)' = EdgesFrom(at)
    <3>1. at' - 1 = at
      BY <1>1, <1>2
    <3>2. \A e : Implied(e, at - 1)' <=> Implied(e, at)
      BY <1>1, <3>1 DEF Implied
    <3> QED
      BY <1>1, <3>2 DEF EdgesFrom, SeededCalls
  <2>7. calls' = EdgesFrom(at - 1)'
    BY <2>5, <2>6
  <2> QED
    BY <1>1, <2>7 DEF Joined
<1> QED
  BY <1>4, <1>5, <1>6, <1>7 DEF IInv

(* An event goes to the object of the service it is for, which no other node and no
   other build has, or nowhere. *)
LEMMA AttachChangeEventsIInv == IInv /\ AttachChangeEvents => IInv'
<1> SUFFICES ASSUME IInv, AttachChangeEvents PROVE IInv'
  OBVIOUS
<1> DEFINE event == changes[at]
           goes == event.service \in DOMAIN node /\ node[event.service].type = "service"
           target == node[event.service].object
<1>1. /\ pc = "events" /\ pc' = pc /\ at <= Len(changes) /\ at' = at + 1
      /\ UNCHANGED <<round, spans, changes, seeded, node, calls>>
      /\ recent' = IF goes THEN [recent EXCEPT ![target] = Append(recent[target], event)]
                   ELSE recent
  BY DEF AttachChangeEvents
<1>2. /\ Len(changes) \in Nat /\ DOMAIN changes = 1..Len(changes) /\ Len(spans) \in Nat
      /\ at \in DOMAIN changes /\ at \in Nat /\ round > 0
      /\ event \in Event
  BY <1>1, Arguments DEF IInv, Cursor, TypeOK
<1> HIDE DEF event
<1>3. goes => /\ target = <<round, event.service>>
              /\ target \in DOMAIN recent
              /\ recent[target] \in Seq(Event)
  BY DEF IInv, Heap, TypeOK
<1>4. DOMAIN recent' = DOMAIN recent
  BY <1>1
<1>5. TypeOK'
  <2>1. at' \in 1..Len(spans') + Len(changes') + 1
    BY <1>1, <1>2
  <2>2. round' = round /\ node' = node /\ calls' = calls /\ Reference' = Reference
    BY <1>1 DEF Reference
  <2> QED
    BY <1>1, <1>4, <2>1, <2>2 DEF IInv, TypeOK
<1>6. Cursor'
  BY <1>1, <1>2 DEF IInv, Cursor
<1>7. Heap'
  <2>1. \A o \in DOMAIN recent' : recent'[o] \in Seq(Event)
    <3>1. goes => Append(recent[target], event) \in Seq(Event)
      BY <1>2, <1>3
    <3> HIDE DEF goes, target
    <3> QED
      BY <1>1, <3>1 DEF IInv, Heap
  <2>2. \A o \in Reference : recent'[o] = <<>>
    <3>1. goes => target \notin Reference
      BY <1>2, <1>3 DEF Reference
    <3> HIDE DEF goes, target
    <3> QED
      BY <1>1, <3>1 DEF IInv, Heap, TypeOK
  <2>3. round' = round /\ node' = node /\ Reference' = Reference
    BY <1>1 DEF Reference
  <2> QED
    BY <1>4, <2>1, <2>2, <2>3 DEF IInv, Heap
<1>8. Attached'
  <2>1. ASSUME NEW n \in DOMAIN node
        PROVE  Lists(recent'[node[n].object], changes, EventsFor(n, at))
    <3> DEFINE o == node[n].object
    <3>1. /\ o = <<round, n>> /\ o \in DOMAIN recent /\ recent[o] \in Seq(Event)
          /\ Lists(recent[o], changes, EventsFor(n, at - 1))
      BY <1>1 DEF IInv, Heap, TypeOK, Attached
    <3>2. \A i : i \in 1..at <=> i \in 1..(at - 1) \/ i = at
      BY <1>2
    <3>3. CASE goes /\ n = event.service
      <4>1. recent'[o] = Append(recent[o], event)
        BY <1>1, <3>1, <3>3
      <4>2. EventsFor(n, at) = EventsFor(n, at - 1) \cup {at}
        BY <3>2, <3>3 DEF EventsFor, event
      <4>3. EventsFor(n, at - 1) \in SUBSET Nat /\ \A j \in EventsFor(n, at - 1) : j < at
        BY <1>2 DEF EventsFor
      <4> HIDE DEF o
      <4>4. Lists(Append(recent[o], changes[at]), changes, EventsFor(n, at - 1) \cup {at})
        BY <1>2, <3>1, <4>3, OneMoreListed DEF event
      <4> QED
        BY <4>1, <4>2, <4>4 DEF event, o
    <3>4. CASE ~(goes /\ n = event.service)
      <4>1. recent'[o] = recent[o]
        <5>1. goes => target # o
          BY <1>3, <3>1, <3>4
        <5> HIDE DEF goes, target, o
        <5> QED
          BY <1>1, <3>1, <5>1
      <4>2. EventsFor(n, at) = EventsFor(n, at - 1)
        BY <2>1, <3>2, <3>4 DEF EventsFor, event
      <4> QED
        BY <3>1, <4>1, <4>2
    <3> QED
      BY <3>3, <3>4
  <2>2. at' - 1 = at
    BY <1>1, <1>2
  <2>3. ASSUME NEW n PROVE EventsFor(n, at - 1)' = EventsFor(n, at)
    BY <1>1, <2>2 DEF EventsFor
  <2> QED
    BY <1>1, <2>1, <2>3 DEF Attached
<1>9. Joined' /\ EventsAreThisBuilds' /\ Settled'
  <2>1. EdgesFrom(Len(spans))' = EdgesFrom(Len(spans))
    <3>1. \A e : Implied(e, Len(spans))' <=> Implied(e, Len(spans))
      BY <1>1 DEF Implied
    <3> QED
      BY <1>1, <3>1 DEF EdgesFrom, SeededCalls
  <2> QED
    BY <1>1, <2>1 DEF IInv, Joined, EventsAreThisBuilds, Settled
<1> QED
  BY <1>5, <1>6, <1>7, <1>8, <1>9 DEF IInv

(* A pass ends when it has taken everything, and the next starts at the first. *)
LEMMA EndPassIInv == IInv /\ EndPass => IInv'
<1> SUFFICES ASSUME IInv, EndPass PROVE IInv'
  OBVIOUS
<1>1. /\ at' = 1
      /\ UNCHANGED <<round, spans, changes, seeded, node, calls, recent>>
  BY DEF EndPass
<1>2. /\ pc # "idle"
      /\ Len(spans) \in Nat /\ Len(changes) \in Nat /\ at \in Nat
  BY Arguments DEF EndPass, IInv, TypeOK
<1>3. TypeOK' /\ Heap'
  <2>1. pc' \in {"nodes", "edges", "events", "built"} /\ Reference' = Reference
    BY DEF EndPass, Reference
  <2>2. at' \in 1..Len(spans') + Len(changes') + 1
    BY <1>1, <1>2
  <2> QED
    BY <1>1, <2>1, <2>2 DEF IInv, TypeOK, Heap
<1>4. Cursor'
  BY <1>1, <1>2 DEF EndPass, IInv, Cursor
<1>5. /\ EdgesFrom(Len(spans))' = EdgesFrom(Len(spans))
      /\ EdgesFrom(at - 1)' = SeededCalls
  <2>1. \A e : Implied(e, Len(spans))' <=> Implied(e, Len(spans))
    BY <1>1 DEF Implied
  <2>2. 1..(at' - 1) = {}
    BY <1>1
  <2>3. \A e : ~Implied(e, at - 1)'
    BY <2>2 DEF Implied
  <2> QED
    BY <1>1, <2>1, <2>3 DEF EdgesFrom, SeededCalls
<1>6. CASE pc = "nodes" /\ pc' = "edges"
  <2>1. Attached'
    BY <1>1, <1>6 DEF IInv, Attached
  <2>2. Joined'
    BY <1>1, <1>5, <1>6 DEF IInv, Joined
  <2> QED
    BY <1>3, <1>4, <1>6, <2>1, <2>2 DEF IInv, EventsAreThisBuilds, Settled
<1>7. CASE pc = "edges" /\ at > Len(spans) /\ pc' = "events"
  <2>1. at - 1 = Len(spans)
    BY <1>2, <1>7 DEF IInv, Cursor
  <2>2. Joined'
    BY <1>1, <1>5, <1>7, <2>1 DEF IInv, Joined
  <2>3. ASSUME NEW n PROVE EventsFor(n, at - 1)' = {}
    BY <1>1 DEF EventsFor
  <2>4. Attached'
    BY <1>1, <1>7, <2>3, NothingListed DEF IInv, Attached
  <2> QED
    BY <1>3, <1>4, <1>7, <2>2, <2>4 DEF IInv, EventsAreThisBuilds, Settled
<1>8. CASE pc = "events" /\ at > Len(changes) /\ pc' = "built"
  <2>1. at - 1 = Len(changes)
    BY <1>2, <1>8 DEF IInv, Cursor
  <2>2. Settled'
    BY <1>1, <1>5, <1>8 DEF IInv, Joined, Settled
  <2>3. ASSUME NEW n PROVE EventsFor(n, Len(changes))' = EventsFor(n, at - 1)
    BY <1>1, <2>1 DEF EventsFor
  <2>4. EventsAreThisBuilds'
    BY <1>1, <1>8, <2>3 DEF IInv, Attached, EventsAreThisBuilds
  <2>5. Attached' /\ Joined'
    BY <1>8 DEF Attached, Joined
  <2> QED
    BY <1>3, <1>4, <2>2, <2>4, <2>5 DEF IInv
<1> QED
  BY <1>6, <1>7, <1>8 DEF EndPass

(* What a request leaves behind is the topology, as it was. *)
LEMMA DropIInv == IInv /\ Drop => IInv'
<1> SUFFICES ASSUME IInv, Drop PROVE IInv'
  OBVIOUS
<1>1. /\ pc' = "idle" /\ spans' = <<>> /\ changes' = <<>> /\ seeded' = FALSE
      /\ node' = <<>> /\ calls' = {} /\ at' = at /\ round' = round
      /\ recent' = [o \in Reference |-> recent[o]]
  BY DEF Drop
<1>2. at = 1 /\ DOMAIN node' = {} /\ Reference' = Reference
  BY <1>1 DEF Drop, IInv, Cursor, Reference
<1>3. at' \in 1..Len(spans') + Len(changes') + 1
  BY <1>1, <1>2
<1>4. TypeOK'
  BY <1>1, <1>2, <1>3 DEF IInv, TypeOK
<1>5. Heap'
  BY <1>1, <1>2 DEF IInv, Heap, TypeOK
<1> QED
  BY <1>1, <1>2, <1>4, <1>5 DEF IInv, Cursor, Attached, Joined, EventsAreThisBuilds,
                                Settled

LEMMA StutterIInv == IInv /\ UNCHANGED vars => IInv'
<1> SUFFICES ASSUME IInv, UNCHANGED vars PROVE IInv'
  OBVIOUS
<1>1. UNCHANGED <<round, pc, at, spans, changes, seeded, node, calls, recent>>
  BY DEF vars
<1>2. TypeOK' /\ Cursor' /\ Heap'
  BY <1>1 DEF IInv, TypeOK, Cursor, Heap, Reference
<1>3. /\ EdgesFrom(Len(spans))' = EdgesFrom(Len(spans))
      /\ EdgesFrom(at - 1)' = EdgesFrom(at - 1)
  BY <1>1 DEF EdgesFrom, Implied, SeededCalls
<1>4. ASSUME NEW n
      PROVE  /\ EventsFor(n, at - 1)' = EventsFor(n, at - 1)
             /\ EventsFor(n, Len(changes))' = EventsFor(n, Len(changes))
  BY <1>1 DEF EventsFor
<1>5. Attached' /\ EventsAreThisBuilds'
  BY <1>1, <1>4 DEF IInv, Attached, EventsAreThisBuilds
<1>6. Joined' /\ Settled'
  BY <1>1, <1>3 DEF IInv, Joined, SeededCalls, Settled
<1> QED
  BY <1>2, <1>5, <1>6 DEF IInv

----------------------------------------------------------------------------
(* The theorems *)

(* The invariant holds whatever is built. *)
LEMMA Invariance == Spec => []IInv
<1>1. IInv /\ [Next]_vars => IInv'
  BY BuildIInv, DiscoverNodesIInv, DiscoverEdgesIInv, AttachChangeEventsIInv, EndPassIInv,
     DropIInv, StutterIInv DEF Next
<1> QED
  BY <1>1, InitIInv, PTL DEF Spec

(* Whatever spans are ingested, every edge beyond the topology's joins two different
   nodes of the graph, every node has a type, and its object is on the heap. *)
THEOREM TypeCorrect == Spec => []TypeOK
<1>1. IInv => TypeOK
  BY DEF IInv
<1> QED
  BY <1>1, Invariance, PTL

(* However many graphs one process builds, each carries the events of its own
   request, each once and in order, on the services they are for. *)
THEOREM EventsStayInTheirBuild == Spec => []EventsAreThisBuilds
<1>1. IInv => EventsAreThisBuilds
  BY DEF IInv
<1> QED
  BY <1>1, Invariance, PTL

----------------------------------------------------------------------------
(* The order of the spans *)

Ids(told) == {s.id : s \in told}

NodesUpTo(n) ==
  (IF seeded THEN DOMAIN SeedType ELSE {}) \cup UNION {DOMAIN Mentions(spans[i]) : i \in 1..n}

(* The nodes so far are those of the spans so far. *)
NodeInv ==
  /\ pc = "nodes" => DOMAIN node = NodesUpTo(at - 1)
  /\ pc \in {"edges", "events", "built"} => DOMAIN node = NodesUpTo(Len(spans))

LEMMA NodesStay ==
  ASSUME NodeInv, UNCHANGED <<spans, seeded, node>>,
         pc \in {"edges", "events", "built"}, pc' \in {"edges", "events", "built"}
  PROVE  NodeInv'
<1>1. NodesUpTo(Len(spans))' = NodesUpTo(Len(spans))
  BY DEF NodesUpTo
<1> QED
  BY <1>1 DEF NodeInv

LEMMA NextNodeInv == IInv /\ NodeInv /\ [Next]_vars => NodeInv'
<1> SUFFICES ASSUME IInv, NodeInv, [Next]_vars PROVE NodeInv'
  OBVIOUS
<1>1. /\ Len(spans) \in Nat /\ DOMAIN spans = 1..Len(spans) /\ at \in Nat \ {0}
      /\ Len(changes) \in Nat
  BY Arguments DEF IInv, TypeOK
<1>2. CASE Build
  <2>1. /\ pc' = "nodes" /\ at' = 1
        /\ DOMAIN node' = IF seeded' THEN DOMAIN SeedType ELSE {}
    BY <1>2 DEF Build, IInv, Cursor
  <2>2. 1..(at' - 1) = {}
    BY <2>1
  <2>3. NodesUpTo(at - 1)' = IF seeded' THEN DOMAIN SeedType ELSE {}
    BY <2>2 DEF NodesUpTo
  <2> QED
    BY <2>1, <2>3 DEF NodeInv
<1>3. CASE DiscoverNodes
  <2>1. /\ pc = "nodes" /\ pc' = pc /\ at' = at + 1
        /\ UNCHANGED <<spans, seeded>>
        /\ DOMAIN node' = DOMAIN node \cup DOMAIN Mentions(spans[at])
    BY <1>3 DEF DiscoverNodes
  <2>2. 1..at = 1..(at - 1) \cup {at} /\ at' - 1 = at
    BY <1>1, <2>1
  <2>3. NodesUpTo(at) = NodesUpTo(at - 1) \cup DOMAIN Mentions(spans[at])
    BY <2>2 DEF NodesUpTo
  <2>4. NodesUpTo(at - 1)' = NodesUpTo(at)
    BY <2>1, <2>2 DEF NodesUpTo
  <2> QED
    BY <2>1, <2>3, <2>4 DEF NodeInv
<1>4. CASE DiscoverEdges
  BY <1>4, NodesStay DEF DiscoverEdges
<1>5. CASE AttachChangeEvents
  BY <1>5, NodesStay DEF AttachChangeEvents
<1>6. CASE EndPass
  <2>1. UNCHANGED <<spans, seeded, node>>
    BY <1>6 DEF EndPass
  <2>2. CASE pc = "nodes" /\ at > Len(spans) /\ pc' = "edges"
    <3>1. at - 1 = Len(spans)
      BY <1>1, <2>2 DEF IInv, Cursor
    <3>2. NodesUpTo(Len(spans))' = NodesUpTo(at - 1)
      BY <2>1, <3>1 DEF NodesUpTo
    <3> QED
      BY <2>1, <2>2, <3>2 DEF NodeInv
  <2>3. CASE pc \in {"edges", "events"} /\ pc' \in {"events", "built"}
    BY <2>1, <2>3, NodesStay
  <2> QED
    BY <1>6, <2>2, <2>3 DEF EndPass
<1>7. CASE Drop
  BY <1>7 DEF Drop, NodeInv
<1>8. CASE UNCHANGED vars
  <2>1. UNCHANGED <<pc, at, spans, seeded, node>>
    BY <1>8 DEF vars
  <2> QED
    BY <2>1 DEF NodeInv, NodesUpTo
<1> QED
  BY <1>2, <1>3, <1>4, <1>5, <1>6, <1>7, <1>8 DEF Next

(* A set of naturals that has an element has a least one. *)
LEMMA LeastOfNaturals ==
  ASSUME NEW S \in SUBSET Nat, NEW n \in S
  PROVE  \E m \in S : \A k \in S : m <= k
<1> DEFINE R == OpToRel(<, Nat)
<1>1. IsWellFoundedOn(R, Nat)
  BY NatLessThanWellFounded
<1>2. \A k, m \in Nat : k < m => <<k, m>> \in R
  BY DEF OpToRel
<1> HIDE DEF R
<1>3. PICK m \in S : \A k \in S : <<k, m>> \notin R
  BY <1>1, WFMin
<1>4. ASSUME NEW k \in S PROVE m <= k
  <2>1. m \in Nat /\ k \in Nat
    OBVIOUS
  <2>2. ~(k < m)
    BY <1>2, <1>3, <2>1
  <2> QED
    BY <2>1, <2>2
<1> QED
  BY <1>4

(* Of the spans of an id there is a last one: of all those that have so many or fewer
   spans behind them, one has fewest. *)
LEMMA OneIsLast ==
  ASSUME NEW i \in DOMAIN spans, Len(spans) \in Nat, DOMAIN spans = 1..Len(spans)
  PROVE  \E j \in SpanLookup(spans[i].id) : TRUE
<1> DEFINE behind == {Len(spans) - j : j \in {k \in DOMAIN spans : spans[k].id = spans[i].id}}
<1>1. behind \subseteq Nat /\ Len(spans) - i \in behind
  OBVIOUS
<1>2. PICK b \in behind : \A a \in behind : b <= a
  <2> HIDE DEF behind
  <2> QED
    BY <1>1, LeastOfNaturals
<1>3. PICK j \in DOMAIN spans : spans[j].id = spans[i].id /\ b = Len(spans) - j
  BY <1>2
<1>4. ASSUME NEW k \in DOMAIN spans, k > j PROVE spans[k].id # spans[i].id
  <2>1. SUFFICES ASSUME spans[k].id = spans[i].id PROVE FALSE
    OBVIOUS
  <2>2. Len(spans) - k \in behind
    BY <2>1
  <2>3. Len(spans) - j <= Len(spans) - k
    BY <1>2, <1>3, <2>2
  <2>4. j \in 1..Len(spans) /\ k \in 1..Len(spans)
    BY <1>3, <1>4
  <2> QED
    BY <1>4, <2>3, <2>4
<1> QED
  BY <1>3, <1>4 DEF SpanLookup

(* The span that a lookup by id finds. *)
Found(id) == spans[CHOOSE j \in SpanLookup(id) : TRUE]

LEMMA FoundIsLast ==
  ASSUME NEW id \in Ids(Range(spans)), Len(spans) \in Nat, DOMAIN spans = 1..Len(spans)
  PROVE  /\ Found(id) \in Range(spans) /\ Found(id).id = id
         /\ \A j \in SpanLookup(id) : spans[j] = Found(id)
<1>1. PICK i \in DOMAIN spans : id = spans[i].id
  BY DEF Ids, Range
<1>2. SpanLookup(id) # {}
  BY <1>1, OneIsLast
<1>3. \A j, k \in SpanLookup(id) : j = k
  <2> SUFFICES ASSUME NEW j \in SpanLookup(id), NEW k \in SpanLookup(id), j # k PROVE FALSE
    OBVIOUS
  <2>1. j \in 1..Len(spans) /\ k \in 1..Len(spans) /\ spans[j].id = id /\ spans[k].id = id
        /\ ~(k > j) /\ ~(j > k)
    BY DEF SpanLookup
  <2> QED
    BY <2>1
<1>4. (CHOOSE j \in SpanLookup(id) : TRUE) \in SpanLookup(id)
  BY <1>2
<1> QED
  BY <1>3, <1>4 DEF Found, SpanLookup, Range

(* What a build ends with is the graph of the set of its spans, with each id standing
   for the span that the lookup finds. *)
LEMMA GraphOfTheSet ==
  ASSUME IInv, NodeInv, pc = "built"
  PROVE  /\ DOMAIN node = NodesOf(Range(spans))
         /\ calls = EdgesOf(Range(spans), [id \in Ids(Range(spans)) |-> Found(id)])
<1> DEFINE told == Range(spans)
           meant == [id \in Ids(told) |-> Found(id)]
<1>1. /\ Len(spans) \in Nat /\ DOMAIN spans = 1..Len(spans)
      /\ \A i \in DOMAIN spans : IsSpan(spans[i])
  BY Arguments DEF IInv
<1>2. told = {spans[i] : i \in 1..Len(spans)}
  BY <1>1 DEF Range
<1>3. DOMAIN node = NodesOf(told)
  BY <1>2 DEF NodeInv, NodesUpTo, NodesOf
<1> DEFINE pairs == NodesOf(told) \X NodesOf(told)
<1>4. \A e \in pairs : e = <<e[1], e[2]>>
  OBVIOUS
<1>5. /\ DOMAIN meant = Ids(told)
      /\ \A id \in Ids(told) : meant[id] = Found(id)
  OBVIOUS
<1>6. calls = SeededCalls \cup {e \in pairs : Implied(e, Len(spans))}
  BY <1>3 DEF IInv, Settled, EdgesFrom
<1> DEFINE children == {s \in told : s.parent \in DOMAIN meant}
           inherited == {<<meant[s.parent].service, s.service>> : s \in children}
           joined == (UNION {OwnCalls(s) : s \in told}) \cup {e \in inherited : e[1] # e[2]}
<1>7. EdgesOf(told, meant) = SeededCalls \cup (joined \cap pairs)
  BY DEF EdgesOf, SeededCalls
<1> HIDE DEF meant, pairs
<1>8. ASSUME NEW e \in pairs PROVE Implied(e, Len(spans)) <=> e \in joined
  <2>1. ASSUME NEW i \in 1..Len(spans), e \in OwnCalls(spans[i]) PROVE e \in joined
    BY <1>2, <2>1
  <2>2. ASSUME NEW i \in 1..Len(spans), e[2] = spans[i].service, e[1] # e[2],
               NEW j \in DOMAIN spans, spans[j].id = spans[i].parent,
               spans[j].service = e[1],
               \A k \in j + 1..Len(spans) : spans[k].id # spans[j].id
        PROVE  e \in joined
    <3>1. spans[i].parent \in Ids(told) /\ spans[i] \in told
      BY <1>1, <2>2 DEF Ids, Range
    <3>2. j \in SpanLookup(spans[i].parent)
      <4>1. \A k \in DOMAIN spans : k > j => k \in j + 1..Len(spans)
        BY <1>1
      <4> QED
        BY <2>2, <4>1 DEF SpanLookup
    <3>3. meant[spans[i].parent].service = e[1]
      BY <1>1, <1>5, <2>2, <3>1, <3>2, FoundIsLast
    <3>4. e = <<meant[spans[i].parent].service, spans[i].service>>
      BY <1>4, <2>2, <3>3
    <3> QED
      BY <1>5, <2>2, <3>1, <3>4
  <2>3. ASSUME NEW s \in told, e \in OwnCalls(s) PROVE Implied(e, Len(spans))
    BY <1>2, <2>3 DEF Implied
  <2>4. ASSUME NEW s \in children, e = <<meant[s.parent].service, s.service>>, e[1] # e[2]
        PROVE  Implied(e, Len(spans))
    <3>1. PICK i \in 1..Len(spans) : s = spans[i]
      BY <1>2
    <3>2. s.parent \in Ids(told)
      BY <1>5
    <3>3. PICK k \in DOMAIN spans : spans[k].id = s.parent
      BY <3>2 DEF Ids, Range
    <3>4. PICK j \in SpanLookup(s.parent) : TRUE
      BY <1>1, <3>3, OneIsLast
    <3>5. spans[j] = meant[s.parent]
      BY <1>1, <1>5, <3>2, FoundIsLast
    <3>6. /\ j \in DOMAIN spans /\ spans[j].id = s.parent
          /\ \A l \in j + 1..Len(spans) : spans[l].id # spans[j].id
      BY <1>1 DEF SpanLookup
    <3>7. e[2] = s.service /\ e[1] = spans[j].service
      BY <2>4, <3>5
    <3> QED
      BY <2>4, <3>1, <3>6, <3>7 DEF Implied
  <2>5. Implied(e, Len(spans)) => e \in joined
    BY <2>1, <2>2 DEF Implied
  <2>6. e \in joined => Implied(e, Len(spans))
    BY <2>3, <2>4
  <2> QED
    BY <2>5, <2>6
<1>9. calls = EdgesOf(told, meant)
  <2> HIDE DEF joined
  <2> QED
    BY <1>6, <1>7, <1>8
<1> QED
  BY <1>3, <1>9 DEF meant

LEMMA NodeInvariance == Spec => []NodeInv
<1>1. Init => NodeInv
  BY DEF Init, NodeInv
<1> QED
  BY <1>1, NextNodeInv, Invariance, PTL DEF Spec

(* The nodes and edges of a graph come from the set of its spans, given one span for
   each id; the order in which they are ingested decides no more than which. *)
THEOREM OrderResolvesOnlyIds == Spec => []OrderOnlyResolvesIds
<1>1. IInv /\ NodeInv => OrderOnlyResolvesIds
  <2> SUFFICES ASSUME IInv, NodeInv, pc = "built"
               PROVE  LET told == Range(spans)
                      IN  /\ DOMAIN node = NodesOf(told)
                          /\ \E meant \in [{s.id : s \in told} -> told] :
                               /\ \A id \in DOMAIN meant : meant[id].id = id
                               /\ calls = EdgesOf(told, meant)
    BY DEF OrderOnlyResolvesIds
  <2> DEFINE told == Range(spans)
             meant == [id \in Ids(told) |-> Found(id)]
  <2>1. Len(spans) \in Nat /\ DOMAIN spans = 1..Len(spans)
    BY Arguments DEF IInv
  <2>2. meant \in [Ids(told) -> told] /\ \A id \in DOMAIN meant : meant[id].id = id
    BY <2>1, FoundIsLast
  <2>3. DOMAIN node = NodesOf(told) /\ calls = EdgesOf(told, meant)
    BY GraphOfTheSet
  <2> HIDE DEF meant
  <2> QED
    BY <2>2, <2>3 DEF Ids
<1> QED
  BY <1>1, Invariance, NodeInvariance, PTL

(* Two spans that share an id are of one service. *)
IdsTellServices ==
  \A s, t \in Range(spans) : s.id = t.id => s.service = t.service

(* The edges that a set of spans implies, with no regard to any order. *)
EdgesOfSet(told) ==
  LET children == {p \in told \X told : p[1].id = p[2].parent /\ p[1].service # p[2].service}
      joined == (UNION {OwnCalls(s) : s \in told})
                  \cup {<<pair[1].service, pair[2].service>> : pair \in children}
  IN  SeededCalls \cup (joined \cap (NodesOf(told) \X NodesOf(told)))

(* Where an id tells the service, the order in which spans are ingested decides nothing
   about the edges (graph_builder.py: discover_edges). *)
THEOREM OrderDoesNotMatter ==
  Spec => [](pc = "built" /\ IdsTellServices => calls = EdgesOfSet(Range(spans)))
<1>1. ASSUME IInv, NodeInv, pc = "built", IdsTellServices
      PROVE  calls = EdgesOfSet(Range(spans))
  <2> DEFINE told == Range(spans)
             meant == [id \in Ids(told) |-> Found(id)]
             inherited == {<<meant[s.parent].service, s.service>> :
                             s \in {t \in told : t.parent \in DOMAIN meant}}
             children == {p \in told \X told :
                            p[1].id = p[2].parent /\ p[1].service # p[2].service}
  <2>1. Len(spans) \in Nat /\ DOMAIN spans = 1..Len(spans)
    BY <1>1, Arguments DEF IInv
  <2>2. DOMAIN meant = Ids(told)
    OBVIOUS
  <2>3. ASSUME NEW s \in told PROVE meant[s.id].service = s.service /\ s.id \in Ids(told)
    <3>1. s.id \in Ids(told)
      BY DEF Ids
    <3>2. Found(s.id) \in told /\ Found(s.id).id = s.id
      BY <2>1, <3>1, FoundIsLast
    <3> QED
      BY <1>1, <3>1, <3>2 DEF IdsTellServices
  <2>4. ASSUME NEW id \in Ids(told) PROVE meant[id] \in told /\ meant[id].id = id
    BY <2>1, <2>4, FoundIsLast
  <2> HIDE DEF meant
  <2>5. {e \in inherited : e[1] # e[2]} =
          {<<pair[1].service, pair[2].service>> : pair \in children}
    <3>1. ASSUME NEW t \in told, t.parent \in Ids(told), meant[t.parent].service # t.service
          PROVE  <<meant[t.parent], t>> \in children
      BY <2>4, <3>1
    <3>2. ASSUME NEW pair \in children
          PROVE  /\ pair[2] \in told /\ pair[2].parent \in Ids(told)
                 /\ meant[pair[2].parent].service = pair[1].service
                 /\ pair[1].service # pair[2].service
      BY <2>3
    <3>3. ASSUME NEW e \in inherited, e[1] # e[2]
          PROVE  e \in {<<pair[1].service, pair[2].service>> : pair \in children}
      <4>1. PICK t \in told : /\ t.parent \in Ids(told)
                              /\ e = <<meant[t.parent].service, t.service>>
        BY <2>2
      <4>2. <<meant[t.parent], t>> \in children
        BY <3>1, <3>3, <4>1
      <4> HIDE DEF children
      <4> QED
        BY <4>1, <4>2
    <3>4. ASSUME NEW pair \in children
          PROVE  <<pair[1].service, pair[2].service>> \in {e \in inherited : e[1] # e[2]}
      BY <2>2, <3>2
    <3> QED
      BY <3>3, <3>4
  <2>6. calls = EdgesOf(told, meant)
    BY <1>1, GraphOfTheSet DEF meant
  <2> QED
    BY <2>5, <2>6 DEF EdgesOf, EdgesOfSet, SeededCalls
<1> QED
  BY <1>1, Invariance, NodeInvariance, PTL

============================================================================
