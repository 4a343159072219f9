------------------------- MODULE IncidentPageProofs -------------------------
(***************************************************************************)
(* What the page guarantees for any number of incidents, fetches and       *)
(* reloads: proofs about IncidentPage.                                     *)
(***************************************************************************)
EXTENDS IncidentPage, TLAPS, FiniteSetTheorems

(* OneFetchPerIncident, without counting. *)
Single ==
  \A f, g \in fetches : f.id = g.id => f = g

(* A rendering may be behind, but never so that an incident in flight could be
   taken for one that is not, or one that has evidence for one that has none. *)
Behind(id) ==
  /\ incidents[id].loading => rendered[id].loading
  /\ rendered[id].loading \/ rendered[id].evidence = incidents[id].evidence

(* While a fetch of it is in flight, an incident has no evidence to lose. *)
Unloaded(id) ==
  InFlight(id) # {} => incidents[id].evidence # "live"

IInv ==
  /\ TypeOK
  /\ Single
  /\ LoadingWhileInFlight
  /\ \A id \in Live : Behind(id) /\ Unloaded(id)

USE PageAssumption

----------------------------------------------------------------------------
(* A mock incident is an incident that is not loading. *)
LEMMA MocksType ==
  /\ Mocks \in [Ids -> Incident]
  /\ \A id \in Ids : Mocks[id].loading = FALSE
  /\ \A id \in Live : Mocks[id].evidence = "none"
BY DEF Mocks, Mock, Incident, Ids

(* A page that has just been loaded satisfies the invariant. *)
LEMMA LoadedInv ==
  ASSUME incidents = Mocks, rendered = Mocks, bar = TRUE, route \in Ids \cup {List},
         fetches = {FetchOf(Hero, 1)}, sent \in 1..MaxFetches, loads \in Nat,
         last = [id \in Ids |-> "none"]
  PROVE  IInv
<1>1. FetchOf(Hero, 1) \in Fetch /\ FetchOf(Hero, 1).id = Hero
  BY DEF FetchOf, Fetch
<1>2. last \in [Ids -> Replies \cup {"none"}]
  OBVIOUS
<1>3. TypeOK
  BY <1>1, <1>2, MocksType DEF TypeOK
<1>4. Single
  BY DEF Single
<1>5. InFlight(Hero) # {} /\ \A id \in Live : InFlight(id) = {}
  BY <1>1 DEF InFlight
<1>6. LoadingWhileInFlight
  BY <1>5, MocksType DEF LoadingWhileInFlight, Ids
<1>7. \A id \in Live : Behind(id) /\ Unloaded(id)
  BY <1>5, MocksType DEF Behind, Unloaded, Ids
<1> QED BY <1>3, <1>4, <1>6, <1>7 DEF IInv

LEMMA InitInv == Init => IInv
BY LoadedInv DEF Init

LEMMA ReloadStep ==
  ASSUME IInv, Reload
  PROVE  IInv'
<1>1. sent' \in 1..MaxFetches /\ loads' \in Nat
  BY DEF IInv, TypeOK, Reload
<1>2. FetchOf(Hero, 1) \in Fetch /\ FetchOf(Hero, 1).id = Hero
  BY DEF FetchOf, Fetch
<1>3. fetches' = {FetchOf(Hero, 1)} /\ incidents' = Mocks /\ rendered' = Mocks
  BY DEF Reload
<1>4. TypeOK'
  BY <1>1, <1>2, <1>3, MocksType DEF TypeOK, Reload
<1>5. Single'
  BY <1>3 DEF Single
<1>6. InFlight(Hero)' # {} /\ \A id \in Live : InFlight(id)' = {}
  BY <1>2, <1>3 DEF InFlight
<1>7. LoadingWhileInFlight'
  BY <1>3, <1>6, MocksType DEF LoadingWhileInFlight, Ids, Reload
<1>8. \A id \in Live : Behind(id)' /\ Unloaded(id)'
  BY <1>3, <1>6, MocksType DEF Behind, Unloaded, Ids
<1> QED BY <1>4, <1>5, <1>7, <1>8 DEF IInv

----------------------------------------------------------------------------
(* A click *)

(* What the last rendering lets through is not in flight and has no evidence,
   however stale that rendering is. *)
LEMMA WantedIsIdle ==
  ASSUME IInv, NEW id, Wanted(id)
  PROVE  /\ id \in Live
         /\ InFlight(id) = {}
         /\ incidents[id].evidence = "none"
BY DEF IInv, Wanted, Behind, LoadingWhileInFlight

LEMMA OpenAndFetchStep ==
  ASSUME IInv, NEW id \in Ids, OpenAndFetch(id)
  PROVE  IInv'
<1> DEFINE new == [id |-> id, nth |-> 1, reply |-> "waiting"]
<1>1. /\ id \in Live /\ InFlight(id) = {}
      /\ incidents[id].evidence = "none" /\ id # Hero
  BY WantedIsIdle DEF OpenAndFetch
<1>2. Cardinality(InFlight(id)) + 1 = 1
  BY <1>1, FS_EmptySet
<1>3. /\ fetches' = fetches \cup {new}
      /\ incidents' = [incidents EXCEPT ![id] = Started(@)]
      /\ rendered' = [rendered EXCEPT ![id] = Started(@)]
      /\ sent' = sent + 1 /\ sent < MaxFetches /\ route' = id
      /\ UNCHANGED <<bar, loads, last>>
  BY <1>2 DEF OpenAndFetch, Start, FetchOf
<1>4. new \in Fetch /\ new.id = id
  BY <1>1 DEF Fetch
<1> HIDE DEF new
<1>5. /\ incidents \in [Ids -> Incident] /\ rendered \in [Ids -> Incident]
  BY DEF IInv, TypeOK
<1>6. \A i \in Incident : /\ Started(i) \in Incident
                          /\ Started(i).loading = TRUE
                          /\ Started(i).evidence = i.evidence
  BY DEF Started, Incident
<1>7. /\ incidents' \in [Ids -> Incident] /\ rendered' \in [Ids -> Incident]
      /\ incidents'[id] = Started(incidents[id])
      /\ rendered'[id] = Started(rendered[id])
      /\ \A j \in Ids \ {id} : incidents'[j] = incidents[j] /\ rendered'[j] = rendered[j]
  BY <1>3, <1>5, <1>6
<1>8. TypeOK'
  BY <1>1, <1>3, <1>4, <1>7 DEF IInv, TypeOK
<1>9. /\ InFlight(id)' # {}
      /\ \A j \in (Live \cup {Hero}) \ {id} : InFlight(j)' = InFlight(j)
  BY <1>3, <1>4 DEF InFlight
<1>10. Single'
  BY <1>1, <1>3, <1>4 DEF IInv, Single, InFlight
<1>11. LoadingWhileInFlight'
  BY <1>1, <1>3, <1>5, <1>6, <1>7, <1>9 DEF IInv, LoadingWhileInFlight, Ids
<1>12. \A j \in Live : Behind(j)' /\ Unloaded(j)'
  BY <1>1, <1>5, <1>6, <1>7, <1>9 DEF IInv, Behind, Unloaded, Ids
<1> QED BY <1>8, <1>10, <1>11, <1>12 DEF IInv

----------------------------------------------------------------------------
(* Replies *)

LEMMA AnswerStep ==
  ASSUME IInv, NEW id \in Live \cup {Hero}, Answer(id)
  PROVE  IInv'
<1>1. PICK f \in InFlight(id), reply \in Replies :
        /\ fetches' = (fetches \ {f}) \cup {[f EXCEPT !.reply = reply]}
        /\ UNCHANGED <<incidents, rendered, bar, route, sent, loads, last>>
  BY DEF Answer
<1> DEFINE g == [f EXCEPT !.reply = reply]
<1>2. f \in fetches /\ f.id = id /\ f \in Fetch
  BY DEF InFlight, IInv, TypeOK
<1>3. g \in Fetch /\ g.id = id
  BY <1>2 DEF Fetch
<1> HIDE DEF g
<1>4. fetches' = (fetches \ {f}) \cup {g}
  BY <1>1 DEF g
<1>5. TypeOK'
  BY <1>1, <1>3, <1>4 DEF IInv, TypeOK
<1>6. Single'
  BY <1>2, <1>3, <1>4 DEF IInv, Single
<1>7. \A j : InFlight(j)' # {} <=> InFlight(j) # {}
  BY <1>2, <1>3, <1>4 DEF InFlight
<1>8. LoadingWhileInFlight'
  BY <1>1, <1>7 DEF IInv, LoadingWhileInFlight
<1>9. \A j \in Live : Behind(j)' /\ Unloaded(j)'
  BY <1>1, <1>7 DEF IInv, Behind, Unloaded
<1> QED BY <1>5, <1>6, <1>8, <1>9 DEF IInv

(* An update is an incident; that of an incident with an endpoint is settled. *)
LEMMA UpdateType ==
  ASSUME NEW i \in Incident, NEW f \in Fetch, f.reply # "waiting"
  PROVE  /\ Update(i, f) \in Incident
         /\ f.id = Hero => Update(i, f).loading = i.loading
         /\ f.id # Hero => Update(i, f).loading = FALSE
<1>1. CASE f.id = Hero
  BY <1>1 DEF Update, HeroMerged, Incident
<1>2. CASE f.id # Hero
  BY <1>2 DEF Update, Merged, Failed, Incident
<1> QED BY <1>1, <1>2

LEMMA DeliverStep ==
  ASSUME IInv, NEW id \in Live \cup {Hero}, Deliver(id)
  PROVE  IInv'
<1>1. PICK f \in InFlight(id) :
        /\ f.reply # "waiting"
        /\ incidents' = Updated(f)
        /\ bar' = (IF id = Hero THEN FALSE ELSE bar)
        /\ fetches' = fetches \ {f}
        /\ last' = [last EXCEPT ![id] = f.reply]
        /\ UNCHANGED <<rendered, route, sent, loads>>
  BY DEF Deliver
<1>2. f \in fetches /\ f.id = id /\ f \in Fetch
  BY DEF InFlight, IInv, TypeOK
<1>3. incidents \in [Ids -> Incident] /\ id \in Ids
  BY DEF IInv, TypeOK, Ids
<1> DEFINE new == Update(incidents[id], f)
<1>4. /\ new \in Incident
      /\ id = Hero => new.loading = incidents[id].loading
      /\ id # Hero => new.loading = FALSE
  BY <1>1, <1>2, <1>3, UpdateType
<1>5. incidents' = [incidents EXCEPT ![id] = new]
  BY <1>1, <1>2 DEF Updated
<1> HIDE DEF new
<1>6. /\ incidents' \in [Ids -> Incident] /\ incidents'[id] = new
      /\ \A j \in Ids \ {id} : incidents'[j] = incidents[j]
  BY <1>3, <1>4, <1>5
<1>7. last' \in [Ids -> Replies \cup {"none"}]
  <2>1. f.reply \in Replies
    BY <1>1, <1>2 DEF Fetch
  <2> QED BY <1>1, <2>1 DEF IInv, TypeOK
<1>8. TypeOK'
  <2>1. \A j \in Ids : incidents'[j].loading => j \in Live
    BY <1>3, <1>4, <1>6 DEF IInv, TypeOK
  <2>2. bar' \in BOOLEAN
    BY <1>1 DEF IInv, TypeOK
  <2> QED BY <1>1, <1>6, <1>7, <2>1, <2>2 DEF IInv, TypeOK
<1>9. Single'
  BY <1>1 DEF IInv, Single
<1>10. /\ InFlight(id)' = {} /\ InFlight(id) # {}
       /\ \A j : j # id => InFlight(j)' = InFlight(j)
  BY <1>1, <1>2 DEF IInv, Single, InFlight
<1>11. LoadingWhileInFlight'
  BY <1>1, <1>4, <1>6, <1>10 DEF IInv, LoadingWhileInFlight, Ids
<1>12. \A j \in Live : Behind(j)' /\ Unloaded(j)'
  <2> TAKE j \in Live
  <2>1. CASE j = id
    <3>1. incidents[j].loading /\ rendered[j].loading
      BY <1>10, <2>1 DEF IInv, LoadingWhileInFlight, Behind
    <3> QED BY <1>1, <1>10, <2>1, <3>1 DEF Behind, Unloaded
  <2>2. CASE j # id
    <3>1. incidents'[j] = incidents[j] /\ InFlight(j)' = InFlight(j)
      BY <1>6, <1>10, <2>2 DEF Ids
    <3> QED BY <1>1, <3>1 DEF IInv, Behind, Unloaded
  <2> QED BY <2>1, <2>2
<1> QED BY <1>8, <1>9, <1>11, <1>12 DEF IInv

----------------------------------------------------------------------------
(* The theorems *)

LEMMA NextInv ==
  ASSUME IInv, [Next]_vars
  PROVE  IInv'
<1>1. CASE Reload
  BY <1>1, ReloadStep
<1>2. CASE \E id \in Ids : OpenAndFetch(id)
  BY <1>2, OpenAndFetchStep
<1>3. ASSUME UNCHANGED <<incidents, rendered, bar, fetches, sent, loads, last>>,
             route' \in Ids \cup {List}
      PROVE  IInv'
  BY <1>3 DEF IInv, TypeOK, Single, LoadingWhileInFlight, InFlight, Behind, Unloaded
<1>4. CASE \E id \in Ids : Open(id)
  BY <1>3, <1>4 DEF Open
<1>5. CASE GoList
  BY <1>3, <1>5 DEF GoList
<1>6. CASE \E id \in Live \cup {Hero} : Answer(id)
  BY <1>6, AnswerStep
<1>7. CASE \E id \in Live \cup {Hero} : Deliver(id)
  BY <1>7, DeliverStep
<1>8. CASE Render
  BY <1>8 DEF Render, IInv, TypeOK, Single, LoadingWhileInFlight, InFlight, Behind, Unloaded
<1>9. CASE UNCHANGED vars
  BY <1>3, <1>9 DEF vars, IInv, TypeOK
<1> QED BY <1>1, <1>2, <1>4, <1>5, <1>6, <1>7, <1>8, <1>9 DEF Next

LEMMA Invariance == Spec => []IInv
<1>1. Init => IInv
  BY InitInv
<1>2. IInv /\ [Next]_vars => IInv'
  BY NextInv
<1> QED BY <1>1, <1>2, PTL DEF Spec

(* The variables of the page keep to their types. *)
THEOREM TypeCorrect == Spec => []TypeOK
<1>1. IInv => TypeOK
  BY DEF IInv
<1> QED BY <1>1, Invariance, PTL

(* No incident is fetched twice at a time, whatever the order of clicks, replies
   and renderings. *)
THEOREM NoDoubleFetch == Spec => []OneFetchPerIncident
<1>1. ASSUME IInv PROVE OneFetchPerIncident
  <2> SUFFICES ASSUME NEW id \in Ids PROVE Cardinality(InFlight(id)) <= 1
    BY DEF OneFetchPerIncident
  <2>1. CASE InFlight(id) = {}
    BY <2>1, FS_EmptySet
  <2>2. CASE InFlight(id) # {}
    <3>1. PICK f : InFlight(id) = {f}
      BY <1>1, <2>2 DEF IInv, Single, InFlight
    <3>2. Cardinality({f}) = 1
      BY FS_Singleton
    <3> QED BY <3>1, <3>2
  <2> QED BY <2>1, <2>2
<1>2. IInv => OneFetchPerIncident
  BY <1>1
<1> QED BY <1>2, Invariance, PTL

(* Loading indicators tell the truth about what is in flight. *)
THEOREM LoadingIsTrue == Spec => []LoadingWhileInFlight
<1>1. IInv => LoadingWhileInFlight
  BY DEF IInv
<1> QED BY <1>1, Invariance, PTL

(* Results that have arrived stay as they are. *)
THEOREM ResultsAreKept == Spec => ResultsStay
<1>1. ASSUME IInv, [Next]_vars, loads' = loads, NEW id \in Live,
             incidents[id].evidence = "live"
      PROVE  incidents'[id] = incidents[id]
  <2>1. CASE Reload
    BY <1>1, <2>1 DEF Reload, IInv, TypeOK
  <2>2. ASSUME NEW j \in Ids, OpenAndFetch(j) PROVE incidents'[id] = incidents[id]
    <3>1. j # id
      BY <1>1, <2>2, WantedIsIdle DEF OpenAndFetch
    <3> QED BY <1>1, <2>2, <3>1 DEF OpenAndFetch, Start, IInv, TypeOK
  <2>3. ASSUME NEW j \in Live \cup {Hero}, Deliver(j) PROVE incidents'[id] = incidents[id]
    <3>1. PICK f \in InFlight(j) : incidents' = Updated(f)
      BY <2>3 DEF Deliver
    <3>2. f.id = j /\ InFlight(j) # {}
      BY DEF InFlight
    <3>3. j # id
      BY <1>1, <3>2 DEF IInv, Unloaded
    <3> QED BY <1>1, <3>1, <3>2, <3>3 DEF Updated, IInv, TypeOK
  <2>4. CASE \/ \E j \in Ids : Open(j)
             \/ GoList
             \/ \E j \in Live \cup {Hero} : Answer(j)
             \/ Render
             \/ UNCHANGED vars
    BY <2>4 DEF Open, GoList, Answer, Render, vars
  <2> QED BY <1>1, <2>1, <2>2, <2>3, <2>4 DEF Next
<1>2. IInv /\ [Next]_vars =>
        [loads' = loads =>
           \A id \in Live :
             incidents[id].evidence = "live" => incidents'[id] = incidents[id]]_vars
  BY <1>1
<1> QED BY <1>2, Invariance, PTL DEF Spec, ResultsStay

----------------------------------------------------------------------------
(* What an incident shows *)

(* An incident in flight shows that it runs, and has nothing to lose yet. *)
Running(id) ==
  InFlight(id) # {} => incidents[id].evidence = "none" /\ incidents[id].summary = "running"

(* An incident shows what the reply says. *)
Shows(incident, reply) ==
  /\ incident.evidence = "live" <=> reply \in HasEvidence
  /\ reply = "none" => incident.summary = "mock"
  /\ reply = "error" => incident.summary = "failed"
  /\ reply \in HasText => incident.summary = "live"
  /\ reply \in Answers \ HasText => incident.summary = "running"

StoryInv ==
  \A id \in Live :
    /\ Running(id)
    /\ InFlight(id) = {} => Shows(incidents[id], last[id])

(* Merging a reply into an incident in flight makes it show the reply. *)
LEMMA MergeShows ==
  ASSUME NEW i \in Incident, i.evidence = "none", i.summary = "running",
         NEW f \in Fetch, f.id # Hero, f.reply # "waiting"
  PROVE  Shows(Update(i, f), f.reply)
<1>1. CASE f.reply = "error"
  <2>1. Update(i, f) = [i EXCEPT !.loading = FALSE, !.summary = "failed"]
    BY <1>1 DEF Update, Failed
  <2> QED BY <1>1, <2>1 DEF Shows, HasEvidence, HasText, Answers, Incident
<1>2. CASE f.reply # "error"
  <2>1. /\ Update(i, f).evidence = IF f.reply \in HasEvidence THEN "live" ELSE "none"
        /\ Update(i, f).summary = IF f.reply \in HasText THEN "live" ELSE "running"
    BY <1>2 DEF Update, Merged
  <2>2. f.reply \in Answers
    BY <1>2 DEF Fetch, Replies
  <2> QED BY <1>2, <2>1, <2>2 DEF Shows, HasEvidence, HasText, Answers
<1> QED BY <1>1, <1>2

LEMMA LoadedStory ==
  ASSUME incidents = Mocks, fetches = {FetchOf(Hero, 1)}, last = [id \in Ids |-> "none"]
  PROVE  StoryInv
<1>1. \A id \in Live : InFlight(id) = {}
  BY DEF InFlight, FetchOf
<1>2. \A id \in Live : Mocks[id].evidence = "none" /\ Mocks[id].summary = "mock"
  BY DEF Mocks, Mock, Ids
<1>3. \A id \in Live : last[id] = "none"
  BY DEF Ids
<1> QED
  BY <1>1, <1>2, <1>3 DEF StoryInv, Running, Shows, HasEvidence, HasText, Answers

(* A story goes on for the incidents that a step leaves as they are. *)
LEMMA StoryGoesOn ==
  ASSUME StoryInv, NEW id \in Live, incidents'[id] = incidents[id], last'[id] = last[id],
         InFlight(id)' = {} <=> InFlight(id) = {}
  PROVE  /\ Running(id)'
         /\ (InFlight(id) = {})' => Shows(incidents'[id], last'[id])
BY DEF StoryInv, Running

LEMMA NextStory == ASSUME IInv, StoryInv, [Next]_vars PROVE StoryInv'
<1> USE DEF Ids
<1>1. SUFFICES ASSUME NEW id \in Live
               PROVE  /\ Running(id)'
                      /\ (InFlight(id) = {})' => Shows(incidents'[id], last'[id])
  BY DEF StoryInv, Shows
<1>2. CASE Reload
  <2>1. StoryInv'
    <3>1. /\ incidents' = Mocks /\ fetches' = {FetchOf(Hero, 1)}
          /\ last' = [i \in Ids |-> "none"]
      BY <1>2 DEF Reload
    <3>2. \A i \in Live : InFlight(i)' = {}
      BY <3>1 DEF InFlight, FetchOf
    <3>3. \A i \in Live : Mocks[i].evidence = "none" /\ Mocks[i].summary = "mock"
      BY DEF Mocks, Mock
    <3>4. \A i \in Live : last'[i] = "none"
      BY <3>1
    <3> QED BY <3>1, <3>2, <3>3, <3>4
              DEF StoryInv, Running, Shows, HasEvidence, HasText, Answers
  <2> QED BY <2>1 DEF StoryInv, Shows
<1>3. ASSUME NEW j \in Ids, OpenAndFetch(j)
      PROVE  /\ Running(id)'
             /\ (InFlight(id) = {})' => Shows(incidents'[id], last'[id])
  <2>1. /\ j \in Live /\ incidents[j].evidence = "none"
    BY <1>3, WantedIsIdle DEF OpenAndFetch
  <2>2. /\ incidents \in [Ids -> Incident]
        /\ incidents' = [incidents EXCEPT ![j] = Started(@)]
        /\ last' = last
        /\ fetches' = fetches \cup {FetchOf(j, Cardinality(InFlight(j)) + 1)}
    BY <1>3 DEF OpenAndFetch, Start, IInv, TypeOK
  <2>3. FetchOf(j, Cardinality(InFlight(j)) + 1).id = j
    BY DEF FetchOf
  <2>4. CASE id = j
    <3>1. InFlight(id)' # {}
      BY <2>2, <2>3, <2>4 DEF InFlight
    <3>2. incidents'[id].evidence = "none" /\ incidents'[id].summary = "running"
      BY <2>1, <2>2, <2>4 DEF Started, Incident
    <3> QED BY <3>1, <3>2 DEF Running
  <2>5. CASE id # j
    <3>1. InFlight(id)' = InFlight(id) /\ incidents'[id] = incidents[id]
      BY <2>2, <2>3, <2>5 DEF InFlight
    <3> QED BY <2>2, <3>1, StoryGoesOn
  <2> QED BY <2>4, <2>5
<1>4. ASSUME NEW j \in Live \cup {Hero}, Answer(j)
      PROVE  /\ Running(id)'
             /\ (InFlight(id) = {})' => Shows(incidents'[id], last'[id])
  <2>1. PICK f \in InFlight(j), reply \in Replies :
          /\ fetches' = (fetches \ {f}) \cup {[f EXCEPT !.reply = reply]}
          /\ UNCHANGED <<incidents, rendered, bar, route, sent, loads, last>>
    BY <1>4 DEF Answer
  <2>2. f \in fetches /\ f \in Fetch
    BY DEF InFlight, IInv, TypeOK
  <2>3. [f EXCEPT !.reply = reply].id = f.id
    BY <2>2 DEF Fetch
  <2>4. InFlight(id)' = {} <=> InFlight(id) = {}
    BY <2>1, <2>2, <2>3 DEF InFlight
  <2> QED BY <2>1, <2>4, StoryGoesOn
<1>5. ASSUME NEW j \in Live \cup {Hero}, Deliver(j)
      PROVE  /\ Running(id)'
             /\ (InFlight(id) = {})' => Shows(incidents'[id], last'[id])
  <2>1. PICK f \in InFlight(j) :
          /\ f.reply # "waiting"
          /\ incidents' = Updated(f)
          /\ fetches' = fetches \ {f}
          /\ last' = [last EXCEPT ![j] = f.reply]
    BY <1>5 DEF Deliver
  <2>2. f \in fetches /\ f.id = j /\ f \in Fetch
    BY DEF InFlight, IInv, TypeOK
  <2>3. incidents \in [Ids -> Incident] /\ last \in [Ids -> Replies \cup {"none"}]
    BY DEF IInv, TypeOK
  <2>4. CASE id = j
    <3>1. incidents'[id] = Update(incidents[id], f) /\ last'[id] = f.reply
      BY <2>1, <2>2, <2>3, <2>4 DEF Updated
    <3>2. incidents[id].evidence = "none" /\ incidents[id].summary = "running"
      BY <2>1, <2>4 DEF StoryInv, Running
    <3>3. Shows(incidents'[id], last'[id])
      BY <2>1, <2>2, <2>3, <2>4, <3>1, <3>2, MergeShows
    <3>4. InFlight(id)' = {}
      BY <2>1, <2>2, <2>4 DEF IInv, Single, InFlight
    <3> QED BY <3>3, <3>4 DEF Running
  <2>5. CASE id # j
    <3>1. incidents'[id] = incidents[id] /\ last'[id] = last[id]
      BY <2>1, <2>2, <2>3, <2>5 DEF Updated
    <3>2. InFlight(id)' = InFlight(id)
      BY <2>1, <2>2, <2>5 DEF InFlight
    <3> QED BY <3>1, <3>2, StoryGoesOn
  <2> QED BY <2>4, <2>5
<1>6. ASSUME incidents' = incidents, fetches' = fetches, last' = last
      PROVE  /\ Running(id)'
             /\ (InFlight(id) = {})' => Shows(incidents'[id], last'[id])
  <2>1. InFlight(id)' = InFlight(id)
    BY <1>6 DEF InFlight
  <2> QED BY <1>6, <2>1, StoryGoesOn
<1>7. CASE \/ \E j \in Ids : Open(j)
           \/ GoList
           \/ Render
           \/ UNCHANGED vars
  BY <1>6, <1>7 DEF Open, GoList, Render, vars
<1> QED BY <1>2, <1>3, <1>4, <1>5, <1>7 DEF Next

(* Whatever the order of clicks, failures, retries and replies, for any number of
   incidents: one that is not in flight shows what the last reply to it says. *)
THEOREM TheLastReplyIsShown == Spec => []ShowsLastReply
<1>1. Init => StoryInv
  BY LoadedStory DEF Init
<1>2. IInv /\ StoryInv /\ [Next]_vars => StoryInv'
  BY NextStory
<1>3. StoryInv => ShowsLastReply
  BY DEF StoryInv, Shows, ShowsLastReply
<1> QED BY <1>1, <1>2, <1>3, Invariance, PTL DEF Spec

=============================================================================
