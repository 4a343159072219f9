---------------------------- MODULE IncidentPage ----------------------------
(***************************************************************************)
(* The dashboard in the browser: App in app.js and the functions that      *)
(* merge an analysis into an incident.                                     *)
(*                                                                         *)
(* Clicks, responses and renderings come in any order.  A click is handled *)
(* by the function that the last rendering has made, and so sees the       *)
(* incidents as they were then; a response is merged into the incidents as *)
(* they are.                                                               *)
(***************************************************************************)
EXTENDS Naturals, FiniteSets

CONSTANTS
  Live,                 \* incidents of DEMO_LIVE_MAP
  Hero,                 \* INC-2419, which is fetched when the page is loaded
  Others,               \* incidents that are mock data and nothing else
  MaxFetches,           \* bounds on what the user and the network may do
  MaxLoads

Ids == Live \cup {Hero} \cup Others

List == "list"

ASSUME PageAssumption ==
  /\ Hero \notin Live \cup Others
  /\ Live \cap Others = {}
  /\ List \notin Ids
  /\ MaxFetches \in Nat \ {0}
  /\ MaxLoads \in Nat

VARIABLES
  incidents,            \* the state of App, every update applied
  rendered,             \* the incidents of the last rendering
  bar,                  \* loading
  route,
  fetches,              \* requests of this page, and their replies
  sent,
  loads,
  last                  \* the model's own record: the last reply merged

vars == <<incidents, rendered, bar, route, fetches, sent, loads, last>>

(* An analysis has evidence for its best candidate or not, and a text (a
   narrative or the model's assessment) or not. *)
HasEvidence == {"complete", "wordless"}
HasText == {"complete", "narrated"}
Answers == {"complete", "wordless", "narrated", "empty"}

Replies == Answers \cup {"error"}

(* Mutant: the incident that is fetched with the page starts as loading. *)
MockLoading(id) ==
  [loading |-> id = Hero, evidence |-> IF id = Hero THEN "mock" ELSE "none",
   summary |-> "mock"]

Mock(id) ==
  [loading |-> FALSE, evidence |-> IF id = Hero THEN "mock" ELSE "none",
   summary |-> "mock"]

InFlight(id) == {f \in fetches : f.id = id}

(* nth: to tell it from others for the same incident. *)
FetchOf(id, nth) == [id |-> id, nth |-> nth, reply |-> "waiting"]

Mocks == [id \in Ids |-> Mock(id)]

(* The first page is opened with any hash: an incident's, the list's or none. *)
Init ==
  /\ incidents = Mocks
  /\ rendered = Mocks
  /\ bar = TRUE
  /\ route \in Ids \cup {List}
  /\ fetches = {FetchOf(Hero, 1)}
  /\ sent = 1
  /\ loads = 1
  /\ last = [id \in Ids |-> "none"]

(* Loading the page again, by then with any hash, forgets the replies to come. *)
Reload ==
  /\ loads < MaxLoads
  /\ sent < MaxFetches
  /\ incidents' = Mocks
  /\ rendered' = Mocks
  /\ bar' = TRUE
  /\ route' \in Ids \cup {List}
  /\ sent' = sent + 1
  /\ fetches' = {FetchOf(Hero, 1)}
  /\ loads' = loads + 1
  /\ last' = [id \in Ids |-> "none"]

----------------------------------------------------------------------------
(* openIncident *)

Started(incident) == [incident EXCEPT !.loading = TRUE, !.summary = "running"]

(* Mutant: the click is not told from one on an incident in flight. *)
WantedAgain(id) ==
  /\ id \in Live
  /\ rendered[id].evidence = "none"

(* Mutant: an incident with evidence is fetched again. *)
WantedAnew(id) ==
  /\ id \in Live
  /\ ~rendered[id].loading

Wanted(id) ==
  /\ id \in Live
  /\ ~rendered[id].loading
  /\ rendered[id].evidence = "none"

(* Mutant: the incident is not marked as loading. *)
StartUnmarked(id) ==
  /\ sent < MaxFetches
  /\ sent' = sent + 1
  /\ fetches' = fetches \cup {FetchOf(id, Cardinality(InFlight(id)) + 1)}
  /\ UNCHANGED <<incidents, rendered>>

(* React applies the updates of a click, and only these, before the next click. *)
Start(id) ==
  /\ sent < MaxFetches
  /\ sent' = sent + 1
  /\ fetches' = fetches \cup {FetchOf(id, Cardinality(InFlight(id)) + 1)}
  /\ incidents' = [incidents EXCEPT ![id] = Started(@)]
  /\ rendered' = [rendered EXCEPT ![id] = Started(@)]

OpenAndFetch(id) ==
  /\ route = List
  /\ Wanted(id)
  /\ Start(id)
  /\ route' = id
  /\ UNCHANGED <<bar, loads, last>>

Open(id) ==
  /\ route = List
  /\ ~Wanted(id)
  /\ route' = id
  /\ UNCHANGED <<incidents, rendered, bar, fetches, sent, loads, last>>

GoList ==
  /\ route # List
  /\ route' = List
  /\ UNCHANGED <<incidents, rendered, bar, fetches, sent, loads, last>>

----------------------------------------------------------------------------
(* Replies *)

(* The server, or what lies between, answers or fails, in any order.  A server
   that stops fails whatever waits for it. *)
Answer(id) ==
  \E f \in InFlight(id), reply \in Replies :
    /\ f.reply = "waiting"
    /\ fetches' = (fetches \ {f}) \cup {[f EXCEPT !.reply = reply]}
    /\ UNCHANGED <<incidents, rendered, bar, route, sent, loads, last>>

(* buildIncidentFromResultV2; what an answer lacks stays as it is, the summary
   of a running analysis included. *)
Merged(incident, answer) ==
  [loading |-> FALSE,
   evidence |-> IF answer \in HasEvidence THEN "live" ELSE incident.evidence,
   summary |-> IF answer \in HasText THEN "live" ELSE incident.summary]

(* Mutant: a failure leaves the incident in flight. *)
FailedInFlight(incident) == [incident EXCEPT !.summary = "failed"]

Failed(incident) == [incident EXCEPT !.loading = FALSE, !.summary = "failed"]

(* buildIncidentFromResult, for the incident that has evidence to begin with; a
   failure leaves its mock data, and an answer without a candidate too. *)
HeroMerged(incident, reply) ==
  IF reply \in {"error", "empty"} THEN incident ELSE [incident EXCEPT !.summary = "live"]

Update(incident, f) ==
  IF f.id = Hero THEN HeroMerged(incident, f.reply)
  ELSE IF f.reply = "error" THEN Failed(incident)
  ELSE Merged(incident, f.reply)

(* Mutant: setIncidents is given the incidents of the last rendering. *)
UpdatedRendered(f) == [rendered EXCEPT ![f.id] = Update(@, f)]

Updated(f) == [incidents EXCEPT ![f.id] = Update(@, f)]

Deliver(id) ==
  \E f \in InFlight(id) :
    /\ f.reply # "waiting"
    /\ incidents' = Updated(f)
    /\ bar' = IF id = Hero THEN FALSE ELSE bar
    /\ fetches' = fetches \ {f}
    /\ last' = [last EXCEPT ![id] = f.reply]
    /\ UNCHANGED <<rendered, route, sent, loads>>

Render ==
  /\ rendered # incidents
  /\ rendered' = incidents
  /\ UNCHANGED <<incidents, bar, route, fetches, sent, loads, last>>

----------------------------------------------------------------------------
Next ==
  \/ Reload
  \/ \E id \in Ids : OpenAndFetch(id) \/ Open(id)
  \/ GoList
  \/ \E id \in Live \cup {Hero} : Answer(id) \/ Deliver(id)
  \/ Render

(* Every request is answered or fails, a reply is delivered, and the page is
   rendered.  The user need not do anything. *)
Fairness ==
  /\ \A id \in Live \cup {Hero} : WF_vars(Answer(id)) /\ WF_vars(Deliver(id))
  /\ WF_vars(Render)

Spec == Init /\ [][Next]_vars /\ Fairness

----------------------------------------------------------------------------
(* Properties *)

Incident ==
  [loading : BOOLEAN, evidence : {"none", "mock", "live"},
   summary : {"mock", "running", "failed", "live"}]

Fetch == [id : Live \cup {Hero}, nth : 1..MaxFetches, reply : Replies \cup {"waiting"}]

(* The variables keep to their types, and only incidents with an endpoint of
   their own are ever shown as loading. *)
TypeOK ==
  /\ incidents \in [Ids -> Incident]
  /\ rendered \in [Ids -> Incident]
  /\ bar \in BOOLEAN
  /\ route \in Ids \cup {List}
  /\ fetches \in SUBSET Fetch
  /\ sent \in 1..MaxFetches
  /\ loads \in Nat
  /\ last \in [Ids -> Replies \cup {"none"}]
  /\ \A id \in Ids : incidents[id].loading => id \in Live

(* However stale the rendering a click is handled in, no incident is fetched
   while a fetch of it is in flight. *)
OneFetchPerIncident ==
  \A id \in Ids : Cardinality(InFlight(id)) <= 1

(* An incident is shown as loading for just as long as a fetch of it is in
   flight, and the bar for as long as the one that came with the page. *)
LoadingWhileInFlight ==
  /\ \A id \in Live : incidents[id].loading <=> InFlight(id) # {}
  /\ bar <=> InFlight(Hero) # {}

(* Once no fetch of it is in flight, an incident shows what the last reply to it
   says, whatever came in between: a reply to another incident takes nothing
   away, and a retry replaces what the failure before it has left.  An answer
   without a text leaves the summary of a running analysis. *)
ShowsLastReply ==
  \A id \in Live :
    InFlight(id) = {} =>
      /\ incidents[id].evidence = "live" <=> last[id] \in HasEvidence
      /\ last[id] = "none" => incidents[id].summary = "mock"
      /\ last[id] = "error" => incidents[id].summary = "failed"
      /\ last[id] \in HasText => incidents[id].summary = "live"
      /\ last[id] \in Answers \ HasText => incidents[id].summary = "running"

(* An incident that has its evidence is not touched again while the page is
   open. *)
ResultsStay ==
  [][loads' = loads =>
       \A id \in Live :
         incidents[id].evidence = "live" => incidents'[id] = incidents[id]]_vars

(* Every incident that is shown as loading ceases to be, and so does the bar. *)
Settles ==
  /\ \A id \in Live : rendered[id].loading ~> ~rendered[id].loading
  /\ bar ~> ~bar
=============================================================================
