-------------------------- MODULE DashboardServer --------------------------
(***************************************************************************)
(* dashboard/app.py: the result store and its endpoints, with clients that *)
(* send, give up and send again over connections that break, and a process *)
(* that may be restarted.                                                  *)
(*                                                                         *)
(* The handlers await nothing, so requests are served one at a time, in    *)
(* any order; requests and replies travel meanwhile.  An analysis is       *)
(* served in the stages of analyze_incident, whose data Telemetry defines; *)
(* engine.analyze ends in a result whatever happens within it (see         *)
(* ReasoningLoop), which is stored with what the analysis has seen.        *)
(*                                                                         *)
(* ticks, stamp, known and floor are no state of the code.  They number    *)
(* the writes to the store, to say how old an answer is.                   *)
(***************************************************************************)
EXTENDS Telemetry, FiniteSets

CONSTANTS
  IncidentId,     \* what clients call their incidents
  FreshId,        \* what uuid4 makes up; taken as not occurring twice
  Offers,         \* what clients may send: a set of payloads, and how many requests
  MaxRestarts     \* bound

Id == IncidentId \cup FreshId
NoId == "none"
Unknown == [i \in Id |-> 0]
NoPayload == [traces |-> <<>>, metrics |-> <<>>, changes |-> <<>>, start |-> <<>>,
              unparsable |-> FALSE]
NoRequest == [n |-> 0, op |-> "none", key |-> NoId, payload |-> NoPayload,
              floor |-> Unknown, life |-> 0]

ASSUME ServerAssumption ==
  /\ IncidentId \cap FreshId = {} /\ NoId \notin Id
  /\ \A o \in Offers : (\A p \in o.payloads : p \in Payload) /\ o.requests \in Nat
  /\ MaxRestarts \in Nat

VARIABLES
  offer,      \* what clients may send
  results,    \* _results: a record for each incident stored
  inbox,      \* requests on their way, or waiting for the event loop
  replies,    \* answers on their way
  stage, serving, id, seen,   \* the analysis in progress, and what it has made so far
  ticks,      \* writes to the store since the beginning
  known,      \* the last write to each incident of which a client has been told
  sent, restarts, fresh       \* counters; fresh: the ids uuid4 has made up

analysis == <<stage, serving, id, seen>>
counters == <<offer, sent, restarts, fresh>>
vars == <<results, inbox, replies, analysis, ticks, known, counters>>

NoFeedback == 0
NothingSeen == [spans |-> <<>>, metrics |-> <<>>, changes |-> <<>>, start |-> 0,
                anomalous |-> {}]

Init ==
  /\ offer \in Offers
  /\ results = [i \in {} |-> 0]
  /\ inbox = {} /\ replies = {}
  /\ stage = "idle" /\ serving = NoRequest /\ id = NoId /\ seen = NothingSeen
  /\ ticks = 0 /\ known = Unknown
  /\ sent = 0 /\ restarts = 0 /\ fresh = {}

----------------------------------------------------------------------------
(* Clients *)

(* floor: what clients knew of the store when this request was sent, in which life of
   the process. *)
Send(op, key, payload) ==
  /\ sent < offer.requests
  /\ sent' = sent + 1
  /\ inbox' = inbox \cup
       {[n |-> sent + 1, op |-> op, key |-> key, payload |-> payload, floor |-> known,
         life |-> restarts]}
  /\ UNCHANGED <<results, replies, analysis, ticks, known, offer, restarts, fresh>>

SendAnalyze ==
  \E key \in IncidentId \cup {NoId}, payload \in offer.payloads : Send("analyze", key, payload)

SendQuery ==
  \/ \E key \in IncidentId \cup fresh, op \in {"get", "feedback"} : Send(op, key, NoPayload)
  \/ Send("list", NoId, NoPayload)

(* A client is told of the answer.  One of an earlier life of the process says
   nothing of this one. *)
Deliver(reply) ==
  /\ replies' = replies \ {reply}
  /\ known' = IF reply.life # restarts THEN known
              ELSE [i \in Id |-> IF i \in DOMAIN reply.stamps /\ reply.stamps[i] > known[i]
                                 THEN reply.stamps[i] ELSE known[i]]
  /\ UNCHANGED <<results, inbox, analysis, ticks, counters>>

(* The connection breaks, or the client no longer waits: it may send its request
   again, while the first is lost or still to be served. *)
Lose ==
  /\ \/ \E request \in inbox : inbox' = inbox \ {request} /\ UNCHANGED replies
     \/ \E reply \in replies : replies' = replies \ {reply} /\ UNCHANGED inbox
  /\ UNCHANGED <<results, analysis, ticks, known, counters>>

----------------------------------------------------------------------------
(* The server *)

(* stamps: the write that each part of the answer comes from. *)
Reply(request, status, stamps) ==
  [to |-> [request EXCEPT !.payload = NoPayload], status |-> status, stamps |-> stamps,
   life |-> restarts]

NoStamps == [i \in {} |-> 0]

Idle == stage' = "idle" /\ serving' = NoRequest /\ id' = NoId /\ seen' = NothingSeen

(* Mutant: what an earlier analysis has left is dropped by the one that fails. *)
RefuseAndForget ==
  /\ replies' = replies \cup {Reply(serving, 500, NoStamps)}
  /\ results' = [i \in DOMAIN results \ {id} |-> results[i]]
  /\ Idle
  /\ UNCHANGED <<inbox, ticks, known, counters>>

(* The except clause of analyze_incident: 500, and nothing is stored. *)
Refuse ==
  /\ replies' = replies \cup {Reply(serving, 500, NoStamps)}
  /\ Idle
  /\ UNCHANGED <<results, inbox, ticks, known, counters>>

(* Mutant: a request without an id is stored under none. *)
AcceptNameless(request) ==
  /\ stage = "idle"
  /\ request.op = "analyze"
  /\ inbox' = inbox \ {request}
  /\ serving' = request
  /\ id' = request.key
  /\ stage' = "ingest"
  /\ UNCHANGED <<results, replies, seen, ticks, known, counters>>

Accept(request) ==
  /\ stage = "idle"
  /\ request.op = "analyze"
  /\ inbox' = inbox \ {request}
  /\ serving' = request
  /\ IF request.key # NoId
     THEN id' = request.key /\ UNCHANGED fresh
     ELSE \E i \in FreshId \ fresh : id' = i /\ fresh' = fresh \cup {i}
  /\ stage' = "ingest"
  /\ UNCHANGED <<results, replies, seen, ticks, known, offer, sent, restarts>>

Ingest ==
  /\ stage = "ingest"
  /\ IF BatchRaises(serving.payload) THEN Refuse
     ELSE /\ seen' = [seen EXCEPT !.spans = Spans(serving.payload),
                                  !.metrics = Metrics(serving.payload),
                                  !.changes = Changes(serving.payload)]
          /\ stage' = "start"
          /\ UNCHANGED <<results, inbox, replies, serving, id, ticks, known, counters>>

(* fromisoformat raises on what is no timestamp. *)
DetermineStart ==
  /\ stage = "start"
  /\ IF serving.payload.unparsable THEN Refuse
     ELSE /\ seen' = [seen EXCEPT !.start = IncidentStart(serving.payload, seen.metrics)]
          /\ stage' = "compare"
          /\ UNCHANGED <<results, inbox, replies, serving, id, ticks, known, counters>>

CompareWithBaselines ==
  /\ stage = "compare"
  /\ seen' = [seen EXCEPT !.anomalous = AnomalousSeries(seen.metrics, seen.start)]
  /\ stage' = "reason"
  /\ UNCHANGED <<results, inbox, replies, serving, id, ticks, known, counters>>

(* Mutant: the record is updated, not replaced. *)
RecordUpdated(i, at) ==
  [analyzed_at |-> at, stamp |-> at,
   feedback |-> IF i \in DOMAIN results THEN results[i].feedback ELSE NoFeedback]

(* The record replaces any other of the incident, and its feedback with it. *)
Record(i, at) == [analyzed_at |-> at, stamp |-> at, feedback |-> NoFeedback]

Store ==
  /\ stage = "reason"
  /\ ticks' = ticks + 1
  /\ results' = [i \in DOMAIN results \cup {id} |->
                   IF i = id THEN Record(i, ticks + 1) ELSE results[i]]
  /\ replies' = replies \cup {Reply(serving, 200, [i \in {id} |-> ticks + 1])}
  /\ Idle
  /\ UNCHANGED <<inbox, known, counters>>

(* build_graph raises on an event whose service no dict can hold, the ingesters having let
   it pass. *)
Fail == stage = "reason" /\ Refuse

(* get_result: a 404, or the record. *)
Get(request) ==
  /\ request.op = "get"
  /\ replies' = replies \cup
       {IF request.key \in DOMAIN results
        THEN Reply(request, 200, [i \in {request.key} |-> results[i].stamp])
        ELSE Reply(request, 404, NoStamps)}
  /\ UNCHANGED <<results, ticks>>

(* Mutant: feedback that is there stays, whatever comes. *)
AnnotatedOnce(record, at) ==
  [record EXCEPT !.feedback = IF @ = NoFeedback THEN at ELSE @, !.stamp = at]

(* submit_feedback: a 404, or the feedback is written into the record, whichever
   analysis that is of. *)
Annotated(record, at) == [record EXCEPT !.feedback = at, !.stamp = at]

Feedback(request) ==
  /\ request.op = "feedback"
  /\ IF request.key \in DOMAIN results
     THEN /\ ticks' = ticks + 1
          /\ results' = [results EXCEPT ![request.key] = Annotated(@, ticks + 1)]
          /\ replies' = replies \cup
               {Reply(request, 200, [i \in {request.key} |-> ticks + 1])}
     ELSE /\ replies' = replies \cup {Reply(request, 404, NoStamps)}
          /\ UNCHANGED <<results, ticks>>

(* list_results: a summary of every record, without its feedback. *)
List(request) ==
  /\ request.op = "list"
  /\ replies' = replies \cup
       {Reply(request, 200, [i \in DOMAIN results |-> results[i].analyzed_at])}
  /\ UNCHANGED <<results, ticks>>

Answer(request) ==
  /\ stage = "idle"
  /\ Get(request) \/ Feedback(request) \/ List(request)
  /\ inbox' = inbox \ {request}
  /\ UNCHANGED <<analysis, known, counters>>

(* The store lives in the process, and the analysis in progress; of the other requests
   some are lost with it (Lose), and some have yet to arrive. *)
Restart ==
  /\ restarts < MaxRestarts
  /\ restarts' = restarts + 1
  /\ results' = [i \in {} |-> 0]
  /\ known' = Unknown
  /\ Idle
  /\ UNCHANGED <<inbox, replies, ticks, offer, sent, fresh>>

Next ==
  \/ SendAnalyze \/ SendQuery
  \/ \E reply \in replies : Deliver(reply)
  \/ Lose
  \/ \E request \in inbox : Accept(request) \/ Answer(request)
  \/ Ingest \/ DetermineStart \/ CompareWithBaselines \/ Store \/ Fail
  \/ Restart

Spec == Init /\ [][Next]_vars
----------------------------------------------------------------------------
(* Properties *)

Version == 0..ticks
StampsOf(S) == UNION {[T -> Version] : T \in SUBSET S}
Request ==
  [n : 1..sent, op : {"analyze", "get", "feedback", "list"}, key : Id \cup {NoId},
   payload : offer.payloads \cup {NoPayload}, floor : [Id -> Version], life : 0..restarts]

AnAnswer ==
  [to : Request, status : {200, 404, 500}, stamps : StampsOf(Id), life : 0..restarts]

(* Nothing is told that has not been written, an analysis knows what it works on, and
   only what was made up or given names a record. *)
TypeOK ==
  /\ offer \in Offers
  /\ ticks \in 0..sent /\ sent \in 0..offer.requests /\ restarts \in 0..MaxRestarts
  /\ fresh \subseteq FreshId
  /\ DOMAIN results \subseteq IncidentId \cup fresh
  /\ \A i \in DOMAIN results :
       results[i] \in [analyzed_at : 1..ticks, stamp : 1..ticks, feedback : Version]
  /\ inbox \subseteq Request
  /\ replies \subseteq AnAnswer
  /\ known \in [Id -> Version]
  /\ stage \in {"idle", "ingest", "start", "compare", "reason"}
  /\ IF stage = "idle" THEN serving = NoRequest /\ id = NoId /\ seen = NothingSeen
     ELSE /\ serving \in Request /\ serving.op = "analyze"
          /\ id \in IncidentId \cup fresh
          /\ seen.anomalous \subseteq Series

(* A record has no feedback, or what was written last and after its analysis. *)
NothingInherited ==
  \A i \in DOMAIN results :
    \/ results[i].feedback = NoFeedback /\ results[i].stamp = results[i].analyzed_at
    \/ /\ results[i].feedback = results[i].stamp
       /\ results[i].analyzed_at < results[i].feedback

Accepted(reply) ==
  reply.to.op = "feedback" /\ reply.status = 200 /\ reply.life = restarts

AcceptedStays ==
  \A reply \in replies : Accepted(reply) =>
    LET i == reply.to.key
    IN  /\ i \in DOMAIN results \cap DOMAIN reply.stamps
        /\ \/ results[i].feedback >= reply.stamps[i]
           \/ results[i].analyzed_at > reply.stamps[i]

(* Feedback that was accepted stays in the store until later feedback takes its place, or a
   later analysis of the incident, which does not inherit it; short of a
   restart, and whichever request came in late or was sent again.  Which result the feedback
   was meant for, the store cannot tell: a request names the incident only, and feedback
   that an analysis overtakes is written into the newer record
   (app.py: analyze_incident and submit_feedback). *)
FeedbackLasts == NothingInherited /\ AcceptedStays

IsRecent(reply) ==
  LET asked == reply.to
      floor == asked.floor
  IN  asked.life = reply.life =>
        /\ reply.status = 404 => floor[asked.key] = 0
        /\ asked.op \in {"get", "feedback"} /\ reply.status = 200 =>
             reply.stamps[asked.key] >= floor[asked.key]
        /\ asked.op = "list" => \A i \in Id : floor[i] > 0 => i \in DOMAIN reply.stamps

(* An answer is never older than what any client had been told, in the same life of the
   process, when the question was asked: an incident known to be stored is found and
   listed, and shows the analysis, or the feedback, that was acknowledged, or a later
   one; a refused analysis takes nothing away (app.py: every endpoint on _results). *)
ReadsAreRecent == \A reply \in replies : IsRecent(reply)

Clean(payload) ==
  LET Whole(trace) == ~Broken(trace)
      Spanned(trace) == [i \in DOMAIN trace |-> [trace[i] EXCEPT !.spans = Keep(@, Sound)]]
      whole == Keep(payload.traces, Whole)
  IN  [payload EXCEPT !.traces = [i \in DOMAIN whole |-> Spanned(whole[i])],
                      !.metrics = Keep(@, Sound),
                      !.changes = Keep(@, Sound)]

(* What garbage does not refuse, garbage does not change: an analysis that goes on sees
   the spans, changes, start and anomalies that it would see had the malformed items not
   been sent (the three ingesters, and app.py where the start is taken from the metrics
   that were kept).  A broken resource costs its trace, and no other. *)
GarbageChangesNothing ==
  stage = "reason" =>
    LET clean == Clean(serving.payload)
    IN  seen = [spans |-> Spans(clean), metrics |-> clean.metrics, changes |-> clean.changes,
                start |-> IncidentStart(clean, clean.metrics),
                anomalous |-> AnomalousSeries(clean.metrics,
                                              IncidentStart(clean, clean.metrics))]

(* What the docstring of get_current_metrics says: the window holds both its ends.  The
   code leaves the later one out, which by default is that of the newest reading. *)
ClosedWindow ==
  stage = "reason" =>
    seen.anomalous =
      {s \in Series :
         LET Within(m) ==
               /\ m.series = s
               /\ m.time \in seen.start..(seen.start + LookbackMinutes)
             history == Before(seen.metrics, seen.start, s)
             current == SelectSeq(seen.metrics, Within)
         IN  Len(history) >= MinSamples /\ current # <<>> /\ Deviates(history, current)}
============================================================================
