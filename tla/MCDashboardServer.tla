------------------------- MODULE MCDashboardServer -------------------------
(***************************************************************************)
(* Every payload alone, for what it is made into; and two of them in long  *)
(* sessions, for what becomes of their results.                            *)
(***************************************************************************)
EXTENDS DashboardServer

MCSeries == {"fraud latency", "postgres errors"}
MCNow == 100

Sample(series, time, value) ==
  [series |-> series, value |-> value, time |-> time, defects |-> {}]
History(series, values) == [i \in DOMAIN values |-> Sample(series, i - 1 - Len(values), values[i])]
Flat == <<100, 100, 100>>
Fraud == "fraud latency"

Plain(metrics, start) ==
  [traces |-> <<>>, metrics |-> metrics, changes |-> <<>>, start |-> start,
   unparsable |-> FALSE]

Usual == Plain(History(Fraud, Flat) \o <<Sample(Fraud, 0, 700)>>, <<0>>)

(* One striking reading about each end of the two windows, with the start given, and
   with the start that follows from the last reading. *)
AtTheEnds ==
  {Plain(History(Fraud, Flat) \o <<Sample(Fraud, 2, 100), Sample(Fraud, t, 700)>>, start) :
     t \in {-5, -1, 0, 4, 5, 6}, start \in {<<>>, <<0>>}}

(* Too few readings, readings that vary, and readings at the thresholds: three standard
   deviations, and three hundredths above a flat history. *)
AtTheThresholds ==
  {Plain(History(Fraud, h) \o <<Sample(Fraud, 0, v)>>, <<0>>) :
     h \in {<<100>>, <<100, 100>>, Flat}, v \in {102, 104}}
  \cup {Plain(History(Fraud, <<100, 300, 100, 300>>) \o <<Sample(Fraud, 0, v)>>, <<0>>) :
     v \in {0, 400, 500, 600}}
  \cup {Plain(History(Fraud, <<100, 300, 200>>) \o <<Sample(Fraud, 0, 800), Sample(Fraud, 1, v)>>
              \o History("postgres errors", Flat) \o <<Sample("postgres errors", 3, 300)>>, <<0>>) :
     v \in {0, 100}}

(* One malformed reading, or one with two defects, that would change everything if it
   were kept: its value, and the start that follows from its time. *)
Garbage(defects) ==
  {Plain(<<[Sample(Fraud, t, 900) EXCEPT !.defects = defects]>> \o Usual.metrics, start) :
     t \in {-2, 20}, start \in {<<>>, <<0>>}}
MalformedMetrics ==
  UNION {Garbage({MetricChecks[i]}) : i \in DOMAIN MetricChecks}
  \cup Garbage({"node_id empty", "timestamp no text"})
  \cup Garbage({"timestamp no text", "unit no text"})

Change(event, kind, defects) == [id |-> event, kind |-> kind, defects |-> defects]
MalformedChanges ==
  UNION {{[Usual EXCEPT !.changes = <<Change("e1", kind, {ChangeChecks(kind)[i]}),
                                      Change("e2", "deploy", {})>>] :
          i \in DOMAIN ChangeChecks(kind)} : kind \in {"deploy", "config_change"}}

Resource(broken, spans) ==
  [broken |-> broken,
   spans |-> [i \in DOMAIN spans |-> [id |-> spans[i], defects |-> IF spans[i] = "bad"
                                                                   THEN {"malformed"} ELSE {}]]]
MalformedTraces ==
  {[Usual EXCEPT !.traces = <<<<Resource(FALSE, <<"s1", second>>), Resource(broken, <<"s2">>)>>,
                              <<Resource(FALSE, <<"s3">>)>>>>] :
     second \in {"s2", "bad"}, broken \in BOOLEAN}

Unparsable == [Usual EXCEPT !.unparsable = TRUE]
Refused == Plain(<<[Sample(Fraud, 0, 100) EXCEPT !.defects = {"timestamp no text"}]>>, <<>>)

MCOffers ==
  {[payloads |-> {p}, requests |-> 1] :
     p \in AtTheEnds \cup AtTheThresholds \cup MalformedMetrics \cup MalformedChanges
             \cup MalformedTraces \cup {Unparsable, NoPayload}}
  \cup {[payloads |-> {Usual, Refused}, requests |-> 3]}
============================================================================
