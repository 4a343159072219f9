----------------------------- MODULE Telemetry -----------------------------
(***************************************************************************)
(* What /analyze makes of a payload before anything reasons about it: the  *)
(* three ingesters, the start of the incident, and the baselines and       *)
(* deviations of context/baseline_calculator.py.                           *)
(*                                                                         *)
(* A raw item is what it would be if it were well formed, together with    *)
(* its defects; the first check that a defect fails decides what becomes   *)
(* of the item.  Time is in minutes, a reading in hundredths of its unit,  *)
(* so that 1 is the least standard deviation a baseline has.               *)
(***************************************************************************)
EXTENDS Integers, Sequences, SequencesExt

CONSTANTS
  Series,   \* a node with a metric type
  SpanId,
  EventId,
  Now       \* the clock of the request, for a payload without metrics

LookbackMinutes == 5
MinSamples == 3
AnomalyThreshold == 3

----------------------------------------------------------------------------
(* Ingestion *)

(* The checks of metric_ingester.ingest, in the order they are made. *)
MetricChecks ==
  <<"field missing", "node_id empty", "node_type unhashable", "node_type unknown",
    "metric_type unhashable", "metric_type unknown", "value boolean", "value overflows",
    "value no number", "value not finite", "value negative", "timestamp no text",
    "timestamp unparsable", "window boolean", "window infinite", "window no number",
    "window not positive", "unit no text">>

(* Looking up a list in a dict, strptime of a number and converting a number that is
   too large raise errors that ingest does not catch, and ingest_batch neither. *)
MetricRaises ==
  {"node_type unhashable", "metric_type unhashable", "value overflows",
   "timestamp no text", "window infinite"}

(* The checks of change_ingester.ingest and its parsers; only the one for deploys
   reads deploy_scope.  An event_type that is a list meets no except clause, a
   timestamp that is a number none for its TypeError. *)
ChangeChecks(kind) ==
  <<"event_type missing", "event_type unhashable", "event_type unknown", "field missing">>
  \o (IF kind = "deploy" THEN <<"deploy_scope no list">> ELSE <<>>)
  \o <<"timestamp no text", "timestamp unparsable">>

ChangeRaises == {"event_type unhashable", "timestamp no text"}

(* Whatever is wrong with a span costs that span. *)
SpanDefects ==
  {"traceId empty", "spanId empty", "timestamp missing", "timestamp unparsable",
   "ends before start", "malformed"}

RawMetric ==
  [series : Series, value : Nat, time : Int,
   defects : SUBSET {MetricChecks[i] : i \in DOMAIN MetricChecks}]

RawChange ==
  UNION {[id : EventId, kind : {kind},
          defects : SUBSET {ChangeChecks(kind)[i] : i \in DOMAIN ChangeChecks(kind)}] :
         kind \in {"deploy", "config_change", "feature_flag"}}

RawSpan == [id : SpanId, defects : SUBSET SpanDefects]

(* A trace is a sequence of resources.  broken: not the structure it should be,
   outside its spans. *)
RawTrace == Seq([broken : BOOLEAN, spans : Seq(RawSpan)])

(* start: the incident_start of the request, empty if it has none; unparsable: it has
   one that is no timestamp. *)
Payload ==
  [traces : Seq(RawTrace), metrics : Seq(RawMetric), changes : Seq(RawChange),
   start : Seq(Int), unparsable : BOOLEAN]

Fate(item, checks, raises) ==
  LET Fails(i) == checks[i] \in item.defects
  IN  IF \A i \in DOMAIN checks : ~Fails(i) THEN "kept"
      ELSE IF \E i \in DOMAIN checks :
                /\ Fails(i) /\ checks[i] \in raises
                /\ \A j \in 1..(i - 1) : ~Fails(j)
           THEN "raises" ELSE "dropped"

MetricFate(metric) == Fate(metric, MetricChecks, MetricRaises)
ChangeFate(change) == Fate(change, ChangeChecks(change.kind), ChangeRaises)

(* A batch raises if any of its items does; otherwise it is what was kept. *)
BatchRaises(payload) ==
  \/ \E i \in DOMAIN payload.metrics : MetricFate(payload.metrics[i]) = "raises"
  \/ \E i \in DOMAIN payload.changes : ChangeFate(payload.changes[i]) = "raises"

(* The items appended one by one, but for those that are skipped. *)
Keep(items, Good(_)) ==
  FlattenSeq([i \in DOMAIN items |-> IF Good(items[i]) THEN <<items[i]>> ELSE <<>>])

Metrics(payload) == Keep(payload.metrics, LAMBDA m : MetricFate(m) = "kept")
Changes(payload) == Keep(payload.changes, LAMBDA e : ChangeFate(e) = "kept")

Sound(item) == item.defects = {}
Broken(trace) == \E i \in DOMAIN trace : trace[i].broken

(* A defective span is skipped, a broken resource raises out of ingest and costs
   its whole trace, the spans before it included; ingest_batch goes on. *)
TraceSpans(trace) ==
  IF Broken(trace) THEN <<>>
  ELSE FlattenSeq([i \in DOMAIN trace |-> Keep(trace[i].spans, Sound)])

Spans(payload) == FlattenSeq([i \in DOMAIN payload.traces |-> TraceSpans(payload.traces[i])])

----------------------------------------------------------------------------
(* The incident's start and its anomalies *)

Latest(metrics) ==
  CHOOSE t \in {metrics[i].time : i \in DOMAIN metrics} :
    \A i \in DOMAIN metrics : metrics[i].time <= t

(* Mutant: the latest of all metrics sent, not of those kept. *)
IncidentStartOfAll(payload, metrics) ==
  IF payload.start # <<>> THEN payload.start[1]
  ELSE (IF payload.metrics # <<>> THEN Latest(payload.metrics) ELSE Now) - LookbackMinutes

IncidentStart(payload, metrics) ==
  IF payload.start # <<>> THEN payload.start[1]
  ELSE (IF metrics # <<>> THEN Latest(metrics) ELSE Now) - LookbackMinutes

(* The readings of a series before the start, and those within the window. *)
Before(metrics, start, series) ==
  SelectSeq(metrics, LAMBDA m : m.series = series /\ m.time < start)

Current(metrics, start, series) ==
  SelectSeq(metrics, LAMBDA m :
    /\ m.series = series
    /\ start <= m.time /\ m.time < start + LookbackMinutes)

Values(readings) == [i \in DOMAIN readings |-> readings[i].value]

Total(numbers) == FoldSeq(+, 0, numbers)

Square(n) == n * n

(* The mean of the current readings lies at least three standard deviations above
   that of the history, multiplied out: with n readings of history and k now, gap is
   n * k times the distance of the means, spread n * n * n times the variance. *)
Deviates(history, current) ==
  LET n == Len(history)
      k == Len(current)
      sum == Total(Values(history))
      spread == Total([i \in DOMAIN history |-> Square(n * history[i].value - sum)])
      gap == n * Total(Values(current)) - k * sum
  IN  /\ gap >= AnomalyThreshold * n * k
      /\ n * Square(gap) >= Square(AnomalyThreshold * k) * spread

(* compute_baselines and get_anomalous_nodes: the series that deviate from a
   baseline of enough samples. *)
AnomalousSeries(metrics, start) ==
  {s \in Series :
     LET history == Before(metrics, start, s)
         current == Current(metrics, start, s)
     IN  /\ Len(history) >= MinSamples
         /\ current # <<>>
         /\ Deviates(history, current)}
============================================================================
