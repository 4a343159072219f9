# Hyperion, verified

TLA+ models of Hyperion, the causal root cause analyser in this repository, the
TLC runs that check them and the theorems TLAPS proves about them.
`PROJECT.json` is the index: which component a module models, which lines of
the source each definition stands for, what each run checks, which mutation of
the code each property detects, and the hazards the properties are aimed at.

## 1. The system

One request is one pass through a pipeline:

    raw telemetry -> ingest -> build graph, baselines -> engine.analyze -> result store -> browser

`engine.analyze` is a loop. Each iteration localizes candidates, ranks them,
investigates the best `top_k` of them with the domain engine of their type,
and scans the neighbours of each for signals. Signals become hints, hints bring
nodes in that metrics did not show, and the next iteration takes those up. When
no new hint turns up, or after three iterations, everything found is scored and
a verdict is determined.

| Component | State it keeps | Operations | What must hold |
|---|---|---|---|
| Reasoning loop (`reasoning/engine.py`, `localizer.py`, `domain_rca/orchestrator.py`) | iteration, hint pool, known candidates, all results, the last arbiter result | localize, rank, investigate, termination check, score, decide, the catch-all | each node investigated once, nothing found is lost, it stops, it stops only for a reason, the verdict follows from the evidence |
| Neighbour scan (`neighbour_scan.py`) | none | scan callers and callees | every failing neighbour yields a hint |
| Arbitration, score, verdict (`evidence_arbitrator.py`, `scorer.py`) | none | flag, weigh, choose | confidences in 0..0.95, two causes only from two domains |
| Causal model (`causal_model.py`) | per candidate: simulation queue and visited set, counterfactual queue | simulate forward, counterfactual, fit, rank | shortest paths, blame on the origin, scores in 0..1, independent of set order |
| Graph builder (`context/graph_builder.py`, `simulator/topology.py`) | the graph; the process-wide reference topology | seed, discover nodes, discover edges, attach change events | the order of spans decides no more than it must, change events reach their service, no leak between requests |
| Baselines (`context/baseline_calculator.py`) | none | baseline, deviation | the window's ends, reliability |
| Service engine (`reasoning/domain_rca/service.py`, `evidence_builders.py`) | two evidence lists, changes found, best stack trace match, smoking gun | code engine, configuration engine, up to five questions to a language model, arbitrate, the catch-all | the evidence is what the telemetry says, the cause follows from the evidence, a failing call counts for nothing |
| Database, dependency, queue engines (`reasoning/domain_rca/`) | evidence list | classify, gather evidence, prioritise, the catch-all | the failure type rests on evidence, the evidence on the incident's window |
| Ingestion (`trace_ingester.py`, `metric_ingester.py`, `change_ingester.py`) | none | parse traces, metrics, changes | a malformed item costs itself, or the request, and changes nothing else |
| Code ingester (`ingestion/code_ingester.py`) | of the file in hand: two line counters, two maps from numbers to lines, two sets of changed lines | check metadata, take a file, open a hunk, read a line, blame functions | lines have their true numbers, records point at definitions, no change is overlooked |
| Dashboard server (`dashboard/app.py`) | `_results` in memory | analyze, get, feedback, list, and a restart | accepted feedback stays until a later analysis, which inherits none; no answer is older than what a client knows |
| Front end (`dashboard/static/app.js`) | incidents, their loading flags, the route | load, open an incident and fetch it, merge a reply, go to the list | no fetch twice, no result lost, nothing loading for ever |
| Formatter, Slack stub, adapters, simulator, static pages, timeline builder | text, demo data | | not modelled, see section 7 |

How they interact: everything below the dashboard is a synchronous call in the
request's own thread, and the handlers of `app.py` contain no `await`, so two
requests never interleave inside the pipeline. What is hard is therefore not
locking. It is the loop that carries three sets from one iteration to the next,
graph walks whose order comes from hash sets, decisions that depend on the order
in which spans arrive, exceptions in one of several steps, boundaries of windows
and thresholds, objects shared between requests, and a browser with several
fetches in flight against a server that may restart. PROJECT.json lists these
hazards at their lines.

## 2. Plan

Done, in this order:

1. `ReasoningLoop` with `NeighbourScan` and `Verdict`, the abstract
   `RCAContract` it refines, and the proofs in `ReasoningLoopProofs`.
2. `CausalModel`, the stage the loop leaves open as "some ranking", and its proofs in
   `CausalModelProofs`.
3. `GraphBuilder`, which decides whether that stage can run at all, and its proofs in
   `GraphBuilderProofs`.
4. `ServiceRCA`, the domain engine with the most to decide, and its proofs in
   `ServiceRCAProofs`.
5. `IncidentPage`, the browser's page with its fetches in flight, and its proofs
   in `IncidentPageProofs`.
6. `DomainEngines`, the database and dependency engines over `DatabaseRCA` and
   `DependencyRCA`, and its proofs in `DomainEnginesProofs`.

7. `DashboardServer` over `Telemetry`: the result store and its endpoints, with
   requests in flight, lost and repeated, and a restart; what `/analyze` makes
   of a payload before the graph is built, that is ingestion, the start of the incident
   and the baselines. Its proofs in `DashboardServerProofs`.
8. `CodeIngester`, the line accounting and the blame of `code_ingester.py` against
   the true versions of the files, and its proofs in `CodeIngesterProofs`.

Every invariant that a run checks is also proved. To come: that the outcomes of
`DomainEngines` and `ServiceRCA` are ones the loop takes from an engine, as
`RankingIsBestFirst` shows of the ranking, and that the events `GraphBuilder`
attaches are those a service's engine is handed.

## 3. The modules

**`ReasoningLoop`** is `engine.analyze` with what it drives. `incident` is what
the stages read and nothing writes: graph, telemetry, deviating nodes. `iteration`,
`hints`, `known`, `candidates`, `ranked`, `all_enriched`, `scored` and `result`
are the variables of `_run_analysis`; `enriched` and `raised` are the lists that
`investigate_all` builds, one candidate per step; `flagged` is what remains of
`arbiter_result`. Actions: `Localize`, `Rank`, `Fail` (the exception of stage 2
and the catch-all), `Investigate` (engine and scan of one candidate, either of
which may raise), `Iterate` and `Stop` (arbitration and termination check),
`Score`, `NothingToScore`, `Decide`. What the causal model and the engines
compute from numbers is left open: a ranking is any order, an investigation
any outcome of that engine.

**`NeighbourScan`** and **`Verdict`** are its pure parts. `NeighbourScan`
is the decision table on a neighbour's telemetry. `Verdict` is the multi-factor
flag, the capped weights in hundredths and `_determine_verdict`. Doubles
matter in one place: 0.15 + 0.15 + 0.35 is below 0.65, and `FellShort` stands
for that sum.

**`RCAContract`** is what an analysis promises: rounds of at most `TopK` nodes
not taken before, then one final answer that names as many investigated nodes as
its verdict calls for. It knows nothing of hints, scores or stages.

**`CausalModel`** is `rank_candidates`. One `Propagate` step serves one element
of the simulation's queue, one `Explain` step one element of the
counterfactual's; callers of a node, and the counterfactual's elements, come
in any order, which covers every order Python's sets and networkx may
give. Metric readings are means of a window; percentages are in thousandths and
rounded down, except where a reading is compared with its threshold. `Start` and `SupposeOutsideGraph` are the two ways to raise: a
cycle, and an anomalous node that is not in the graph.

**`GraphBuilder`** is `build`, several times in one process. `node` maps an id
to its type and its object on a heap, `recent` maps an object to the change
events attached to it. Objects `<<0, n>>` are the nodes of the module
`topology.py` itself, which all requests share. A span keeps its id, parent,
service, kind and those attributes that name a dependency; the two passes read
different keys, as in the code.

**`ServiceRCA`** is `investigate` of `service.py`. `code` and `config` are the
evidence lists of `_run_code_engine` and `_run_config_engine`, filled one
rung of the ladder per step: `DetectDeploy`, `ExtractException`,
`AssessDeploy` (case A), `MatchSpan` (one error span of
`_find_stacktrace_match`) and `EndMatch`, `AssessChange` (case B), `EndCode`;
then `DetectChange` (one flag or setting), `EndDetect`, `AssessConfigChange` (one
question), `EndConfig`; and `Arbitrate`. Each question has four
replies, of which "failed" covers an exception of the client and an answer that
cannot be parsed. `ExtractionFails`, `MatchFails` and `PatternFails` are the three
places where a malformed event raises into the catch-all. An incident holds
ages of changes in minutes, spans with the kinds of their events and with their
parsed stack frames, and the code change under analysis. `answers` is no
variable of the code: it records the replies, so that evidence can be compared
with them. A strength is a grade and not a text, and the mark
`both_strong` is part of the result because it is set on an item of it.

**`IncidentPage`** is the component `App` of `app.js`. `incidents` is its state with
every update applied, `rendered` what the last rendering saw: a click is handled
by the function of that rendering (`Wanted` reads `rendered`), a reply is
merged by a function of the current state (`Updated` reads `incidents`), and
`Render` may lag behind. The one ordering taken from React is that the updates of a
click are flushed before the next click, so `Start` changes both. `Reload` is
loading the page with any hash, `OpenAndFetch` and `Open` the two ways through
`openIncident`, `Deliver` the `then` and `catch` of both fetches. `Answer` is
the server with all that lies between, which replies or fails in any order; answers
differ in whether they carry evidence and a text, which is what the merging
functions of `data.js` ask. `sent` and `loads` are the bounds' counters, and `last`
records the last reply merged, to compare the screen with it.

**`DomainEngines`** is one investigation by the database or the dependency engine:
`Classify` and `Emit` (relational databases), `InvestigateCache`,
`InvestigateGeneric`, `InvestigateDependency`, `Fail` (the catch-all of the
database engine) and `Prioritise`. What they compute is in **`DatabaseRCA`** and
**`DependencyRCA`**, over the items and the window of **`EngineEvidence`**. A span is
its time, status, duration, statement and the kinds of exception in its events;
latencies are in hundredths of a millisecond and error rates in hundredths of a
percent, so that 1 is the least deviation a baseline has, and ratios are
compared by multiplying out. What may be missing is a sequence of length 0 or 1.

**`Telemetry`** is what becomes of a payload before the graph: a raw item is what it
would be if it were well formed, with its defects, and `Fate` follows the checks of
its ingester in their order, up to the first that the item fails. That check drops the
item, or raises an error that no except clause catches (`MetricRaises`,
`ChangeRaises`), which refuses the whole request. A broken resource costs its trace
(`TraceSpans`). `Keep` is the loop that appends what it does not skip. `IncidentStart`, `Before` and `Current` are the windows, `Deviates`
is `get_deviation` against the threshold, multiplied out over integers.

**`DashboardServer`** is `app.py`. Its handlers await nothing, so a request is served
to its end before the next; an analysis takes a step for each stage of
`analyze_incident` (`Accept`, `Ingest`, `DetermineStart`, `CompareWithBaselines`,
`Store`; `Refuse` and `Fail` for the except clause). `inbox` and `replies` are
what is on its way, in no order; `Lose` breaks a connection on either way, and a
client that hears nothing may send again. `Restart` empties `_results` and
forgets the analysis in progress. `results` keeps of a record what can go
stale. `ticks`, the stamps, `known` and `floor` are no state of the
code: they number the writes, to say how old an answer is.

**`CodeIngester`** is `ingest_raw_diff` and `parse_diff`. `old_line`, `new_line`,
`old_line_map`, `new_line_map`, `all_changed` and `old_changed` are the variables of
`parse_diff`, which walks each hunk twice, once in `_extract_changed_lines` and
once for the maps, counting alike; the model does both in one walk. An event carries
both true versions of each file and the true number of each line, which the code does
not have: they are what its results are compared with. An assumption states that
the hunks are those of a diff between the two (`HunkIsTrue`). A text is a definition,
a line of a body, a line of the top level or blank, which is what decides where
`tree-sitter` sees functions begin and end (`Functions`, external). A remark between
the lines ("\ No newline at end of file", or what `splitlines` tears off at a form feed)
is a line of its own, which the code takes for context.

The `MC...` modules give the constants their values. Definitions marked
"Mutant" are plausible bugs, used only to show that a property detects them.

## 4. The runs

| Run | What it shows |
|---|---|
| `reasoning_loop` | Five nodes, one stray metric source, three iterations, batches of two. Every ranking, every engine outcome out of three evidence counts, an engine and a scan that may raise, a cyclic graph. About 87,000 states. |
| `causal_model` | Every DAG on four nodes up to renaming with every choice of failing nodes, plus readings at the thresholds, slow, silent and new nodes with uneven weights on a graph with two paths; one cyclic graph; one anomalous source outside the graph. About 45,000 states. |
| `graph_builder` | Two builds in one process, every order of three spans out of twelve, with and without the topology. About 74,000 states. |
| `service_rca` | About two thousand incidents of one service: six deploy histories, eight sets of spans, five code changes, flags and settings, each at the ends of its window, with and without a language model, every reply to every question. About 60,000 states. |
| `incident_page` | Two incidents with an endpoint, the one fetched with the page and a mock one: clicks, replies and failures in every order, renderings that lag, a retry, a reload. About 105,000 states. |
| `domain_engines` | About twenty-two thousand incidents: databases of each kind with up to three spans and three callers, dependencies with up to three calls, at the ends of the window, the thresholds and the baselines, with and without readings. About 72,000 states. |
| `dashboard_server` | About a hundred payloads, each alone, with another defect, window end or threshold; and up to three requests of every kind, with two payloads, over connections that break, with a restart. About 340,000 states. |
| `code_ingester` | About five thousand commits: every diff with a block removed and a block put in, of two files and of new ones, with no, one and three lines of context; commits of several files. About 73,000 states. |
| `two_domains`, `graph_is_dag`, `closed_window`, `reported_means_modified` | Statements of the code or its docs that do not hold; each run ends in the counterexample that its finding describes. |

Properties of `reasoning_loop`: `ResultsMatchInvestigated` (one result for each
known node), `OriginAtInclusion`, `LaterIterationsAdvance` (an iteration started
by hints finds something to do), `EarlyStopJustified` (no erring neighbour is
left behind when the loop stops early), `VerdictMatchesEvidence`, `Terminates`,
`ImplementsContract`. Of `causal_model`: `ExplainedByOtherRoots` (the walk
computes what `Reaching` defines, the least set closed under calls, whatever the
order), `CulpritBeatsVictim`,
`CreditMatchesGuilt`, `HopsAreShortest`. Of `graph_builder`:
`EventsAreThisBuilds`, `OrderOnlyResolvesIds` (nodes and edges come from the set of the
spans, once it is settled which of several spans of one id that id stands for, which is
all that their order decides). Of
`service_rca`: `EvidenceMatchesTelemetry` (the evidence, without the model's
part, equals what a declarative reading of the incident gives),
`OnlyAnswersCount`, `SmokingGunDecides`, `DomainMatchesEvidence` (the cause named
does not contradict the evidence listed), `FlagsAreAssessedFirst`. Of `incident_page`: `OneFetchPerIncident`,
`LoadingWhileInFlight`, `ShowsLastReply` (the screen agrees with the last reply
whatever came in between), `ResultsStay`, `Settles`. Of
`domain_engines`: `TypeRestsOnEvidence` (no type of a database is named without evidence of
it, but one case; of a dependency, an outage has its item of evidence, and a limited rate or a
timeout, which have none, a call of that kind in the window and no worse one), `OnlyTheWindowCounts` (blanking everything outside the window
leaves the outcome as it is), `WorstDecides` (the slowest statement on average and the
most common code decide the strength). Of `dashboard_server`:
`FeedbackLasts` (accepted feedback stays until later feedback or a later analysis takes its
place, and a later analysis inherits none),
`ReadsAreRecent` (no answer is older than what any client had been told when the question
was asked, in the same life of the process), `GarbageChangesNothing` (an analysis that
goes on sees what it would see had the malformed items not been sent, its start
included). Of `code_ingester`: `NumbersAreTrue` (what is rebuilt has the numbers
and texts of the true versions, nothing shown is missed), `RecordsPointAtDefinitions`
(a record names a line at which a function of its name begins; stack frames are compared
with that line), `ShownChangesAreReported` (a change in the body of a function whose
definition is shown is within a record of it, or gives it one). Each module has one type invariant, which
carries the numeric bounds.

Bounds, and why they are enough. Three iterations is the code's own cap.
Batches of two with three hinted neighbours make `top_k` cut, a bypass has the
node that was cut hinted at again, and a chain of four nodes has hints left at
the cap. For the causal model, four graph nodes are the least with two disjoint paths between two nodes, a bypass, and a node that is
both caller and callee of failing ones. For the service engine, changes and deploys lie on and one
past each end of their windows, a deploy follows the incident, frames
meet the change at its line, its function, its file or not at all, in one span and across two,
and four changes exceed the three that are assessed. For databases, two spans meet as
error and no error, inside and outside the window, one slow and one frequent
statement take three; of three callers two report timeouts, as many as are listed.
For the graph, three spans are the least in which a
child precedes its parent while a third span changes a type or repeats an id;
two builds are the least in which one can leak into the next. For the page, four
fetches (`MaxFetches`) are the one that comes with it, one each for two incidents
that race, and a retry; two loads (`MaxLoads`) are the least in which a reply to
an earlier load could be taken for one to the present. For the server, three
requests are the least with an analysis, another that replaces or follows
it, and a question about it that may be overtaken; one restart (`MaxRestarts`) puts
requests and replies on both sides of it; two ids (`FreshId`) let two nameless
analyses differ. Payloads put their readings on, and one past, each end of both
windows, deviations on and below the threshold, and one item with each defect the
ingesters tell apart, plus some with two. For diffs, six lines hold two functions
that touch, or two of one name with a blank line between; one block removed and one put
in anywhere give one hunk or two, and the three widths of context are none, some
and all. `MaxBuilds`, `MaxFetches`, `MaxLoads`, `MaxRestarts` and the number of requests
stop systems that would go on. `MaxBuilds` is the reason why `GraphBuilder` runs
without the deadlock check, and the number of requests why `DashboardServer` does;
`CodeIngester` ends with its commit; the user of the page can always go back and forth.

Fairness: weak fairness of the loop's own steps. It is a call in the
caller's thread that waits for nobody but an LLM client, whose calls are inside
one step and end in an answer or an exception. For the page, `Settles` assumes
that each request is answered or fails, that its reply is delivered and that
React renders: `fetch` always settles when the server, whose handlers end as above,
responds or the connection breaks, and `app.js` sets no timeout of its own. The
user need not do anything. `CausalModel`, `GraphBuilder`, `ServiceRCA`,
`DomainEngines` and `CodeIngester` state no liveness: they are bounded loops over
finite data. Nor does `DashboardServer`: a request that is lost is answered by
nobody, and the server sends nothing by itself.

## 5. Findings

* **Two domains, one verdict.** `_determine_verdict` looks for two causes only
  if the flag of the *last* batch says so, while the comment above it speaks of
  two candidates over the threshold in different domains (`two_domains`).
* **The graph need not be a DAG.** A callback between services closes a
  cycle, and the whole analysis fails at an assertion (`graph_is_dag`).
* **The last reading does not count.** The window of `get_current_metrics` is open at its
  end, where its docstring says it is closed. Without an `incident_start` the
  window ends at the newest reading, so that the newest readings are never
  looked at (`closed_window`).
* **Reported is not modified.** A removed line marks the line that follows it. When it was
  the last of its function and another function follows at once, that one is
  reported as modified (`reported_means_modified`).

Seen while modelling, without a run of their own.

* The loop: `analysis_complete` promises false for a candidate that came late
  and was not investigated; `score` writes true for all it lists and does not list the
  others.
* The graph: a parent is looked up by span id alone, over all traces. Of several spans of
  one id the last ingested is the parent of all their children, so where two
  services use one id the edges do depend on the order of ingestion.
* The graph: a service first met as a peer of another stays an external dependency
  and loses its change events. `discover_edges` reads fewer attribute keys than
  `_infer_target_from_span`: a database known by `db.namespace`, or by
  `db.system` alone, becomes a node without an edge.
* The service engine: the trace ingester says that it skips malformed events; one
  whose attributes are null or text passes, raises in the engine, and its
  catch-all drops all evidence.
* The dependency engine: its docstring says that it checks which graph predecessors are
  affected; it counts the emitters of failed calls and compares numbers. A
  dependency that reports spans of its own, as those of the simulator do, counts as its
  one caller. `RATE_LIMITED` and `TIMEOUT` come with no evidence of their own: beside the
  type, a finding lists no more than how many callers are affected.
* The database engine: a relational database whose spans fail without a known exception is
  reported as missing telemetry while its error rate is dropped, which a cache's is not;
  slow spans without a statement or a reading yield `DB_SLOW_QUERY` with no
  evidence at all (the exception in `TypeRestsOnEvidence`); missing telemetry,
  being moderate evidence, raises a priority that a constant named for it would
  lower; failed spans are divided by the spans that name a database, which are
  not the same set.
* The code ingester: a remark on a missing newline, or a line torn at a form feed, is
  counted and shifts the numbers of what follows in its hunk. A change whose
  function's definition is not shown is put down to a function of an earlier
  hunk, or to none. Of several functions of one name the old code is that of the last.
  A function that lost its last line, and nothing else, is reported as deleted (from
  reading the code; no run shows it), has no new code, and the
  language model is not asked about it. A push event of GitLab is given the head's hash
  with the first commit's message and time.
* The server: an unhashable type or a timestamp that is no text refuses the whole
  request, where other defects cost their item. A broken resource costs its trace.
  Feedback on a result that has been replaced meanwhile is stored with the newer one, of
  which its author knew nothing: a request does not say which result it judges, and no
  property rules that out. `FeedbackLasts` says that accepted feedback is not lost
  before a later analysis, and is not carried over to that.
* The page: loaded at the hash of an incident with an endpoint, it shows the incident
  without fetching it.

## 6. What is proved

Every invariant and every action property that a passing run checks is a theorem of the
specification it is checked of, for every value of the constants within the named
assumptions, each of which TLC evaluates on a run; two of `CausalModel` are proved up to the
resolution of its arithmetic, as said below. So is the refinement of `RCAContract`.
Sums, sorts, flattened sequences and extremes are shown to exist before
anything is said of them: the induction theorems of the library take an operator
as a parameter, which the installed provers cannot instantiate, so each of
these proofs takes a least counterexample instead (`SumsExist`, `SortedExists`,
`FlattenedExists`, `FirstExists`, `LeastNat`).

`ReasoningLoopProofs` proves, for every graph, telemetry, evidence, cap and batch
size, from the assumption `ConstantsAssumption` alone:

* `TypeCorrect`: `Spec => []TypeOK`, with every confidence within the cap;
* `ResultsAreComplete`: `Spec => []ResultsMatchInvestigated`;
* `OriginsAreSound`: `Spec => []OriginAtInclusion`;
* `KeepsContract`: `Spec => ImplementsContract`, the refinement of
  `RCAContract`;
* `IterationsAdvance`: `Spec => []LaterIterationsAdvance`;
* `EarlyStopsAreJustified`: `Spec => []EarlyStopJustified`;
* `VerdictsMatchEvidence`: `Spec => []VerdictMatchesEvidence`;
* `VerdictCases`: which candidates each verdict names, over any ranking.

None of these invariants is inductive by itself. `IInv` adds what ties the
stages together: `Progress` (which variables are filled at which stage),
`Fresh` (candidates are outside `known`), `Batch` (the results of the running
batch are those of the first entries of `ranked`), `Earlier` (results of earlier
iterations carry earlier numbers, which `OriginAtInclusion` needs), and `Ranking`
(`scored` lists each result once). `Invariance` proves `Spec => []IInv` action by
action; the lemmas `ScoreProperties` and `DescendingInjective` say what the
sort may leave. For the refinement, a step that closes a batch is a `Round`, the
three steps that set `result` are an `Answer`, all others stutter; `SameCardinality`
and `AnswersAreAnswers` carry the counting of root causes over from positions
to nodes. `IInv` was checked by TLC before it was proved.

Two further invariants rest on it. `HintInv`: hints lead to nodes that are not known
(`HintsLead`), and while a batch is investigated, every neighbour with errors of
a node already scanned is known, in the batch, or hinted at (`Watched`). It
needs the two readings of a span to agree: what the engine counts as an error, the
scan takes for a signal (`ErrorsAreASignal`, `ScanFindsErrors`). `VerdictInv`:
`scored` is ordered by confidence, and all confidences are zero only without any
evidence (`Ordered`, `ConfidenceOfNothing`), so that the first two decide
for all (`VerdictIsCalledFor`).

`CausalModelProofs` proves, for every graph, cyclic or not, and every reading, from
`CausalAssumption`, which says what an incident is:

* `TypeCorrect`: `Spec => []TypeOK`, hence that severities, fits and scores stay in
  [0, 1];
* `OtherRootsExplain`: `Spec => []ExplainedByOtherRoots`;
* `SimulationIsBreadthFirst`: `Spec => []HopsAreShortest`;
* `CreditIsDeserved`: `Spec => [](Cardinality(Anomalous) <= One => CreditMatchesGuilt)`;
* `BlameMovesToTheOrigin`: the same of `CulpritBeatsVictim`;
* `RankingIsBestFirst`: `Spec => []BestFirst`, that the ranking is one of those from
  which `ReasoningLoop` starts.

The bound in two of them is that of the model, whose confidences are in thousandths and
rounded down: with more than `One` (1000) anomalous nodes, the share of one of them rounds
to nothing, and a guilty node is no longer told from an innocent one. The code
computes shares in floating point, which has no such bound within reach.
`IInv` holds what the two walks have done so far: `Linked` (a node hit was hit from a
callee one hop nearer), `Breadthwise` (the queue is in order of hops and spans two levels
at most, and a node served has all its callers hit), `Explained` (what is
explained leads to another root, and a node taken from its queue has had its callers
explained), and `Records` (each assessment in the list is what its walks came to,
which nothing later changes). `WalkEnds` and `CounterfactualEnds` turn them
into distances and least closed sets when the queue is empty. `CulpritExplainsLess` is the argument for
`BlameMovesToTheOrigin`: whatever is explained without the culprit is explained
without the victim, whose one failing callee the culprit is, and the culprit itself
besides.

`GraphBuilderProofs` proves, for any topology, any spans and events and any number of
builds in one process:

* `TypeCorrect`: `Spec => []TypeOK`;
* `EventsStayInTheirBuild`: `Spec => []EventsAreThisBuilds`;
* `OrderResolvesOnlyIds`: `Spec => []OrderOnlyResolvesIds`;
* `OrderDoesNotMatter`: where spans that share an id are of one service
  (`IdsTellServices`), the edges are a function of the set of the spans
  (`EdgesOfSet`), which mentions no order.

`IInv` adds `Cursor` (which pass has read how far), `Heap` (the heap has the objects of the
topology, without events, and those of this build), `Attached` (each node has the events
for it among those read, each once and in order), and `Joined` and `Settled` (the edges are
those that the spans read imply). `Heap` is the one to worry about: the objects of the
topology outlive a build, and one event attached to them would be in the
next. `NodeInv` says that the nodes are those of the spans read. `GraphOfTheSet` goes from
positions to the set: of the spans of an id there is a last one (`OneIsLast`), so the choice
that `OrderOnlyResolvesIds` asks for is what the lookup finds (`FoundIsLast`).

`ServiceRCAProofs` proves, for every set of incidents, of whatever length and
with whatever numbers, and every sequence of replies:

* `TypeCorrect`: `Spec => []TypeOK`;
* `SmokingGunIsSound`: `Spec => []SmokingGunDecides`;
* `FlagsComeFirst`: `Spec => []FlagsAreAssessedFirst`;
* `AnswersAreCounted`: `Spec => []OnlyAnswersCount`;
* `CauseFollowsEvidence`: `Spec => []DomainMatchesEvidence`;
* `EvidenceIsComplete`: `Spec => []EvidenceMatchesTelemetry`.

`SmokingGunDecides` speaks of the end only; its `IInv` carries the argument
there. `Matched`: a match means an accepted change and a level that some
frame of some error span has, which rests on `BestInProperties` (the search
returns the level of a pair it has looked at) and so on least elements of sets of
naturals. `Smoked`: a smoking gun keeps its match, its answer and strong evidence in
`code`, which only grows from then on (`StrongStays`). `Decided`: what the
arbitration makes of it. The last rests on `StrongCount`: with at least
one strong item the code engine either wins or ties into `both_strong`, and
names the cause either way.

The other four each have an invariant of their own over it. `FlagInv`: the flags are
listed before the settings, and the questions asked are the first of that list,
so that at most three are. `TallyInv`: for each strength, evidence and answers of it are
equally many, but for what the merger of two lists removes (`Merged`, `Discounted`). `DomainInv`: what each
list may hold at each step, and what the domain named needs of them
(`Named`). `SayInv`: after each rung, the part of the evidence that does not come from
the model is what a declarative reading of the incident gives (`CodeSays`, `ChangeItems`), where
`Best` says how far the search through the spans has come; stopping early at the
highest level loses nothing (`BestIsHighest`).

`IncidentPageProofs` proves, for any incidents and any number of fetches and
loads, from `PageAssumption` alone:

* `TypeCorrect`: `Spec => []TypeOK`;
* `NoDoubleFetch`: `Spec => []OneFetchPerIncident`;
* `LoadingIsTrue`: `Spec => []LoadingWhileInFlight`;
* `ResultsAreKept`: `Spec => ResultsStay`;
* `TheLastReplyIsShown`: `Spec => []ShowsLastReply`.

The danger is the stale rendering. `Behind` says how far it may lag: an incident
that is loading is rendered as loading, and one that is not rendered as loading is
rendered with the evidence it has. Hence `WantedIsIdle`: a click that gets
through the guards meets an incident that is not in flight. `Unloaded` (no
evidence while in flight) makes `ResultsStay` an action property of `IInv`, and
`Single` replaces counting by equality. `StoryInv` says what stands between the last reply
and the screen: an incident in flight shows that it is (`Running`), one that is
not shows the reply merged last (`Shows`), which survives whatever is merged for others.

`DomainEnginesProofs` proves, for every incident, with any number of spans, callers
and calls, from `EnginesAssumption` alone:

* `TypeCorrect`: `Spec => []TypeOK`;
* `TypesRest`: `Spec => []TypeRestsOnEvidence`;
* `OnlyTheWindowMatters`: `Spec => []OnlyTheWindowCounts`;
* `TheWorstDecides`: `Spec => []WorstDecides`.

`IInv` carries over from classification to emission that the type is the one
`RelationalType` gives; for each branch a lemma (`ErrorHas`, `SlowHas`,
`ExhaustionHas`, `CacheHas`, `GenericHas`, `DependencyHas`) says what its evidence
has, all of them by `HasAppended`: evidence put together has what its parts have; `DependencyShows`
says what the calls show. `ReportInv` says that type and evidence
are a function of the incident, `SameDatabaseReport` and `SameDependencyReport` that
it gives the same value for an incident whose items outside the window are blank: each item
of evidence is, and so are the sets of spans and statements they are made from.
`TheWorstDecides` needs the extremes that the code finds to exist among
any number of statements (`FirstExists`), and means to be ordered as the products that
compare them are (`MeansCompare`).

`CodeIngesterProofs` proves, for every set of commits, with any number of files, hunks
and lines and any widths of context, from `IngesterAssumption` alone, which says that
hunks are those of a diff:

* `TypeCorrect`: `Spec => []TypeOK`;
* `NumbersStayTrue`: `Spec => []NumbersAreTrue`;
* `RecordsPoint`: `Spec => []RecordsPointAtDefinitions`;
* `NothingShownIsOverlooked`: `Spec => []ShownChangesAreReported`.

`IInv` adds `InStep`: in a hunk, each counter stands at the number of the line in hand, in
every version of which the hunk shows anything. `LineInHand` and `ReadLineKeepsStep` carry
it from line to line, `OpenHunk` sets it, and `PutTrueLine` makes of it that the
maps stay true. `RecordsPoint` then looks at one step, the blame: a definition found in
what was rebuilt stands at a line that was shown, as a line that was not is blank
(`FoundIsDefinition`), and of the old functions of a name there is a last one
(`LastOfName`, which rests on greatest elements of bounded sets). For
`NothingShownIsOverlooked`, a line removed marks a line of the new version as well
(`RemovalMarks`), the function around a marked line is found in what was rebuilt
(`FoundAround`) and blamed (`FoundIsBlamed`), and reports of one file survive those
of the next (`ListKeepsReports`).

`DashboardServerProofs` proves, for any clients, payloads, number of requests and
restarts, from `ServerAssumption` alone:

* `TypeCorrect`: `Spec => []TypeOK`;
* `FeedbackIsKept`: `Spec => []FeedbackLasts`;
* `ReadsStayRecent`: `Spec => []ReadsAreRecent`;
* `GarbageIsIgnored`: `Spec => []GarbageChangesNothing`.

`TypeOK` says that there are no more writes than requests, which needs `Counted`: writes,
waiting requests and the one in hand together. `Recent` holds the chain on which
`ReadsAreRecent` rests: what clients are being told is in the store
(`ToldIsStored`), so is what they know (`KnownIsStored`), and a waiting request was sent
knowing no more than that (`AskedOfKnown`), each of the present life of the process. A
write only raises stamps (`WriteRecent`), a refused analysis writes nothing
(`RefuseRecent`), a restart makes all three empty (`RestartRecent`). `FeedbackLasts` is
inductive on top of these: a write to a record with accepted feedback is later feedback or a
later analysis.

For `GarbageIsIgnored`, `SeenInv` says that each stage of an analysis is a function of its
payload, and `MetricsAreSound`, `ChangesAreSound` and `CleanedSpans` that
the function has the same value for the payload without its malformed items: if no item
raises, what is kept is what is sound, and leaving out what is not twice is
leaving it out once (`KeptSpans`). A trace with a broken resource is empty either way
(`LeftOutAddsNothing`).

Only model-checked: `Terminates` and `Settles`, which are liveness under fairness and
beyond the installed provers. That the findings of section 5 occur is shown by the runs
that end in a counterexample, and by no theorem.

## 7. What is not modelled

`data_quality`, narratives, fix suggestions and `priority_score`: nothing reads
them back. Pearson correlation: `CausalModel` takes any edge weight. Edge types,
protocols, tags, `propagation_paths`: nothing reads them. For
`ServiceRCA`: prompts, summaries, the number that goes with a match level
and the parsing of stack trace text. Of the engines under
`domain_rca`, the names and texts that only fill findings. For
`IncidentPage`: texts, graphs and numbers of an incident. For `Telemetry`: the values
of attributes and the parsing of timestamps, each of which is well formed or
defective. For `CodeIngester`: names, paths, the syntax of each language, nested
functions; `tree-sitter` is external. The entry points that read telemetry from files
(`ingest_from_file`): only the tests call them. The
simulator, formatter, Slack stub, adapter interface, timeline builder and
the static pages: demo data, text, rendering, or code that nothing calls.

## 8. Running

    tlc -workers 2 -config ReasoningLoop.cfg MCReasoningLoop
    tlc -workers 2 -config CausalModel.cfg   MCCausalModel
    tlc -workers 2 -config GraphBuilder.cfg  MCGraphBuilder
    tlc -workers 2 -config ServiceRCA.cfg    MCServiceRCA
    tlc -workers 2 -config IncidentPage.cfg  MCIncidentPage
    tlc -workers 2 -config DomainEngines.cfg MCDomainEngines
    tlc -workers 2 -config DashboardServer.cfg MCDashboardServer
    tlc -workers 2 -config CodeIngester.cfg  MCCodeIngester
    tlapm ReasoningLoopProofs.tla
    tlapm CausalModelProofs.tla
    tlapm GraphBuilderProofs.tla
    tlapm ServiceRCAProofs.tla
    tlapm IncidentPageProofs.tla
    tlapm DomainEnginesProofs.tla
    tlapm CodeIngesterProofs.tla
    tlapm DashboardServerProofs.tla

The other four configurations are expected to end in a counterexample:
`TwoDomainsAreMultiFactor` with `MCReasoningLoop`, `GraphIsDAG` with
`MCGraphBuilder`, `ClosedWindow` with `MCDashboardServer`, `ReportedMeansModified` with
`MCCodeIngester`.
