----------------------------- MODULE ServiceRCA -----------------------------
(***************************************************************************)
(* The domain engine for services: service.investigate.                    *)
(*                                                                         *)
(* Two engines gather evidence one after the other. The code engine looks  *)
(* at deploys, exceptions and the code change under analysis, the          *)
(* configuration engine at flag and configuration changes; both may ask a  *)
(* language model. Then one of them names the cause.                       *)
(*                                                                         *)
(* Time is in minutes before the incident, and for spans in seconds after  *)
(* its start. What a log line, a version or an exception says is left out. *)
(***************************************************************************)
EXTENDS Integers, Sequences, FiniteSets

CONSTANTS
  Incidents,            \* what the engine may be asked to investigate
  FUNCTIONS,            \* functions a code change or a stack frame may name
  DEPLOYS,              \* ids of deploy events
  FILES                 \* base names of source files

DEPLOY_LOOKBACK_MINUTES == 30
CONFIG_LOOKBACK_MINUTES == 15
INCIDENT_WINDOW_SECONDS == 300
DEPLOY_STRONG_MINUTES == 15
CONFIG_STRONG_MINUTES == 5
EXACT_LINE_TOLERANCE == 3
MAX_CONFIG_CALLS == 3

NoDeployId == "none"

Frame == [file : FILES, name : FUNCTIONS, line : Nat]

(* A changed function; code: both its old and its new text are known. *)
FunctionChange ==
  [file : FILES, name : FUNCTIONS, start : Nat, end : Nat, code : BOOLEAN]

Deploy == [id : DEPLOYS, age : Int, diff : BOOLEAN]

(* own: emitted by the service under investigation. An event either names an
   exception type, or not, or its attributes are no mapping: the ingester passes
   a null on. frames: the stack traces of its events and attributes, parsed. *)
Span == [own : BOOLEAN, error : BOOLEAN, at : Int,
         events : Seq({"exception", "other", "malformed"}), frames : Seq(Frame)]

(* given: analyze was handed a code change at all. *)
CodeChange == [given : BOOLEAN, own : BOOLEAN, age : Int,
               deploy : DEPLOYS \cup {NoDeployId}, functions : Seq(FunctionChange)]

(* flags and configs hold the ages of the changes attached to the node. *)
Incident == [deploys : Seq(Deploy), flags : Seq(Int), configs : Seq(Int),
             spans : Seq(Span), change : CodeChange,
             code_access_enabled : BOOLEAN, llm : BOOLEAN]

ASSUME ServiceAssumption ==
  /\ \A i \in Incidents : i \in Incident
  /\ NoDeployId \notin DEPLOYS

VARIABLES
  inc,       \* the incident: the node's changes, the spans, the code change
  pc,
  code,      \* evidence of the code engine
  config,    \* evidence of the configuration engine
  changes,   \* all_change_events, by kind
  cursor,    \* how far the running loop over spans or changes has come
  match,     \* the best stack trace match
  smoking,   \* smoking_gun
  answers,   \* the model's own record of what the language model said
  result

vars == <<inc, pc, code, config, changes, cursor, match, smoking, answers, result>>

Item(signal, strength) == [signal |-> signal, strength |-> strength]

CountOf(evidence, strength) ==
  Cardinality({i \in DOMAIN evidence : evidence[i].strength = strength})

Unmatched == [level |-> "none", code |-> FALSE]

Outcome(domain, failure_type, evidence, priority, both_strong) ==
  [domain |-> domain, failure_type |-> failure_type, evidence |-> evidence,
   priority |-> priority, both_strong |-> both_strong]

NoOutcome == Outcome("pending", "pending", <<>>, 0, FALSE)

(* investigate's catch-all: what was gathered is dropped. *)
FailedOutcome == Outcome("unknown", "unknown", <<>>, 0, FALSE)

Init ==
  /\ inc \in Incidents
  /\ pc = "deploy"
  /\ code = <<>>
  /\ config = <<>>
  /\ changes = <<>>
  /\ cursor = 0
  /\ match = Unmatched
  /\ smoking = FALSE
  /\ answers = <<>>
  /\ result = NoOutcome

(* An exception in either engine. *)
Raise ==
  /\ pc' = "done"
  /\ result' = FailedOutcome
  /\ UNCHANGED <<inc, code, config, changes, cursor, match, smoking, answers>>

----------------------------------------------------------------------------
(* The language model.  A call that raises, or an answer that cannot be parsed
   or is none of the three, reads as "uncertain". *)
Replies == {"likely", "unlikely", "uncertain", "failed"}

(* Mutant: whatever is not "likely" or "uncertain" speaks against the change. *)
FindingUnlikelyOnFailure(reply) == IF reply = "failed" THEN "unlikely" ELSE reply

Finding(reply) == IF reply = "failed" THEN "uncertain" ELSE reply

(* What an answer adds; likely: whether a "likely" counts here. *)
Assessment(signal, reply, likely) ==
  CASE Finding(reply) = "likely" /\ likely -> <<Item(signal, "STRONG")>>
    [] Finding(reply) = "unlikely"         -> <<Item(signal, "WEAK")>>
    [] OTHER                               -> <<>>

Asked(call, reply) == Append(answers, [call |-> call, reply |-> reply])

----------------------------------------------------------------------------
(* The code engine *)

InLookback(age, limit) == 0 <= age /\ age <= limit

InIncident(at) == 0 <= at /\ at <= INCIDENT_WINDOW_SECONDS

DeploysInWindow ==
  {i \in DOMAIN inc.deploys :
     InLookback(inc.deploys[i].age, DEPLOY_LOOKBACK_MINUTES)}

deploy_found == DeploysInWindow # {}

(* The newest, and among equals the one attached first. *)
RecentDeploy ==
  inc.deploys[CHOOSE i \in DeploysInWindow : \A j \in DeploysInWindow :
     \/ inc.deploys[i].age < inc.deploys[j].age
     \/ inc.deploys[i].age = inc.deploys[j].age /\ i <= j]

DeployEvidence(age) ==
  Item("deploy_in_window",
       IF age <= DEPLOY_STRONG_MINUTES THEN "STRONG" ELSE "MODERATE")

DetectDeploy ==
  /\ pc = "deploy"
  /\ code' = IF deploy_found THEN <<DeployEvidence(RecentDeploy.age)>> ELSE <<>>
  /\ pc' = "exception"
  /\ UNCHANGED <<inc, config, changes, cursor, match, smoking, answers, result>>

ErrorSpans ==
  {i \in DOMAIN inc.spans :
     inc.spans[i].own /\ inc.spans[i].error /\ InIncident(inc.spans[i].at)}

(* Events of error spans, as pairs <<span, event>>, in the order of the loops. *)
ErrorEvents(kind) ==
  UNION {{<<i, j>> : j \in {k \in DOMAIN inc.spans[i].events :
                              inc.spans[i].events[k] = kind}} : i \in ErrorSpans}

Before(p, q) == p[1] < q[1] \/ (p[1] = q[1] /\ p[2] < q[2])

exception_found == ErrorEvents("exception") # {}

(* The loop over events ends at the first exception; until then a malformed
   event raises. *)
ExtractionRaises ==
  \E p \in ErrorEvents("malformed") :
    \A q \in ErrorEvents("exception") : Before(p, q)

ExtractException ==
  /\ pc = "exception"
  /\ ~ExtractionRaises
  /\ code' = IF exception_found
               THEN Append(code, Item("exception_in_spans", "MODERATE")) ELSE code
  /\ pc' = IF deploy_found /\ RecentDeploy.diff /\ exception_found /\ inc.llm
             THEN "case_a" ELSE "match"
  /\ UNCHANGED <<inc, config, changes, cursor, match, smoking, answers, result>>

ExtractionFails ==
  /\ pc = "exception"
  /\ ExtractionRaises
  /\ Raise

(* Case A: did the deploy cause the exception? *)
AssessDeploy ==
  /\ pc = "case_a"
  /\ \E reply \in Replies :
       /\ answers' = Asked("case_a", reply)
       /\ code' = code \o Assessment("llm_causal_assessment", reply, TRUE)
  /\ pc' = "match"
  /\ UNCHANGED <<inc, config, changes, cursor, match, smoking, result>>

----------------------------------------------------------------------------
(* Case B: the stack traces against the code change *)

(* Mutant: a change of another deploy passes. *)
ChangeAcceptedUnlinked ==
  /\ inc.change.given
  /\ inc.change.own
  /\ InLookback(inc.change.age, DEPLOY_LOOKBACK_MINUTES)

(* The change is this service's, falls in the window and, where both say so,
   belongs to the recent deploy. *)
ChangeAccepted ==
  /\ inc.change.given
  /\ inc.change.own
  /\ InLookback(inc.change.age, DEPLOY_LOOKBACK_MINUTES)
  /\ deploy_found /\ inc.change.deploy # NoDeployId
       => inc.change.deploy = RecentDeploy.id

Near(a, b) == a - b <= EXACT_LINE_TOLERANCE /\ b - a <= EXACT_LINE_TOLERANCE

Level(frame, f) ==
  IF frame.file # f.file THEN "none"
  ELSE IF Near(frame.line, f.start) THEN "exact_line"
  ELSE IF frame.name = f.name THEN "function_match" ELSE "file_match"

Rank(level) ==
  CASE level = "none" -> -1
    [] level = "file_match" -> 0
    [] level = "function_match" -> 1
    [] level = "exact_line" -> 2

(* The best match among the frames of span i, and among equals the first in the
   order of the loops. *)
BestIn(i) ==
  LET functions == inc.change.functions
      frames == inc.spans[i].frames
      level(p) == Level(frames[p[1]], functions[p[2]])
      pairs == (DOMAIN frames) \X (DOMAIN functions)
      best == {p \in pairs : \A q \in pairs : Rank(level(q)) <= Rank(level(p))}
      first == CHOOSE p \in best : \A q \in best : p = q \/ Before(p, q)
  IN  IF pairs = {} \/ level(first) = "none" THEN Unmatched
      ELSE [level |-> level(first), code |-> functions[first[2]].code]

(* Mutant: a later match replaces an earlier one whatever its level. *)
BetterLast(found) == IF found.level = "none" THEN match ELSE found

Better(found) == IF Rank(found.level) > Rank(match.level) THEN found ELSE match

NextErrorSpan == {i \in ErrorSpans : i > cursor}

(* _find_stacktrace_match returns early on an exact line. *)
Searching ==
  /\ pc = "match"
  /\ ChangeAccepted
  /\ inc.code_access_enabled
  /\ match.level # "exact_line"
  /\ NextErrorSpan # {}

HasMalformedEvent(i) ==
  \E j \in DOMAIN inc.spans[i].events : inc.spans[i].events[j] = "malformed"

First(S) == CHOOSE i \in S : \A j \in S : i <= j

MatchSpan ==
  /\ Searching
  /\ LET i == First(NextErrorSpan)
     IN  /\ ~HasMalformedEvent(i)
         /\ match' = Better(BestIn(i))
         /\ cursor' = i
  /\ UNCHANGED <<inc, pc, code, config, changes, smoking, answers, result>>

MatchFails ==
  /\ Searching
  /\ HasMalformedEvent(First(NextErrorSpan))
  /\ Raise

StacktraceStrength(level) ==
  CASE level = "exact_line" -> "STRONG"
    [] level = "function_match" -> "MODERATE"
    [] OTHER -> "WEAK"

StacktraceEvidence ==
  IF match.level = "none" THEN code
  ELSE Append(code, Item("stacktrace_match", StacktraceStrength(match.level)))

EndMatch ==
  /\ pc = "match"
  /\ ~Searching
  /\ code' = StacktraceEvidence
  /\ pc' = IF match.level # "none" /\ match.code /\ inc.llm
             THEN "case_b" ELSE "end_code"
  /\ cursor' = 0
  /\ UNCHANGED <<inc, config, changes, match, smoking, answers, result>>

IsSmokingGun(reply) ==
  Finding(reply) = "likely" /\ match.level \in {"exact_line", "function_match"}

AssessChange ==
  /\ pc = "case_b"
  /\ \E reply \in Replies :
       /\ answers' = Asked("case_b", reply)
       /\ smoking' = IsSmokingGun(reply)
       /\ code' = code \o Assessment("llm_case_b_analysis", reply, IsSmokingGun(reply))
  /\ pc' = "end_code"
  /\ UNCHANGED <<inc, config, changes, cursor, match, result>>

EndCode ==
  /\ pc = "end_code"
  /\ code' = code
       \o (IF ErrorSpans # {} THEN <<Item("degraded_operation", "WEAK")>> ELSE <<>>)
       \o (IF deploy_found THEN <<>> ELSE <<Item("no_deploy_in_window", "WEAK")>>)
  /\ pc' = "changes"
  /\ UNCHANGED <<inc, config, changes, cursor, match, smoking, answers, result>>

----------------------------------------------------------------------------
(* The configuration engine *)

(* The loop over the flags comes before the one over the settings, and so their
   order in the list of changes, which the cap on calls to the model cuts. *)
Attached == inc.flags \o inc.configs

Kind(i) == IF i <= Len(inc.flags) THEN "flag" ELSE "config"

(* The window ends where the third grade would begin. *)
ChangeEvidence(kind, age) ==
  Item(IF kind = "flag" THEN "feature_flag_change" ELSE "config_change",
       IF age <= CONFIG_STRONG_MINUTES THEN "STRONG" ELSE "MODERATE")

DetectChange ==
  /\ pc = "changes"
  /\ cursor < Len(Attached)
  /\ LET i == cursor + 1
         found == InLookback(Attached[i], CONFIG_LOOKBACK_MINUTES)
     IN  /\ changes' = IF found THEN Append(changes, Kind(i)) ELSE changes
         /\ config' = IF found
              THEN Append(config, ChangeEvidence(Kind(i), Attached[i])) ELSE config
         /\ cursor' = i
  /\ UNCHANGED <<inc, pc, code, match, smoking, answers, result>>

EndDetect ==
  /\ pc = "changes"
  /\ cursor >= Len(Attached)
  /\ pc' = "assess"
  /\ cursor' = 0
  /\ UNCHANGED <<inc, code, config, changes, match, smoking, answers, result>>

(* _extract_error_pattern reads every event of every error span. *)
PatternRaises ==
  /\ cursor = 0
  /\ inc.llm
  /\ changes # <<>>
  /\ ErrorEvents("malformed") # {}

PatternFails ==
  /\ pc = "assess"
  /\ PatternRaises
  /\ Raise

(* Mutant: no cap on the calls. *)
ToAssessUncapped ==
  IF inc.llm THEN Len(changes) ELSE 0

ToAssess ==
  IF ~inc.llm THEN 0
  ELSE IF Len(changes) < MAX_CONFIG_CALLS
  THEN Len(changes) ELSE MAX_CONFIG_CALLS

AssessConfigChange ==
  /\ pc = "assess"
  /\ ~PatternRaises
  /\ cursor < ToAssess
  /\ \E reply \in Replies :
       /\ answers' = Asked(changes[cursor + 1], reply)
       /\ config' = config \o Assessment("llm_config_assessment", reply, TRUE)
  /\ cursor' = cursor + 1
  /\ UNCHANGED <<inc, pc, code, changes, match, smoking, result>>

LateEvidence ==
  (IF changes # <<>> /\ ErrorSpans # {}
     THEN <<Item("post_change_errors", "MODERATE")>> ELSE <<>>)
  \o (IF changes # <<>> /\ deploy_found
        THEN <<Item("simultaneous_change", "MODERATE")>> ELSE <<>>)

EndConfig ==
  /\ pc = "assess"
  /\ ~PatternRaises
  /\ cursor >= ToAssess
  /\ config' = config \o LateEvidence
  /\ pc' = "arbitrate"
  /\ UNCHANGED <<inc, code, changes, cursor, match, smoking, answers, result>>

----------------------------------------------------------------------------
(* _arbitrate *)

CodeFailure ==
  IF smoking \/ deploy_found THEN "code_regression"
  ELSE IF exception_found THEN "runtime_error" ELSE "application_error"

Kinds == {changes[i] : i \in DOMAIN changes}

ConfigFailure ==
  CASE "flag" \in Kinds -> "feature_flag_regression"
    [] "flag" \notin Kinds /\ "config" \in Kinds -> "config_regression"
    [] OTHER -> "application_error"

ConfigDomain ==
  IF Kinds # {} THEN "configuration" ELSE "application_code"

Strong(evidence) == CountOf(evidence, "STRONG")
Moderate(evidence) == CountOf(evidence, "MODERATE")

(* Strong evidence decides, then moderate evidence, then the code engine wins. *)
CodeWins ==
  \/ Strong(code) > Strong(config)
  \/ Strong(code) = Strong(config) /\ Moderate(code) >= Moderate(config)

(* candidate.priority_score, which nothing sets before the engine does, is zero;
   in hundredths. *)
PRIORITY_BOOST_STRONG == 20
PRIORITY_BOOST_MODERATE == 10
PRIORITY_OVERRIDE_SMOKING_GUN == 95

(* Mutant: the smoking gun adds to the boost. *)
PriorityAdded(winner) ==
  (IF smoking THEN PRIORITY_OVERRIDE_SMOKING_GUN ELSE 0)
    + (IF Strong(winner) >= 1 THEN PRIORITY_BOOST_STRONG ELSE 0)

Priority(winner) ==
  CASE smoking -> PRIORITY_OVERRIDE_SMOKING_GUN
    [] ~smoking /\ Strong(winner) >= 1 -> PRIORITY_BOOST_STRONG
    [] ~smoking /\ Strong(winner) = 0 /\ Moderate(winner) >= 2 -> PRIORITY_BOOST_MODERATE
    [] OTHER -> 0

BothStrong == Strong(code) >= 1 /\ Strong(config) >= 1

Marked(evidence) ==
  \E i \in DOMAIN evidence : evidence[i].signal = "simultaneous_change"

(* Mutant: the winner names the cause even when both engines have strong
   evidence. *)
CodeNamesCauseIfWinner == CodeWins

(* With strong evidence on both sides the code engine names the cause, whoever
   has won. *)
CodeNamesCause == BothStrong \/ CodeWins

IsMarked == BothStrong /\ Marked(config)

Arbitrate ==
  /\ pc = "arbitrate"
  /\ result' =
       Outcome(IF CodeNamesCause THEN "application_code" ELSE ConfigDomain,
               IF CodeNamesCause THEN CodeFailure ELSE ConfigFailure,
               IF CodeWins THEN code \o config ELSE config \o code,
               Priority(IF CodeWins THEN code ELSE config),
               IsMarked)
  /\ pc' = "done"
  /\ UNCHANGED <<inc, code, config, changes, cursor, match, smoking, answers>>

----------------------------------------------------------------------------
CodeEngine ==
  \/ DetectDeploy
  \/ ExtractException
  \/ ExtractionFails
  \/ AssessDeploy
  \/ MatchSpan
  \/ MatchFails
  \/ EndMatch
  \/ AssessChange
  \/ EndCode

ConfigEngine ==
  \/ DetectChange
  \/ EndDetect
  \/ PatternFails
  \/ AssessConfigChange
  \/ EndConfig

Returned == pc = "done" /\ UNCHANGED vars

Next == CodeEngine \/ ConfigEngine \/ Arbitrate \/ Returned

Spec == Init /\ [][Next]_vars

----------------------------------------------------------------------------
(* Properties *)

Strengths == {"STRONG", "MODERATE", "WEAK"}

Signals ==
  {"deploy_in_window", "no_deploy_in_window", "exception_in_spans",
   "stacktrace_match", "degraded_operation", "feature_flag_change",
   "config_change", "post_change_errors", "simultaneous_change",
   "llm_causal_assessment", "llm_case_b_analysis", "llm_config_assessment"}

EvidenceItem == [signal : Signals, strength : Strengths]

Stages == {"deploy", "exception", "case_a", "match", "case_b", "end_code",
           "changes", "assess", "arbitrate", "done"}

MatchLevel == {"none", "file_match", "function_match", "exact_line"}

Match == [level : MatchLevel, code : BOOLEAN]

Answer == [call : {"case_a", "case_b", "flag", "config"}, reply : Replies]

(* The answers the reasoning loop takes from the engine of a service (its
   Diagnoses). *)
Outcomes ==
  [domain : {"pending", "application_code", "configuration", "unknown"},
   failure_type : {"pending", "unknown", "code_regression", "runtime_error",
                   "application_error", "feature_flag_regression", "config_regression"},
   evidence : Seq(EvidenceItem),
   priority : {0, 10, 20, 95},
   both_strong : BOOLEAN]

(* The variables keep to their types; the answer is one that the reasoning loop
   takes from the engine of a service. *)
TypeOK ==
  /\ inc \in Incident
  /\ pc \in Stages
  /\ code \in Seq(EvidenceItem)
  /\ config \in Seq(EvidenceItem)
  /\ changes \in Seq({"flag", "config"})
  /\ cursor \in Nat
  /\ match \in Match
  /\ smoking \in BOOLEAN
  /\ answers \in Seq(Answer)
  /\ result \in Outcomes

Diagnosed == pc = "done" /\ result.failure_type # "unknown"

Items(signals) ==
  {i \in DOMAIN result.evidence : result.evidence[i].signal \in signals}

ModelSignals ==
  {"llm_causal_assessment", "llm_case_b_analysis", "llm_config_assessment"}

(* What the telemetry and the changes say without the model, in no order. *)
DeploySays ==
  LET ages == {inc.deploys[i].age : i \in DOMAIN inc.deploys} IN
  CASE \E a \in ages : a \in 0..15 -> {Item("deploy_in_window", "STRONG")}
    [] (\A a \in ages : a \notin 0..15) /\ (\E a \in ages : a \in 16..30)
         -> {Item("deploy_in_window", "MODERATE")}
    [] OTHER -> {Item("no_deploy_in_window", "WEAK")}

SpansSay ==
  IF ErrorSpans = {} THEN {}
  ELSE {Item("degraded_operation", "WEAK")}
       \cup (IF exception_found THEN {Item("exception_in_spans", "MODERATE")} ELSE {})

(* Every level at which some frame of some error span meets the change. *)
Levels ==
  UNION {{Level(frame, f) : frame \in {inc.spans[i].frames[k] : k \in DOMAIN inc.spans[i].frames},
                            f \in {inc.change.functions[k] : k \in DOMAIN inc.change.functions}}
         : i \in ErrorSpans}

LinkedChange ==
  /\ inc.change.given /\ inc.change.own /\ inc.code_access_enabled
  /\ inc.change.age \in 0..30
  /\ \/ inc.change.deploy = NoDeployId
     \/ ~deploy_found
     \/ inc.change.deploy = RecentDeploy.id

ChangeSays ==
  IF ~LinkedChange THEN {}
  ELSE CASE "exact_line" \in Levels -> {Item("stacktrace_match", "STRONG")}
         [] "exact_line" \notin Levels /\ "function_match" \in Levels
              -> {Item("stacktrace_match", "MODERATE")}
         [] Levels \in {{"file_match"}, {"file_match", "none"}}
              -> {Item("stacktrace_match", "WEAK")}
         [] OTHER -> {}

ConfigSays ==
  LET said(signal, ages) ==
        {Item(signal, IF age <= 5 THEN "STRONG" ELSE "MODERATE") :
           age \in {ages[i] : i \in DOMAIN ages} \cap 0..15}
      all == said("feature_flag_change", inc.flags) \cup said("config_change", inc.configs)
  IN  IF all = {} THEN {}
      ELSE all
           \cup (IF ErrorSpans # {} THEN {Item("post_change_errors", "MODERATE")} ELSE {})
           \cup (IF deploy_found THEN {Item("simultaneous_change", "MODERATE")} ELSE {})

(* What the telemetry and the changes say is in the evidence of every diagnosis,
   and nothing else but the model's assessments: no failing call, no early return
   of a search and no order of deploys or spans adds or costs anything. *)
EvidenceMatchesTelemetry ==
  Diagnosed =>
    {result.evidence[i] : i \in (DOMAIN result.evidence) \ Items(ModelSignals)}
      = DeploySays \cup SpansSay \cup ChangeSays \cup ConfigSays

Answers(S) == Cardinality({i \in DOMAIN answers : answers[i].reply \in S})

(* A call that failed, and an answer that was uncertain, prove nothing: there are
   as many assessments as definite answers, less a "likely" about a match
   that is too weak to stand on. *)
OnlyAnswersCount ==
  Diagnosed =>
    /\ Cardinality({i \in Items(ModelSignals) : result.evidence[i].strength = "WEAK"})
         = Answers({"unlikely"})
    /\ Cardinality({i \in Items(ModelSignals) : result.evidence[i].strength = "STRONG"})
         = Answers({"likely"})
           - Cardinality({i \in DOMAIN answers :
                answers[i] = [call |-> "case_b", reply |-> "likely"]
                  /\ match.level = "file_match"})

(* A smoking gun rests on three things: a stack frame that meets the change at
   its line or function, a change that belongs to this service and its recent
   deploy, and the model's word. It then decides, whatever the configuration
   engine has found. *)
SmokingGunDecides ==
  Diagnosed /\ smoking =>
    /\ LinkedChange
    /\ {"exact_line", "function_match"} \cap Levels # {}
    /\ \E i \in DOMAIN answers : answers[i] = [call |-> "case_b", reply |-> "likely"]
    /\ result.domain = "application_code"
    /\ result.failure_type = "code_regression"
    /\ result.priority = 95

CodeSignals == {"deploy_in_window", "stacktrace_match", "exception_in_spans",
                "llm_causal_assessment", "llm_case_b_analysis"}

(* The cause that is named follows from the evidence that is listed: strong
   evidence about the code is never attributed to the configuration, and a
   flag or configuration change is blamed when nothing strong and no stack trace
   points at the code. *)
DomainMatchesEvidence ==
  Diagnosed =>
    LET strongCode == \E i \in Items(CodeSignals) : result.evidence[i].strength = "STRONG"
        traced == Items({"stacktrace_match"}) # {}
        changed == Items({"feature_flag_change", "config_change"}) # {}
    IN  /\ strongCode /\ Items({"deploy_in_window"}) # {} /\ ~changed
             => result.failure_type = "code_regression"
        /\ result.domain = "configuration" => changed /\ ~strongCode
        /\ changed /\ ~strongCode /\ ~traced => result.domain = "configuration"

(* The model is asked about three changes at most, and about a configuration
   change only when it has been asked about every flag. *)
FlagsAreAssessedFirst ==
  LET asked(call) == Cardinality({i \in DOMAIN answers : answers[i].call = call}) IN
  /\ asked("flag") + asked("config") <= MAX_CONFIG_CALLS
  /\ asked("config") > 0 => asked("flag")
       = Cardinality({i \in DOMAIN inc.flags : inc.flags[i] \in 0..15})

=============================================================================
