---------------------------- MODULE MCServiceRCA ----------------------------
(***************************************************************************)
(* Incidents of one service around the edges of the windows: when it was   *)
(* deployed, which flags and settings changed, what its spans say and how  *)
(* they meet the code change under analysis.                               *)
(***************************************************************************)
EXTENDS ServiceRCA

MCDeploys == {"d1", "d2"}
MCFunctions == {"charge", "refund", "audit"}
MCFiles == {"pay.py", "log.py"}

DeployAt(id, age, diff) == [id |-> id, age |-> age, diff |-> diff]

DeployLists ==
  {<<>>, <<DeployAt("d1", 15, TRUE)>>, <<DeployAt("d1", 16, FALSE)>>,
   <<DeployAt("d1", 20, TRUE), DeployAt("d2", 10, TRUE)>>,
   <<DeployAt("d1", 30, TRUE), DeployAt("d2", -1, TRUE)>>,
   <<DeployAt("d1", 31, TRUE)>>}

At(file, name, line) == [file |-> file, name |-> name, line |-> line]

(* charge is changed in lines 20 to 30 of pay.py, refund in 40 to 50. *)
Far == At("pay.py", "audit", 90)
Named == At("pay.py", "refund", 60)
AtLine == At("pay.py", "audit", 23)
Elsewhere == At("log.py", "charge", 20)

SpanOf(own, error, at, events, frames) ==
  [own |-> own, error |-> error, at |-> at, events |-> events, frames |-> frames]

Failing(events, frames) == SpanOf(TRUE, TRUE, 0, events, frames)

SpanLists ==
  {<<>>,
   <<Failing(<<"other">>, <<Far>>)>>,
   <<Failing(<<"exception">>, <<Named, Far>>), Failing(<<"exception">>, <<Far>>)>>,
   <<SpanOf(TRUE, TRUE, 300, <<"other", "exception">>, <<Far>>),
     Failing(<<>>, <<Elsewhere, AtLine>>)>>,
   <<SpanOf(TRUE, TRUE, 301, <<"exception">>, <<AtLine>>),
     SpanOf(TRUE, FALSE, 10, <<"exception">>, <<AtLine>>),
     SpanOf(FALSE, TRUE, 10, <<"exception">>, <<AtLine>>)>>,
   <<Failing(<<"malformed", "exception">>, <<>>)>>,
   <<Failing(<<"exception">>, <<AtLine>>), Failing(<<"malformed">>, <<>>)>>,
   <<Failing(<<"exception">>, <<Named>>), Failing(<<"malformed">>, <<>>)>>}

Changed(name, start, known) ==
  [file |-> "pay.py", name |-> name, start |-> start, end |-> start + 10, code |-> known]

ChangeOf(given, own, age, deploy, functions) ==
  [given |-> given, own |-> own, age |-> age, deploy |-> deploy, functions |-> functions]

NoChange == ChangeOf(FALSE, FALSE, 0, NoDeployId, <<>>)

Both == <<Changed("charge", 20, TRUE), Changed("refund", 40, TRUE)>>

Changes ==
  {NoChange,
   ChangeOf(TRUE, TRUE, 10, NoDeployId, Both),
   ChangeOf(TRUE, TRUE, 30, "d1", <<Changed("charge", 20, FALSE), Changed("refund", 40, TRUE)>>),
   ChangeOf(TRUE, TRUE, 31, NoDeployId, Both),
   ChangeOf(TRUE, FALSE, 10, NoDeployId, Both)}

IncidentOf(deploys, flags, configs, spans, change, access, llm) ==
  [deploys |-> deploys, flags |-> flags, configs |-> configs, spans |-> spans,
   change |-> change, code_access_enabled |-> access, llm |-> llm]

(* The code engine against a flag, a setting, both or none; the configuration engine, without
   a code change, up to four changes; both at their strongest; a service whose
   code is not accessible. *)
MCIncidents ==
  {IncidentOf(d, f, g, s, c, TRUE, llm) :
     d \in DeployLists, f \in {<<>>, <<10>>}, g \in {<<>>, <<5>>}, s \in SpanLists,
     c \in Changes, llm \in BOOLEAN}
  \cup
  {IncidentOf(d, f, c, s, NoChange, TRUE, llm) :
     d \in {<<>>, <<DeployAt("d1", 16, TRUE)>>},
     f \in {<<>>, <<5>>, <<16, 6>>, <<-1>>}, c \in {<<>>, <<15>>, <<0>>, <<3, 16, 6>>},
     s \in {<<>>, <<Failing(<<"exception">>, <<>>)>>}, llm \in BOOLEAN}
  \cup
  {IncidentOf(<<DeployAt("d1", 10, FALSE)>>, <<2>>, <<4>>, <<Failing(<<"exception">>, <<frame>>)>>,
              ChangeOf(TRUE, TRUE, 10, "d1", Both), access, TRUE) :
     frame \in {Far, Named, AtLine}, access \in BOOLEAN}
  \cup
  {IncidentOf(<<>>, <<2, 3>>, <<4, 5>>, <<>>, NoChange, TRUE, TRUE)}
=============================================================================
