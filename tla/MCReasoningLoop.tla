-------------------------- MODULE MCReasoningLoop --------------------------
(***************************************************************************)
(* A small topology for ReasoningLoop: web calls pay, pay calls db and     *)
(* card; in some incidents web also calls db, or card calls bank; ghost is *)
(* a metric source that is not in the graph.                               *)
(***************************************************************************)
EXTENDS ReasoningLoop

MCNode == {"web", "pay", "db", "card", "bank", "ghost"}

MCTypeOf ==
  [n \in MCNode |-> CASE n \in {"web", "pay"} -> "service"
                      [] n = "db"             -> "database"
                      [] OTHER                -> "external_dep"]

Quiet == [spans |-> FALSE, errors |-> FALSE, codes |-> {}, timeout |-> FALSE,
          metric |-> TRUE, change |-> FALSE]
Erring == [Quiet EXCEPT !.spans = TRUE, !.errors = TRUE, !.codes = {500}]
Unmetered == [Erring EXCEPT !.metric = FALSE]
Throttled == [Quiet EXCEPT !.spans = TRUE, !.codes = {429}]
Smooth == [Quiet EXCEPT !.spans = TRUE, !.codes = {200}]
Deployed == [Quiet EXCEPT !.change = TRUE]

Chain == {<<"web", "pay">>, <<"pay", "db">>, <<"pay", "card">>}
Bypass == Chain \cup {<<"web", "db">>}
Longer == Chain \cup {<<"card", "bank">>}
Cycle == Chain \cup {<<"db", "web">>}

Signals(w, p, d, c, b) ==
  [n \in MCNode |-> CASE n = "web"   -> w
                    [] n = "pay"   -> p
                    [] n = "db"    -> d
                    [] n = "card"  -> c
                    [] n = "bank"  -> b
                    [] n = "ghost" -> Quiet]

Analysed(calls, telemetry, deviating, stray) ==
  [nodes |-> MCNode \ {"ghost"}, calls |-> calls, telemetry |-> telemetry,
   deviating |-> deviating, stray |-> stray]

(* Hints that lead from the edge service and one leaf to the other leaf, which
   degrades silently or without metrics; hints from the service in the middle to
   more neighbours than fit a batch, the rest of which are hinted at again; hints
   that go on at the cap; and the incidents that end the loop early: nothing
   deviates, only an unknown source does, a cycle, a stray source. *)
MCIncidents ==
  {Analysed(Chain, Signals(Deployed, Erring, d, Throttled, Quiet), {"card", "ghost"}, FALSE) :
     d \in {Smooth, Unmetered}}
  \cup {Analysed(Bypass, Signals(Erring, Quiet, Unmetered, Throttled, Quiet), {"pay"}, FALSE),
        Analysed(Longer, Signals(Quiet, Erring, Quiet, Erring, Throttled), {"web"}, FALSE)}
  \cup {Analysed(calls, Signals(Quiet, Quiet, Quiet, Quiet, Quiet), deviating, stray) :
          calls \in {Chain, Cycle}, deviating \in {{}, {"ghost"}, {"web"}},
          stray \in BOOLEAN}

(* Nothing; the sum that may fall short of 0.65; more than the cap. *)
MCEvidence ==
  {[strong |-> s[1], moderate |-> s[2], weak |-> s[3]] :
     s \in {<<0, 0, 0>>, <<1, 2, 0>>, <<2, 2, 0>>}}
============================================================================
