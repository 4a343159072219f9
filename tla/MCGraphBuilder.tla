--------------------------- MODULE MCGraphBuilder ---------------------------
(***************************************************************************)
(* Every sequence of three spans out of a pool that holds each way of      *)
(* naming a dependency, a callback, and two spans of one id.               *)
(***************************************************************************)
EXTENDS GraphBuilder, TLC

MCName == {"a", "b", "d", "q", "a-db", "b-db", "d-db", "q-db", "unknown"}
MCOwnDatabase ==
  [n \in MCName |-> CASE n = "a" -> "a-db" [] n = "b" -> "b-db" [] n = "d" -> "d-db"
                      [] OTHER -> "q-db"]

NoAttributes == [key \in {} |-> ""]

Pool ==
  {[id |-> "1", parent |-> "", service |-> "a", kind |-> "server", attributes |-> NoAttributes],
   [id |-> "2", parent |-> "1", service |-> "b", kind |-> "server", attributes |-> NoAttributes],
   [id |-> "3", parent |-> "2", service |-> "a", kind |-> "server", attributes |-> NoAttributes],
   [id |-> "1", parent |-> "", service |-> "b", kind |-> "server", attributes |-> NoAttributes],
   [id |-> "4", parent |-> "1", service |-> "a", kind |-> "client",
    attributes |-> ("db.name" :> "d")],
   [id |-> "5", parent |-> "1", service |-> "d", kind |-> "client",
    attributes |-> ("db.system" :> "b") @@ ("db.name" :> "d")],
   [id |-> "6", parent |-> "", service |-> "a", kind |-> "client",
    attributes |-> ("db.system" :> "b") @@ ("peer.service" :> "b")],
   [id |-> "7", parent |-> "", service |-> "a", kind |-> "client",
    attributes |-> ("peer.service" :> "b")],
   [id |-> "8", parent |-> "", service |-> "a", kind |-> "client",
    attributes |-> ("db.name" :> "") @@ ("peer.service" :> "b")],
   [id |-> "9", parent |-> "1", service |-> "a", kind |-> "producer",
    attributes |-> ("messaging.destination.name" :> "q")],
   [id |-> "10", parent |-> "9", service |-> "b", kind |-> "consumer",
    attributes |-> ("messaging.destination" :> "q")],
   [id |-> "11", parent |-> "", service |-> "b", kind |-> "client",
    attributes |-> ("messaging.system" :> "b") @@ ("messaging.destination" :> "q")]}

Distinct(t) == \A i, j \in DOMAIN t : t[i] = t[j] => i = j

MCTraces == {<<>>} \cup {t \in [1..3 -> Pool] : Distinct(t)}

(* A service calls another and is called back, in every order of the three spans. *)
Callback == {s \in Pool : s.id \in {"2", "3"} \/ (s.id = "1" /\ s.service = "a")}
MCCallbacks == {t \in [1..3 -> Callback] : Distinct(t)}

MCChanges == {<<[id |-> 1, service |-> "b"], [id |-> 2, service |-> "a"],
                [id |-> 3, service |-> "b"], [id |-> 4, service |-> "d"]>>}

MCSeedType == [n \in {"a", "b", "q"} |-> IF n = "q" THEN "queue" ELSE "service"]
MCSeedCalls == {<<"a", "b">>, <<"a", "q">>}
============================================================================
