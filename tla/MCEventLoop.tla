----------------------------- MODULE MCEventLoop -----------------------------
(***************************************************************************)
(* A small instance of EventLoop: two clients with a name each, one flow   *)
(* slot for them to displace each other from, and names and addresses that *)
(* collide and wrap around the buckets.                                    *)
(***************************************************************************)
EXTENDS EventLoop, TLC

CONSTANTS c1, c2, b1, b2

\* Names as they are written, and as they are stored.
Lower == [A |-> "a", a |-> "a", b |-> "b"]
SniBuckets == [a |-> 2, b |-> 2]
Asks == c1 :> "A" @@ c2 :> "b"
Hosts == [h1 |-> b1, h2 |-> b2, alias |-> b2]
BackendBuckets == b1 :> 2 @@ b2 :> 2

Defaults == [listen |-> ":443", idleTimeout |-> "60", maxSessions |-> "4096",
             cidEncoding |-> "off", logging |-> "off"]

\* Both backends; the second one only, under another listen address and with
\* encoded IDs; a name twice, which does not load, although its start does.
Both == <<Route("b", "h2", 1), Route("A", "h1", 2)>>
Second == <<Setting("listen", ":8443", TRUE), Route("a", "alias", 1),
            Setting("cidEncoding", "key", TRUE), Route("b", "h2", 0)>>
Twice == <<Route("a", "h1", 0), Route("A", "h2", 0)>>
Docs == {Both, Second, Twice}
Rewritten == {Twice}
=============================================================================
