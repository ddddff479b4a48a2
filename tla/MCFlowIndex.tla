----------------------------- MODULE MCFlowIndex -----------------------------
(* A small instance of FlowIndex, with more clients than slots.            *)
EXTENDS FlowIndex, TLC

CONSTANTS c1, c2, c3, c4, c5

\* Clients that collide and whose clusters wrap around the end of the array.
Hashes == (c1 :> 5) @@ (c2 :> 5) @@ (c3 :> 5) @@ (c4 :> 0) @@ (c5 :> 4)
=============================================================================
