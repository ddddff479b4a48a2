--------------------------- MODULE MCSessionTable ---------------------------
(* Small instances of SessionTable, each with more keys than slots.        *)
EXTENDS SessionTable, TLC

CONSTANTS k1, k2, k3, k4, k5

\* Keys that collide and whose clusters wrap around the end of the array.
Homes3 == (k1 :> 2) @@ (k2 :> 2) @@ (k3 :> 0) @@ (k4 :> 1)
Homes4 == (k1 :> 3) @@ (k2 :> 3) @@ (k3 :> 0) @@ (k4 :> 1) @@ (k5 :> 2)

\* A tuple key (0), connection IDs of two lengths, and one too short (4).
Lens4 == (k1 :> 0) @@ (k2 :> 8) @@ (k3 :> 20) @@ (k4 :> 4) @@ (k5 :> 8)
NoLens == [k \in Keys |-> 0]
=============================================================================
