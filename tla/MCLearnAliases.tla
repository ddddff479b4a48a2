--------------------------- MODULE MCLearnAliases ---------------------------
(* A small instance of LearnAliases: four slots, under pressure at three. *)
EXTENDS LearnAliases

CONSTANTS k1, k2, k3, k4

\* k1 to k3 start in slot 0, so that deleting one moves the others.
Homes == [k \in Keys |-> IF k = k4 THEN 1 ELSE 0]
Lens == [k \in Keys |-> 8]
=============================================================================
