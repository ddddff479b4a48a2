----------------------------- MODULE MCDataplane -----------------------------
(* Small instances of Dataplane: two names, two connections. *)
EXTENDS Dataplane, TLC

CONSTANTS x1, x2, n1, n2, c1, c2, c3, b1, b2

Asks == [x \in Conns |-> IF x = x1 THEN n1 ELSE n2]
Config(r1, r2, encoded) ==
  [routes |-> [n \in Names |-> IF n = n1 THEN r1 ELSE r2], encoded |-> encoded]

Plain == {Config(b1, b2, FALSE)}
\* The operator moves the first name to the other backend and takes the second
\* away, or turns encoded connection IDs on.
Changing == {Config(b1, b2, FALSE), Config(b2, Unused, FALSE), Config(b1, b2, TRUE)}

Usual == {[step |-> 1, closes |-> 2]}
\* Nothing closes and the clock goes one by one; or a connection closes, so that
\* another takes its tuple, and the clock moves by the timeout.
SlowAndFast == {[step |-> 1, closes |-> 0], [step |-> IdleTimeout, closes |-> 1]}

Symmetric == Permutations(Clients)
=============================================================================
