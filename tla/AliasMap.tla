------------------------------ MODULE AliasMap ------------------------------
(***************************************************************************)
(* What the session table promises its callers, without slots, probing or  *)
(* cursors: a dictionary from keys to sessions, in which an alias changes  *)
(* only when it is stored, and disappears only when it has been idle for   *)
(* the timeout, when its backend is being removed, or when the table is    *)
(* full and it is the oldest entry.                                        *)
(***************************************************************************)
EXTENDS Integers, FiniteSets

CONSTANTS Keys, Backends, Owners, Capacity, IdleTimeout, EvictScanBudget, MaxTime

VARIABLES
  entries,  \* the stored sessions
  doomed,   \* the backends whose sessions are being evicted
  now

avars == <<entries, doomed, now>>

Init ==
  /\ entries = {}
  /\ doomed = {}
  /\ now = 0

\* A put: the key's entry is added or replaced, every other one is untouched.
\* A put without an owner leaves the owner of an existing entry alone.
Add(s) ==
  /\ \A e \in entries : e.key # s.key
  /\ Cardinality(entries) < Capacity
  /\ entries' = entries \cup {s}

Replace(e, s) ==
  /\ e.key = s.key
  /\ entries' = (entries \ {e})
       \cup {[s EXCEPT !.owner = IF s.owner # 0 THEN s.owner ELSE e.owner]}

Store(s) == Add(s) \/ \E e \in entries : Replace(e, s)

\* Room for a put into a full table: the oldest entry goes, or, in a table
\* larger than the eviction scan, the oldest of the slots scanned.
Evict(e) ==
  /\ Cardinality(entries) = Capacity
  /\ Capacity <= EvictScanBudget
       => \A f \in entries : e.last_seen <= f.last_seen
  /\ entries' = entries \ {e}

Expire(e) ==
  /\ now - e.last_seen >= IdleTimeout
  /\ entries' = entries \ {e}

\* The sweep's keepalive callback vouched for an idle entry.
Refresh(e) ==
  /\ now - e.last_seen >= IdleTimeout
  /\ entries' = (entries \ {e}) \cup {[e EXCEPT !.last_seen = now]}

Remove(e) ==
  /\ e.backend \in doomed
  /\ entries' = entries \ {e}

Change ==
  /\ \/ \E k \in Keys, b \in Backends, o \in Owners :
          Store([key |-> k, backend |-> b, last_seen |-> now, owner |-> o])
     \/ \E e \in entries : Evict(e) \/ Expire(e) \/ Refresh(e) \/ Remove(e)
  /\ UNCHANGED <<doomed, now>>

SetDoomed ==
  /\ doomed' \in SUBSET Backends
  /\ UNCHANGED <<entries, now>>

Tick ==
  /\ now < MaxTime
  /\ now' = now + 1
  /\ UNCHANGED <<entries, doomed>>

Next == Change \/ SetDoomed \/ Tick

Spec == Init /\ [][Next]_avars
=============================================================================
