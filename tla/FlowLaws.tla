------------------------------ MODULE FlowLaws ------------------------------
(***************************************************************************)
(* What the operations on a flow table promise, as a module with a flow    *)
(* table relies on them: the invariant of a table, what an operation may   *)
(* do to the flows, and the laws that say which operation does what.       *)
(* FlowTableProofs proves the laws.                                        *)
(***************************************************************************)
EXTENDS FlowOps

-----------------------------------------------------------------------------
(* The invariant *)

Freed(t) == {t.free_slots[i] : i \in DOMAIN t.free_slots}

\* The free slots are stacked, each once.
Stacked(t) ==
  /\ \A p \in Slots : Used(t, p) <=> p \notin Freed(t)
  /\ \A i, j \in DOMAIN t.free_slots :
       t.free_slots[i] = t.free_slots[j] => i = j

\* The open descriptors are those of the flows, one each, and extra: the
\* socket flow_acquire has opened and not yet handed to qsr_flow_table_put.
Owned(t, extra) ==
  /\ t.fds = {t.flows[p].fd : p \in UsedSlots(t)} \cup extra
  /\ \A p \in UsedSlots(t) : t.flows[p].fd \notin extra
  /\ \A p, q \in UsedSlots(t) : t.flows[p].fd = t.flows[q].fd => p = q

Single(t) ==
  \A p, q \in UsedSlots(t) : t.flows[p].client = t.flows[q].client => p = q

\* Ids below next_id have been given out, each once; new ones start there.
Dated(t) ==
  /\ \A p \in UsedSlots(t) : t.flows[p].id < t.next_id
  /\ \A p, q \in UsedSlots(t) : t.flows[p].id = t.flows[q].id => p = q

\* The invariant of the flow table.
Sound(t, extra) ==
  /\ t \in Tables
  /\ Stacked(t)
  /\ t.count = Cardinality(UsedSlots(t))
  /\ Owned(t, extra)
  /\ Single(t)
  /\ Dated(t)

-----------------------------------------------------------------------------
(* What becomes of the flows *)

\* What an eviction may do to the flows of t.
Kept(t, u) ==
  /\ u.next_id = t.next_id
  /\ \A q \in UsedSlots(u) : q \in UsedSlots(t) /\ u.flows[q] = t.flows[q]

Stranger(t, c) == \A q \in UsedSlots(t) : t.flows[q].client # c

\* What opening a flow may do: the old flows that stay are as they were, and
\* there is at most one new one, with an id from next_id on.
Opened(t, u) ==
  /\ t.next_id <= u.next_id
  /\ \A q \in UsedSlots(u) :
       \/ q \in UsedSlots(t) /\ u.flows[q] = t.flows[q]
       \/ u.flows[q].id = t.next_id /\ t.next_id < u.next_id

\* The flow of client c, if there is one, leads to b and has just been used;
\* the others that are left are as they were.
Aimed(t, u, c, b, time) ==
  \A q \in UsedSlots(u) :
    IF u.flows[q].client = c
    THEN u.flows[q].backend = b /\ u.flows[q].last_seen = time
    ELSE q \in UsedSlots(t) /\ u.flows[q] = t.flows[q]

\* Every flow of t is there in u, as it was or refreshed.
Holds(t, u, time) ==
  \A q \in UsedSlots(t) :
    /\ q \in UsedSlots(u)
    /\ u.flows[q].client = t.flows[q].client /\ u.flows[q].id = t.flows[q].id
    /\ u.flows[q].last_seen \in {t.flows[q].last_seen, time}

-----------------------------------------------------------------------------
(* The laws *)

\* flow_find: the slot it gives is the client's, and without one there is none.
SlotLaw ==
  \A t, c : /\ SlotOf(t, c) # NoSlot => SlotOf(t, c) \in UsedSlots(t)
                                        /\ t.flows[SlotOf(t, c)].client = c
            /\ SlotOf(t, c) = NoSlot => Stranger(t, c)

\* The table that qsr_flow_table_init leaves.
EmptyLaw == Sound(Empty, {})

\* The last_seen and the backend of a flow are in no part of the invariant but
\* the type.
RefreshLaw ==
  \A t, f, u : \A p \in UsedSlots(t) :
    /\ Sound(t, {}) /\ f \in Flow
    /\ f.client = t.flows[p].client /\ f.fd = t.flows[p].fd /\ f.id = t.flows[p].id
    /\ u = [t EXCEPT !.flows = [t.flows EXCEPT ![p] = f]]
    => Sound(u, {})

\* flow_acquire: the client's flow leads to b, and at most one flow is new.
AcquireLaw ==
  \A t, c, b, registered, time, u :
    /\ Sound(t, {}) /\ time \in Nat /\ c \in Clients /\ b \in Backends
    /\ u = Acquired(t, c, b, registered, time)
    => /\ Sound(u, {})
       /\ Aimed(t, u, c, b, time)
       /\ \/ Opened(t, u)
          \/ SlotOf(t, c) # NoSlot /\ u = Reuse(t, SlotOf(t, c), b, time)

\* A sweep over all slots closes idle flows only.
ExpireLaw ==
  \A t, time, u : Sound(t, {}) /\ u = ExpireAll(t, time) =>
    /\ Sound(u, {}) /\ Kept(t, u)
    /\ \A q \in UsedSlots(t) : ~IdleAt(t, q, time) => q \in UsedSlots(u)

\* The eviction of a reload closes the flows of the doomed backends, no other.
EvictLaw ==
  \A t, doomed, u : Sound(t, {}) /\ u = EvictBackends(t, doomed) =>
    /\ Sound(u, {}) /\ Kept(t, u)
    /\ \A q \in UsedSlots(u) : u.flows[q].backend \notin doomed
    /\ \A q \in UsedSlots(t) : t.flows[q].backend \notin doomed =>
                                 q \in UsedSlots(u) /\ u.flows[q] = t.flows[q]

\* What every module with a flow table relies on.
FlowLaws ==
  SlotLaw /\ EmptyLaw /\ RefreshLaw /\ AcquireLaw /\ ExpireLaw /\ EvictLaw

-----------------------------------------------------------------------------
(* The laws with room for every client *)

\* The table and the descriptor limit are large enough for a flow per client.
Roomy ==
  /\ IsFiniteSet(Clients) /\ IsFiniteSet(Fds)
  /\ Cardinality(Clients) <= Capacity /\ Cardinality(Clients) <= Cardinality(Fds)

\* An acquire that need not evict leaves the flows where they are.
HoldLaw ==
  \A t, c, b, registered, time, u :
    /\ Sound(t, {}) /\ time \in Nat /\ c \in Clients /\ b \in Backends
    /\ u = Acquired(t, c, b, registered, time)
    /\ SlotOf(t, c) # NoSlot \/ (t.free_slots # <<>> /\ SocketFd(t) # NoFd)
    => Holds(t, u, time) /\ (SlotOf(t, c) # NoSlot => SlotOf(u, c) = SlotOf(t, c))

\* With room for all, a client without a flow finds a slot and a descriptor.
RoomLaw ==
  \A t, c : Roomy /\ Sound(t, {}) /\ c \in Clients /\ Stranger(t, c) =>
              t.free_slots # <<>> /\ SocketFd(t) # NoFd

\* One element counts as one: the tuples of a connection that never moved.
SingletonLaw == \A x : Cardinality({x}) = 1

\* What a module in which no flow is evicted relies on.
RoomLaws == HoldLaw /\ RoomLaw /\ SingletonLaw

-----------------------------------------------------------------------------
(* Numbers *)

\* f starts with t, and every step of it up to m is the step of that number.
Stepwise(f, t, step, m) == f[0] = t /\ \A n \in 1 .. m : f[n] = step[n][f[n - 1]]

\* A set of numbers has a least one.
LeastLaw == \A T : T \subseteq Nat /\ T # {} => \E x \in T : \A y \in T : x <= y

\* Induction up to N.
UpToLaw ==
  \A N, P : N \in Nat /\ 0 \in P /\ (\A n \in 1 .. N : n - 1 \in P => n \in P) =>
              \A n \in 0 .. N : n \in P

\* A walk of N steps has a function with a value after each.
StepsLaw ==
  \A T, t, N, step : t \in T /\ N \in Nat /\ step \in [1 .. N -> [T -> T]] =>
                       \E f \in [0 .. N -> T] : Stepwise(f, t, step, N)

\* More places than values: two places have the same one.
Into(f, n, m) == f \in [1 .. n -> 1 .. m]
PigeonLaw ==
  \A m, n, f : m \in Nat /\ n \in Nat /\ m < n /\ Into(f, n, m) =>
                 \E x, y \in 1 .. n : x # y /\ f[x] = f[y]

\* What the walks over tables, frames and entries rely on.
NumberLaws == LeastLaw /\ UpToLaw /\ StepsLaw /\ PigeonLaw
=============================================================================
