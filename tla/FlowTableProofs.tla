--------------------------- MODULE FlowTableProofs ---------------------------
(***************************************************************************)
(* For every capacity, descriptor limit and set of clients: what the runs  *)
(* of FlowTable check on three slots.  The invariant (Sound of FlowLaws)   *)
(* is stated of a table record, and each operator of FlowOps is shown to   *)
(* preserve it, so that an action of any module that composes operators is *)
(* proved by composing their lemmas.  What other modules with a flow table *)
(* rely on is collected at the end of the operators: the laws of FlowLaws. *)
(***************************************************************************)
EXTENDS FlowTable, FlowLaws, TLAPS, FiniteSetTheorems, WellFoundedInduction

-----------------------------------------------------------------------------
(* Induction on numbers, in the form the proofs about tables use it: a set of
   numbers has a least one, and a walk of a table, slot by slot or entry by
   entry, is a function with a value after each step. *)

LEMMA LeastNumber ==
  ASSUME NEW T, T \subseteq Nat, T # {}
  PROVE  \E x \in T : \A y \in T : x <= y
<1> DEFINE R == {ss \in Nat \X Nat : ss[1] < ss[2]}
<1>1. IsWellFoundedOn(R, Nat)
  BY NatLessThanWellFounded, Zenon DEF OpToRel
<1>2. PICK x \in T : \A y \in T : <<y, x>> \notin R
  BY <1>1, WFMin, Zenon
<1>3. ASSUME NEW y \in T PROVE x <= y
  <2>1. x \in Nat /\ y \in Nat /\ <<y, x>> \notin R
    BY <1>2, Zenon
  <2>2. ~(y < x)
    BY <2>1, Zenon
  <2> QED
    BY <2>1, <2>2
<1> QED
  BY <1>3, Zenon

\* Induction up to N, on a set: the least number outside P is not 0, and its
\* predecessor is in P.
LEMMA UpTo ==
  ASSUME NEW N \in Nat, NEW P, 0 \in P, \A n \in 1 .. N : n - 1 \in P => n \in P
  PROVE  \A n \in 0 .. N : n \in P
<1> DEFINE Bad == {m \in 0 .. N : m \notin P}
<1>1. SUFFICES ASSUME Bad # {} PROVE FALSE
  BY Zenon
<1>2. Bad \subseteq Nat
  OBVIOUS
<1>3. PICK m \in Bad : \A k \in Bad : m <= k
  <2> HIDE DEF Bad
  <2> QED
    BY <1>1, <1>2, LeastNumber, Zenon
<1>4. m \in 1 .. N /\ m - 1 \in 0 .. N /\ m - 1 \notin P
  BY <1>3
<1>5. m - 1 \in Bad
  BY <1>4, Zenon
<1> HIDE DEF Bad
<1> QED
  BY <1>3, <1>4, <1>5

LEMMA StepsExist ==
  ASSUME NEW T, NEW t \in T, NEW N \in Nat, NEW step \in [1 .. N -> [T -> T]]
  PROVE  \E f \in [0 .. N -> T] : Stepwise(f, t, step, N)
<1> DEFINE P == {m \in 0 .. N : \E f \in [0 .. m -> T] : Stepwise(f, t, step, m)}
<1>1. 0 \in P
  <2> DEFINE f == [n \in 0 .. 0 |-> t]
  <2>1. f \in [0 .. 0 -> T] /\ f[0] = t
    OBVIOUS
  <2> HIDE DEF f
  <2>2. Stepwise(f, t, step, 0)
    BY <2>1 DEF Stepwise
  <2> QED
    BY <2>1, <2>2
<1>2. ASSUME NEW m \in 1 .. N, m - 1 \in P PROVE m \in P
  <2>1. PICK f \in [0 .. m - 1 -> T] : Stepwise(f, t, step, m - 1)
    BY <1>2, Zenon
  <2> DEFINE last == step[m][f[m - 1]]
             g == [n \in 0 .. m |-> IF n = m THEN last ELSE f[n]]
  <2>2. last \in T
    OBVIOUS
  <2> HIDE DEF last
  <2>3. g \in [0 .. m -> T]
    BY <2>2
  <2>4. g[m] = last /\ \A n \in 0 .. m - 1 : g[n] = f[n]
    OBVIOUS
  <2> HIDE DEF g
  <2>5. Stepwise(g, t, step, m)
    BY <2>1, <2>4 DEF Stepwise, last
  <2> QED
    BY <2>3, <2>5
<1> HIDE DEF P
<1>3. \A m \in 1 .. N : m - 1 \in P => m \in P
  BY <1>2, Zenon
<1>4. N \in Nat
  BY Zenon
<1>5. \A n \in 0 .. N : n \in P
  BY ONLY <1>1, <1>3, <1>4, UpTo, Zenon
<1> QED
  BY <1>5 DEF P

-----------------------------------------------------------------------------
(* Least elements: the victim of an eviction and the descriptor of socket *)

LEMMA DistType ==
  ASSUME NEW h \in Slots, NEW p \in Slots
  PROVE  Dist(h, p) \in Nat /\ Dist(h, h) = 0
BY CapacityAssumption DEF Dist, Slots

\* A window with a flow has a victim.
LEMMA VictimExists ==
  ASSUME NEW t \in Tables, EvictWindow(t) # {}
  PROVE  \E v \in Slots : IsVictim(t, v)
<1> DEFINE W == EvictWindow(t)
           seen(p) == t.flows[p].last_seen
           T == {seen(p) : p \in W}
<1>1. W \subseteq Slots
  BY Zenon DEF EvictWindow, UsedSlots
<1>2. ASSUME NEW p \in W PROVE seen(p) \in Nat
  <2>1. t.flows[p] \in Flow
    BY <1>1, Zenon DEF EvictWindow, UsedSlots, Used, Tables
  <2> QED
    BY <2>1, Zenon DEF Flow
<1>3. PICK m \in T : \A y \in T : m <= y
  <2>1. T \subseteq Nat /\ T # {}
    BY <1>2, Zenon
  <2> QED
    BY <2>1, LeastNumber, Zenon
<1> DEFINE O == {p \in W : seen(p) = m}
           D == {Dist(t.evict_cursor, p) : p \in O}
<1>4. t.evict_cursor \in Slots
  BY Zenon DEF Tables
<1>5. PICK d \in D : \A y \in D : d <= y
  <2>1. O # {}
    BY <1>3, Zenon
  <2>2. D # {}
    BY <2>1, Zenon
  <2>3. ASSUME NEW p \in O PROVE Dist(t.evict_cursor, p) \in Nat
    BY <1>1, <1>4, DistType, Zenon
  <2>4. D \subseteq Nat
    BY <2>3, Zenon
  <2> QED
    BY <2>2, <2>4, LeastNumber, Zenon
<1>6. PICK v \in O : d = Dist(t.evict_cursor, v)
  BY <1>5, Zenon
<1>7. ASSUME NEW p \in W
      PROVE  \/ seen(v) < seen(p)
             \/ seen(v) = seen(p)
                  /\ Dist(t.evict_cursor, v) <= Dist(t.evict_cursor, p)
  <2>1. m \in Nat /\ seen(p) \in Nat /\ m <= seen(p)
    BY <1>2, <1>3, Zenon
  <2>2. seen(v) = m
    BY <1>6, Zenon
  <2>3. CASE seen(p) = m
    BY <2>2, <2>3, <1>5, <1>6, Zenon
  <2>4. CASE seen(p) # m
    BY <2>1, <2>2, <2>4
  <2> QED
    BY <2>3, <2>4, Zenon
<1> QED
  BY <1>1, <1>7, Zenon DEF IsVictim

LEMMA SocketFdFree ==
  ASSUME NEW t, SocketFd(t) # NoFd
  PROVE  SocketFd(t) \in Fds /\ SocketFd(t) \notin t.fds
<1> DEFINE F == Fds \ t.fds
<1>1. F # {}
  BY Zenon DEF SocketFd
<1>2. F \subseteq Nat
  BY FdsAssumption, Zenon
<1>3. \E x \in F : \A y \in F : x <= y
  BY <1>1, <1>2, LeastNumber, Zenon
<1>4. SocketFd(t) = CHOOSE x \in F : \A y \in F : x <= y
  BY Zenon DEF SocketFd
<1>5. SocketFd(t) \in F
  BY <1>3, <1>4, Zenon
<1> QED
  BY <1>5, Zenon

-----------------------------------------------------------------------------
(* Each operator preserves the invariant *)

LEMMA SlotsFinite ==
  ASSUME NEW t
  PROVE  /\ IsFiniteSet(Slots) /\ Cardinality(Slots) = Capacity
         /\ IsFiniteSet(UsedSlots(t)) /\ UsedSlots(t) \subseteq Slots
<1>1. IsFiniteSet(Slots) /\ Cardinality(Slots) = Capacity
  BY FS_Interval, CapacityAssumption DEF Slots
<1>2. UsedSlots(t) \subseteq Slots
  BY Zenon DEF UsedSlots
<1> QED
  BY <1>1, <1>2, FS_Subset, Zenon

\* A table with one field replaced by a value of its type is a table.
LEMMA FieldTypes ==
  ASSUME NEW t \in Tables
  PROVE  /\ \A x \in [Slots -> Flow \cup {Unused}] :
              [t EXCEPT !.flows = x] \in Tables
         /\ \A x \in Seq(Slots) : [t EXCEPT !.free_slots = x] \in Tables
         /\ \A x \in Int : [t EXCEPT !.count = x] \in Tables
         /\ \A x \in Nat : [t EXCEPT !.next_id = x] \in Tables
         /\ \A x \in Slots : [t EXCEPT !.expire_cursor = x] \in Tables
         /\ \A x \in Slots : [t EXCEPT !.evict_cursor = x] \in Tables
         /\ \A x \in SUBSET Fds : [t EXCEPT !.fds = x] \in Tables
<1>1. ASSUME NEW x \in [Slots -> Flow \cup {Unused}]
      PROVE  [t EXCEPT !.flows = x] \in Tables
  BY Zenon DEF Tables
<1>2. ASSUME NEW x \in Seq(Slots) PROVE [t EXCEPT !.free_slots = x] \in Tables
  BY Zenon DEF Tables
<1>3. ASSUME NEW x \in Int PROVE [t EXCEPT !.count = x] \in Tables
  BY Zenon DEF Tables
<1>4. ASSUME NEW x \in Nat PROVE [t EXCEPT !.next_id = x] \in Tables
  BY Zenon DEF Tables
<1>5. ASSUME NEW x \in Slots PROVE [t EXCEPT !.expire_cursor = x] \in Tables
  BY Zenon DEF Tables
<1>6. ASSUME NEW x \in Slots PROVE [t EXCEPT !.evict_cursor = x] \in Tables
  BY Zenon DEF Tables
<1>7. ASSUME NEW x \in SUBSET Fds PROVE [t EXCEPT !.fds = x] \in Tables
  BY Zenon DEF Tables
<1> QED
  BY <1>1, <1>2, <1>3, <1>4, <1>5, <1>6, <1>7, Zenon

\* The last_seen and backend of a flow are in no part of the invariant but
\* the type.
LEMMA RemoveSound ==
  ASSUME NEW t, NEW extra, Sound(t, extra), NEW p \in UsedSlots(t)
  PROVE  /\ Sound(RemoveSlot(t, p), extra)
         /\ UsedSlots(RemoveSlot(t, p)) = UsedSlots(t) \ {p}
         /\ \A q \in Slots \ {p} : RemoveSlot(t, p).flows[q] = t.flows[q]
         /\ RemoveSlot(t, p).next_id = t.next_id
         /\ RemoveSlot(t, p).free_slots = Append(t.free_slots, p)
<1> DEFINE u == RemoveSlot(t, p)
<1>1. t \in Tables /\ p \in Slots
  BY Zenon DEF Sound, UsedSlots
<1>2. /\ u.flows = [t.flows EXCEPT ![p] = Unused]
      /\ u.free_slots = Append(t.free_slots, p)
      /\ u.count = t.count - 1
      /\ u.fds = t.fds \ {t.flows[p].fd}
      /\ u.next_id = t.next_id
  BY <1>1, Zenon DEF RemoveSlot, Tables
<1>3. u \in Tables
  <2> DEFINE v1 == [t EXCEPT !.flows = [t.flows EXCEPT ![p] = Unused]]
             v2 == [v1 EXCEPT !.free_slots = Append(t.free_slots, p)]
             v3 == [v2 EXCEPT !.count = t.count - 1]
             v4 == [v3 EXCEPT !.fds = t.fds \ {t.flows[p].fd}]
  <2>1. u = v4
    BY <1>1, Zenon DEF RemoveSlot, Tables
  <2>2. /\ [t.flows EXCEPT ![p] = Unused] \in [Slots -> Flow \cup {Unused}]
        /\ Append(t.free_slots, p) \in Seq(Slots)
        /\ t.count - 1 \in Int
        /\ t.fds \ {t.flows[p].fd} \in SUBSET Fds
    BY <1>1 DEF Tables
  <2> HIDE DEF u
  <2>3. v1 \in Tables
    BY <1>1, <2>2, FieldTypes, Zenon
  <2> HIDE DEF v1
  <2>4. v2 \in Tables
    BY <2>3, <2>2, FieldTypes, Zenon
  <2> HIDE DEF v2
  <2>5. v3 \in Tables
    BY <2>4, <2>2, FieldTypes, Zenon
  <2> HIDE DEF v3
  <2> QED
    BY <2>1, <2>5, <2>2, FieldTypes, Zenon
<1>4. \A q \in Slots : u.flows[q] = IF q = p THEN Unused ELSE t.flows[q]
  BY <1>1, <1>2, Zenon DEF Tables
<1>5. UsedSlots(u) = UsedSlots(t) \ {p}
  BY <1>4, Zenon DEF UsedSlots, Used
<1> HIDE DEF u
<1>6. Stacked(u)
  <2> DEFINE f == t.free_slots
             g == u.free_slots
  <2>1. f \in Seq(Slots) /\ g = Append(f, p)
    BY <1>1, <1>2, Zenon DEF Tables
  <2>2. /\ Len(g) = Len(f) + 1 /\ Len(f) \in Nat
        /\ DOMAIN g = 1 .. Len(g) /\ DOMAIN f = 1 .. Len(f)
        /\ \A i \in 1 .. Len(f) : g[i] = f[i]
        /\ g[Len(f) + 1] = p
    BY <2>1, <1>1
  <2>3. Freed(u) = Freed(t) \cup {p}
    <3> HIDE DEF f, g
    <3>1. {g[i] : i \in DOMAIN g} = {f[i] : i \in DOMAIN f} \cup {p}
      BY <2>2
    <3> QED
      BY <3>1, Zenon DEF Freed, f, g
  <2>4. p \notin Freed(t)
    BY <1>1, Zenon DEF Sound, Stacked, UsedSlots
  <2>5. \A i \in DOMAIN f : f[i] # p
    BY <2>4, Zenon DEF Freed
  <2>6. \A i, j \in DOMAIN f : f[i] = f[j] => i = j
    BY Zenon DEF Sound, Stacked
  <2>7. \A i, j \in DOMAIN g : g[i] = g[j] => i = j
    <3> HIDE DEF f, g
    <3> QED
      BY <2>2, <2>5, <2>6
  <2>8. \A q \in Slots : Used(u, q) <=> q \notin Freed(u)
    BY <2>3, <1>4, <1>1, Zenon DEF Sound, Stacked, Used
  <2> QED
    BY <2>7, <2>8, Zenon DEF Stacked
<1>7. u.count = Cardinality(UsedSlots(u))
  BY <1>2, <1>5, SlotsFinite, FS_RemoveElement, Zenon DEF Sound
<1>8. Owned(u, extra)
  BY <1>2, <1>4, <1>5, <1>1 DEF Sound, Owned, UsedSlots
<1>9. Single(u) /\ Dated(u)
  BY <1>2, <1>4, <1>5, <1>1, Zenon DEF Sound, Single, Dated, UsedSlots
<1> QED
  BY <1>2, <1>3, <1>4, <1>5, <1>6, <1>7, <1>8, <1>9, Zenon DEF Sound, u

\* The cursors are in no part of the invariant but the type.
LEMMA CursorsSound ==
  ASSUME NEW t, NEW extra, Sound(t, extra), NEW u \in Tables,
         u.flows = t.flows, u.free_slots = t.free_slots, u.count = t.count,
         u.fds = t.fds, u.next_id = t.next_id
  PROVE  Sound(u, extra) /\ UsedSlots(u) = UsedSlots(t)
<1>1. UsedSlots(u) = UsedSlots(t)
  BY Zenon DEF UsedSlots, Used
<1>2. Stacked(u)
  BY DEF Sound, Stacked, Used, Freed
<1>3. Owned(u, extra) /\ Single(u) /\ Dated(u)
  BY <1>1 DEF Sound, Owned, Single, Dated
<1> QED
  BY <1>1, <1>2, <1>3, Zenon DEF Sound

LEMMA EvictSound ==
  ASSUME NEW t, NEW extra, Sound(t, extra)
  PROVE  /\ Sound(EvictOldest(t), extra)
         /\ Kept(t, EvictOldest(t))
         /\ Evicts(t) => EvictOldest(t).free_slots # <<>>
         /\ \E v \in Slots : UsedSlots(t) \subseteq UsedSlots(EvictOldest(t)) \cup {v}
         /\ ~Evicts(t) => UsedSlots(EvictOldest(t)) = UsedSlots(t)
<1> DEFINE x == (t.evict_cursor + EvictScans) % Capacity
           s == [t EXCEPT !.evict_cursor = x]
           v == CHOOSE w \in Slots : IsVictim(t, w)
<1>1. t \in Tables
  BY Zenon DEF Sound
<1>2. x \in Slots
  BY <1>1, CapacityAssumption, LimitAssumption DEF Tables, EvictScans, Slots
<1> HIDE DEF x
<1>3. s \in Tables
  BY <1>1, <1>2, FieldTypes, Zenon
<1>4. /\ s.flows = t.flows /\ s.free_slots = t.free_slots /\ s.count = t.count
      /\ s.fds = t.fds /\ s.next_id = t.next_id
  BY <1>1, Zenon DEF Tables
<1> HIDE DEF s
<1>5. Sound(s, extra) /\ UsedSlots(s) = UsedSlots(t)
  BY <1>3, <1>4, CursorsSound, Zenon
<1>6. 0 \in Slots
  BY CapacityAssumption DEF Slots
<1>7. CASE t.count = 0
  <2>1. EvictOldest(t) = t
    BY <1>7, Zenon DEF EvictOldest
  <2> QED
    BY <2>1, <1>6, <1>7, Zenon DEF Kept, Evicts
<1>8. CASE t.count # 0 /\ EvictWindow(t) = {}
  <2>1. EvictOldest(t) = s
    BY <1>8, Zenon DEF EvictOldest, s, x
  <2> QED
    BY <2>1, <1>4, <1>5, <1>6, <1>8, Zenon DEF Kept, Evicts
<1>9. CASE t.count # 0 /\ EvictWindow(t) # {}
  <2> DEFINE u == RemoveSlot(s, v)
  <2>1. EvictOldest(t) = u
    BY <1>9, Zenon DEF EvictOldest, s, x
  <2>2. v \in Slots /\ IsVictim(t, v)
    BY <1>1, <1>9, VictimExists, Zenon
  <2> HIDE DEF v
  <2>3. v \in UsedSlots(s)
    BY <2>2, <1>5, Zenon DEF IsVictim, EvictWindow
  <2>4. /\ Sound(u, extra)
        /\ UsedSlots(u) = UsedSlots(s) \ {v}
        /\ \A q \in Slots \ {v} : u.flows[q] = s.flows[q]
        /\ u.next_id = s.next_id
        /\ u.free_slots = Append(s.free_slots, v)
    BY <1>5, <2>3, RemoveSound, Zenon
  <2>5. u.free_slots # <<>>
    <3> DEFINE free == s.free_slots
    <3>1. free \in Seq(Slots)
      BY <1>3, Zenon DEF Tables
    <3> HIDE DEF free
    <3>2. Append(free, v) # <<>>
      <4>1. v \in Slots
        BY <2>2, Zenon
      <4>2. Len(free) \in Nat /\ Len(Append(free, v)) = Len(free) + 1
        BY ONLY <3>1, <4>1
      <4>3. Len(<<>>) = 0
        BY Zenon
      <4> QED
        BY ONLY <4>2, <4>3
    <3> HIDE DEF u
    <3>3. u.free_slots = Append(free, v)
      BY <2>4, Zenon DEF free
    <3> QED
      BY ONLY <3>2, <3>3, Zenon
  <2> HIDE DEF u
  <2>6. Kept(t, u)
    BY <2>4, <1>4, <1>5, Zenon DEF Kept, UsedSlots
  <2> QED
    BY <2>1, <2>2, <2>4, <2>5, <2>6, <1>5, <1>9, Zenon DEF Evicts
<1> QED
  BY <1>7, <1>8, <1>9, Zenon

\* A table without a free slot has a flow to evict: put never fails.
LEMMA FullEvicts ==
  ASSUME NEW t, NEW extra, Sound(t, extra), t.free_slots = <<>>
  PROVE  Evicts(t)
<1>1. t \in Tables /\ t.evict_cursor \in Slots
  BY Zenon DEF Sound, Tables
<1>2. Freed(t) = {}
  BY DEF Freed
<1>3. UsedSlots(t) = Slots
  BY <1>2, Zenon DEF Sound, Stacked, UsedSlots
<1>4. t.count # 0
  BY <1>3, SlotsFinite, CapacityAssumption, Zenon DEF Sound
<1>5. EvictScans > 0
  BY CapacityAssumption, LimitAssumption DEF EvictScans
<1>6. t.evict_cursor \in EvictWindow(t)
  BY <1>1, <1>3, <1>5, DistType, Zenon DEF EvictWindow
<1> QED
  BY <1>4, <1>6, Zenon DEF Evicts

\* Popping a sequence without repetitions removes its last element.
LEMMA PopStack ==
  ASSUME NEW f \in Seq(Slots), f # <<>>,
         \A i, j \in DOMAIN f : f[i] = f[j] => i = j
  PROVE  LET g == SubSeq(f, 1, Len(f) - 1)
         IN /\ g \in Seq(Slots)
            /\ \A i, j \in DOMAIN g : g[i] = g[j] => i = j
            /\ {g[i] : i \in DOMAIN g} = {f[i] : i \in DOMAIN f} \ {f[Len(f)]}
<1> DEFINE g == SubSeq(f, 1, Len(f) - 1)
           n == Len(f)
<1>1. n \in Nat /\ n > 0 /\ DOMAIN f = 1 .. n
  OBVIOUS
<1>2. /\ g \in Seq(Slots) /\ DOMAIN g = 1 .. n - 1
      /\ \A i \in 1 .. n - 1 : g[i] = f[i]
  BY <1>1
<1> HIDE DEF g, n
<1>3. \A i, j \in DOMAIN g : g[i] = g[j] => i = j
  BY <1>1, <1>2
<1>4. {g[i] : i \in DOMAIN g} = {f[i] : i \in DOMAIN f} \ {f[n]}
  BY <1>1, <1>2
<1> QED
  BY <1>2, <1>3, <1>4, Zenon DEF g, n

\* Popping slot p, the top of the stack, and putting flow f there.
Filled(m, p, f) ==
  [m EXCEPT !.flows[p] = f,
            !.free_slots = SubSeq(@, 1, Len(m.free_slots) - 1),
            !.count = @ + 1,
            !.next_id = @ + 1]

LEMMA InsertSound ==
  ASSUME NEW m, NEW c \in Clients, NEW b \in Backends, NEW fd \in Fds,
         NEW time \in Nat, Sound(m, {fd}), m.free_slots # <<>>, Stranger(m, c),
         NEW top, top = Len(m.free_slots),
         NEW p, p = m.free_slots[top],
         NEW f, f = [client |-> c, backend |-> b, fd |-> fd,
                     id |-> m.next_id, last_seen |-> time],
         NEW u, u = Filled(m, p, f)
  PROVE  Sound(u, {}) /\ Opened(m, u) /\ Aimed(m, u, c, b, time)
<1> DEFINE g == SubSeq(m.free_slots, 1, top - 1)
<1>1. m \in Tables
  BY Zenon DEF Sound
<1>2. /\ m.free_slots \in Seq(Slots) /\ top \in Nat /\ top > 0
      /\ DOMAIN m.free_slots = 1 .. top
      /\ p \in Slots
  BY <1>1 DEF Tables
<1>3. f \in Flow /\ f # Unused
  BY <1>1, UnusedAssumption DEF Flow, Tables
<1>4. /\ u.flows = [m.flows EXCEPT ![p] = f]
      /\ u.free_slots = g
      /\ u.count = m.count + 1
      /\ u.next_id = m.next_id + 1
      /\ u.fds = m.fds
  BY <1>1, Zenon DEF Tables, Filled
<1>5. g \in Seq(Slots)
  BY <1>2
<1>6. u \in Tables
  <2> DEFINE v1 == [m EXCEPT !.flows = [m.flows EXCEPT ![p] = f]]
             v2 == [v1 EXCEPT !.free_slots = g]
             v3 == [v2 EXCEPT !.count = m.count + 1]
             v4 == [v3 EXCEPT !.next_id = m.next_id + 1]
  <2>1. u = v4
    BY <1>1, Zenon DEF Tables, Filled
  <2>2. /\ [m.flows EXCEPT ![p] = f] \in [Slots -> Flow \cup {Unused}]
        /\ m.count + 1 \in Int
        /\ m.next_id + 1 \in Nat
    BY <1>1, <1>2, <1>3 DEF Tables
  <2> HIDE DEF g
  <2>3. v1 \in Tables
    BY <1>1, <2>2, FieldTypes, Zenon
  <2> HIDE DEF v1
  <2>4. v2 \in Tables
    BY <2>3, <1>5, FieldTypes, Zenon
  <2> HIDE DEF v2
  <2>5. v3 \in Tables
    BY <2>4, <2>2, FieldTypes, Zenon
  <2> HIDE DEF v3
  <2>6. v4 \in Tables
    BY <2>5, <2>2, FieldTypes, Zenon
  <2> HIDE DEF v4
  <2> QED
    BY <2>1, <2>6, Zenon
<1> HIDE DEF g
<1>7. \A q \in Slots : u.flows[q] = IF q = p THEN f ELSE m.flows[q]
  BY <1>1, <1>2, <1>4, Zenon DEF Tables
<1>8. p \in Freed(m)
  BY <1>2 DEF Freed
<1>9. p \notin UsedSlots(m)
  BY <1>2, <1>8, Zenon DEF Sound, Stacked, UsedSlots
<1>10. UsedSlots(u) = UsedSlots(m) \cup {p}
  BY <1>2, <1>3, <1>7, Zenon DEF UsedSlots, Used
<1>11. Stacked(u)
  <2>1. \A i, j \in DOMAIN m.free_slots : m.free_slots[i] = m.free_slots[j] => i = j
    BY Zenon DEF Sound, Stacked
  <2>2. /\ \A i, j \in DOMAIN g : g[i] = g[j] => i = j
        /\ {g[i] : i \in DOMAIN g} = Freed(m) \ {p}
    <3> DEFINE s == m.free_slots
               r == SubSeq(s, 1, Len(s) - 1)
    <3>1. s \in Seq(Slots) /\ s # <<>>
      BY <1>2, Zenon
    <3>2. \A i, j \in DOMAIN s : s[i] = s[j] => i = j
      BY <2>1, Zenon
    <3>3. g = r /\ p = s[Len(s)]
      BY Zenon DEF g
    <3>4. Freed(m) = {s[i] : i \in DOMAIN s}
      BY Zenon DEF Freed
    <3> HIDE DEF s
    <3>5. /\ \A i, j \in DOMAIN r : r[i] = r[j] => i = j
          /\ {r[i] : i \in DOMAIN r} = {s[i] : i \in DOMAIN s} \ {s[Len(s)]}
      BY ONLY <3>1, <3>2, PopStack, Zenon
    <3> HIDE DEF r
    <3> QED
      BY ONLY <3>3, <3>4, <3>5, Zenon
  <2>3. Freed(u) = Freed(m) \ {p}
    <3>1. u.free_slots = g
      BY <1>4, Zenon
    <3>2. Freed(u) = {g[i] : i \in DOMAIN g}
      BY ONLY <3>1, Zenon DEF Freed
    <3> QED
      BY <3>2, <2>2, Zenon
  <2>4. \A q \in Slots : Used(u, q) <=> q \notin Freed(u)
    BY <2>3, <1>3, <1>7, Zenon DEF Sound, Stacked, Used
  <2> QED
    BY <2>2, <2>4, <1>4 DEF Stacked
<1>12. u.count = Cardinality(UsedSlots(u))
  BY <1>4, <1>9, <1>10, SlotsFinite, FS_AddElement DEF Sound
<1>13. f.fd = fd /\ f.client = c /\ f.id = m.next_id
  BY Zenon
<1>14. Owned(u, {})
  <2>1. \A q \in UsedSlots(m) : u.flows[q] = m.flows[q] /\ m.flows[q].fd # fd
    BY <1>7, <1>9, Zenon DEF Sound, Owned, UsedSlots
  <2>2. u.flows[p].fd = fd
    BY <1>2, <1>7, <1>13, Zenon
  <2>3. m.fds = {m.flows[q].fd : q \in UsedSlots(m)} \cup {fd}
    BY Zenon DEF Sound, Owned
  <2>4. \A q, r \in UsedSlots(m) : m.flows[q].fd = m.flows[r].fd => q = r
    BY Zenon DEF Sound, Owned
  <2>5. u.fds = {u.flows[q].fd : q \in UsedSlots(u)}
    BY <2>1, <2>2, <2>3, <1>4, <1>10
  <2>6. \A q, r \in UsedSlots(u) : u.flows[q].fd = u.flows[r].fd => q = r
    BY <2>1, <2>2, <2>4, <1>10
  <2> QED
    BY <2>5, <2>6, Zenon DEF Owned
<1>15. Single(u)
  <2>1. \A q \in UsedSlots(m) : u.flows[q] = m.flows[q] /\ m.flows[q].client # c
    BY <1>7, <1>9, Zenon DEF Stranger, UsedSlots
  <2>2. u.flows[p].client = c
    BY <1>2, <1>7, <1>13, Zenon
  <2> QED
    BY <2>1, <2>2, <1>10 DEF Sound, Single
<1>16. Dated(u) /\ Opened(m, u)
  <2>1. m.next_id \in Nat /\ u.flows[p].id = m.next_id
    BY <1>1, <1>2, <1>7, <1>13, Zenon DEF Tables
  <2>2. \A q \in UsedSlots(m) : u.flows[q] = m.flows[q]
                                /\ m.flows[q].id \in Nat
                                /\ m.flows[q].id < m.next_id
    <3>1. \A q \in UsedSlots(m) : m.flows[q] \in Flow
      BY <1>1, Zenon DEF Tables, UsedSlots, Used
    <3> QED
      BY <3>1, <1>7, <1>9, Zenon DEF Sound, Dated, UsedSlots, Flow
  <2>3. u.next_id = m.next_id + 1
    BY <1>4, Zenon
  <2>4. Dated(u)
    <3>1. \A q, r \in UsedSlots(m) : m.flows[q].id = m.flows[r].id => q = r
      BY Zenon DEF Sound, Dated
    <3> QED
      BY ONLY <2>1, <2>2, <2>3, <3>1, <1>10 DEF Dated
  <2>5. Opened(m, u)
    BY ONLY <2>1, <2>2, <2>3, <1>10 DEF Opened
  <2> QED
    BY ONLY <2>4, <2>5, Zenon
<1>17. Aimed(m, u, c, b, time)
  <2>1. /\ u.flows[p].backend = b /\ u.flows[p].last_seen = time
        /\ u.flows[p].client = c
    BY <1>2, <1>7, <1>13
  <2>2. \A q \in UsedSlots(m) : u.flows[q] = m.flows[q] /\ m.flows[q].client # c
    BY <1>7, <1>9, Zenon DEF UsedSlots, Stranger
  <2> QED
    BY <2>1, <2>2, <1>10 DEF Aimed
<1> QED
  BY <1>6, <1>11, <1>12, <1>14, <1>15, <1>16, <1>17, Zenon DEF Sound

LEMMA SlotOfFacts ==
  ASSUME NEW t, NEW c
  PROVE  /\ SlotOf(t, c) # NoSlot => SlotOf(t, c) \in UsedSlots(t)
                                     /\ t.flows[SlotOf(t, c)].client = c
         /\ SlotOf(t, c) = NoSlot => Stranger(t, c)
<1>1. CASE \E p \in UsedSlots(t) : t.flows[p].client = c
  <2>1. /\ SlotOf(t, c) \in UsedSlots(t)
        /\ t.flows[SlotOf(t, c)].client = c
    BY <1>1, Zenon DEF SlotOf
  <2>2. NoSlot \notin UsedSlots(t)
    BY CapacityAssumption DEF UsedSlots, Slots, NoSlot
  <2> QED
    BY <2>1, <2>2, Zenon
<1>2. CASE ~ \E p \in UsedSlots(t) : t.flows[p].client = c
  BY <1>2, Zenon DEF SlotOf, Stranger
<1> QED
  BY <1>1, <1>2, Zenon

LEMMA KeptStranger ==
  ASSUME NEW t, NEW u, NEW c, Kept(t, u), Stranger(t, c)
  PROVE  Stranger(u, c)
BY Zenon DEF Kept, Stranger

\* A new socket is the table's extra descriptor until put stores it.
LEMMA SocketSound ==
  ASSUME NEW t, Sound(t, {}), NEW fd \in Fds, fd \notin t.fds,
         NEW u, u = [t EXCEPT !.fds = @ \cup {fd}]
  PROVE  Sound(u, {fd}) /\ Kept(t, u) /\ u.free_slots = t.free_slots
<1>1. t \in Tables /\ t.fds \in SUBSET Fds
  BY Zenon DEF Sound, Tables
<1>2. u \in Tables
  <2>1. t.fds \cup {fd} \in SUBSET Fds
    BY <1>1, Zenon
  <2> QED
    BY <1>1, <2>1, FieldTypes, Zenon
<1>3. /\ u.flows = t.flows /\ u.free_slots = t.free_slots /\ u.count = t.count
      /\ u.next_id = t.next_id /\ u.fds = t.fds \cup {fd}
  BY <1>1, Zenon DEF Tables
<1>4. UsedSlots(u) = UsedSlots(t)
  BY <1>3, Zenon DEF UsedSlots, Used
<1>5. Stacked(u)
  BY <1>3 DEF Sound, Stacked, Used, Freed
<1>6. Owned(u, {fd})
  <2>1. /\ t.fds = {t.flows[p].fd : p \in UsedSlots(t)}
        /\ \A p, q \in UsedSlots(t) : t.flows[p].fd = t.flows[q].fd => p = q
    BY Zenon DEF Sound, Owned
  <2>2. \A p \in UsedSlots(u) : u.flows[p] = t.flows[p] /\ u.flows[p].fd # fd
    BY <2>1, <1>3, <1>4, Zenon
  <2>3. u.fds = {u.flows[p].fd : p \in UsedSlots(u)} \cup {fd}
    <3>1. u.flows = t.flows /\ u.fds = t.fds \cup {fd}
      BY <1>3, Zenon
    <3> QED
      BY ONLY <3>1, <2>1, <1>4, Zenon
  <2> QED
    BY <2>1, <2>2, <2>3, <1>4, Zenon DEF Owned
<1>7. Single(u) /\ Dated(u) /\ Kept(t, u)
  <2>1. Single(t) /\ Dated(t)
    BY Zenon DEF Sound
  <2> QED
    BY ONLY <2>1, <1>3, <1>4, Zenon DEF Single, Dated, Kept
<1> QED
  BY <1>2, <1>3, <1>4, <1>5, <1>6, <1>7, Zenon DEF Sound

LEMMA PutNewSound ==
  ASSUME NEW t, NEW c \in Clients, NEW b \in Backends, NEW fd \in Fds,
         NEW time \in Nat, Sound(t, {fd}), Stranger(t, c)
  PROVE  /\ Sound(PutNew(t, c, b, fd, time), {})
         /\ Opened(t, PutNew(t, c, b, fd, time))
         /\ Aimed(t, PutNew(t, c, b, fd, time), c, b, time)
<1> DEFINE made == IF t.free_slots = <<>> THEN EvictOldest(t) ELSE t
           top == Len(made.free_slots)
           p == made.free_slots[top]
           f == [client |-> c, backend |-> b, fd |-> fd,
                 id |-> made.next_id, last_seen |-> time]
<1>1. Sound(made, {fd}) /\ Kept(t, made) /\ made.free_slots # <<>>
  <2>1. CASE t.free_slots = <<>>
    <3>1. made = EvictOldest(t)
      BY <2>1, Zenon
    <3>2. Evicts(t)
      BY <2>1, FullEvicts, Zenon
    <3> QED
      BY <3>1, <3>2, EvictSound
  <2>2. CASE t.free_slots # <<>>
    <3>1. made = t
      BY <2>2, Zenon
    <3> QED
      BY <3>1, <2>2, Zenon DEF Kept
  <2> QED
    BY <2>1, <2>2, Zenon
<1>2. made.free_slots # <<>>
  BY <1>1, Zenon
<1>3. top # 0
  BY <1>1, <1>2 DEF Sound, Tables
<1>4. PutNew(t, c, b, fd, time) = Filled(made, p, f)
  BY <1>3, Zenon DEF PutNew, PutInto, Filled
<1>5. Stranger(made, c)
  BY <1>1, KeptStranger, Zenon
<1> HIDE DEF made
<1>6. /\ Sound(Filled(made, p, f), {}) /\ Opened(made, Filled(made, p, f))
      /\ Aimed(made, Filled(made, p, f), c, b, time)
  BY <1>1, <1>2, <1>5, InsertSound, Zenon
<1>7. Opened(t, Filled(made, p, f)) /\ Aimed(t, Filled(made, p, f), c, b, time)
  BY <1>1, <1>6, Zenon DEF Opened, Aimed, Kept
<1> QED
  BY <1>4, <1>6, <1>7, Zenon

LEMMA OpenSound ==
  ASSUME NEW t, NEW c \in Clients, NEW b \in Backends, NEW time \in Nat,
         Sound(t, {}), Stranger(t, c)
  PROVE  /\ Sound(Open(t, c, b, time), {}) /\ Opened(t, Open(t, c, b, time))
         /\ Aimed(t, Open(t, c, b, time), c, b, time)
<1> DEFINE room == SocketOpen(t)
           fd == SocketFd(room)
           m == [room EXCEPT !.fds = @ \cup {fd}]
           u == PutNew(m, c, b, fd, time)
<1>1. Sound(room, {}) /\ Kept(t, room)
  BY EvictSound, Zenon DEF SocketOpen, Kept
<1>2. Stranger(room, c) /\ t.next_id \in Nat
  BY <1>1, KeptStranger, Zenon DEF Sound, Tables
<1>3. CASE fd = NoFd
  <2>1. Open(t, c, b, time) = room
    BY <1>3, Zenon DEF Open
  <2>2. Opened(t, room) /\ Aimed(t, room, c, b, time)
    BY <1>1, <1>2 DEF Opened, Aimed, Kept, Stranger
  <2> QED
    BY <1>1, <2>1, <2>2, Zenon
<1>4. CASE fd # NoFd
  <2>1. Open(t, c, b, time) = u
    BY <1>4, Zenon DEF Open
  <2>2. fd \in Fds /\ fd \notin room.fds
    BY <1>4, SocketFdFree, Zenon
  <2> HIDE DEF room, fd
  <2>3. Sound(m, {fd}) /\ Kept(room, m)
    BY <1>1, <2>2, SocketSound, Zenon
  <2>4. Stranger(m, c)
    BY <1>2, <2>3, KeptStranger, Zenon
  <2> HIDE DEF m
  <2>5. Sound(u, {}) /\ Opened(m, u) /\ Aimed(m, u, c, b, time)
    BY <2>2, <2>3, <2>4, PutNewSound, Zenon
  <2> HIDE DEF u
  <2>6. Opened(t, u) /\ Aimed(t, u, c, b, time)
    BY <1>1, <2>3, <2>5 DEF Opened, Aimed, Kept
  <2> QED
    BY <2>1, <2>5, <2>6, Zenon
<1> QED
  BY <1>3, <1>4, Zenon

LEMMA EmptySound == Sound(Empty, {})
<1>1. Empty.free_slots \in Seq(Slots) /\ DOMAIN Empty.free_slots = 1 .. Capacity
  <2>1. \A i \in 1 .. Capacity : Capacity - i \in Slots
    BY CapacityAssumption DEF Slots
  <2>2. [i \in 1 .. Capacity |-> Capacity - i] \in Seq(Slots)
    BY <2>1, CapacityAssumption
  <2> QED
    BY <2>2, Zenon DEF Empty
<1>2. Empty \in Tables
  BY <1>1, CapacityAssumption DEF Empty, Tables, Slots
<1>3. UsedSlots(Empty) = {}
  BY Zenon DEF Empty, UsedSlots, Used
<1>4. Stacked(Empty)
  <2>1. \A i \in 1 .. Capacity : Empty.free_slots[i] = Capacity - i
    BY Zenon DEF Empty
  <2>2. \A p \in Slots : \E i \in 1 .. Capacity : p = Empty.free_slots[i]
    <3> TAKE p \in Slots
    <3>1. Capacity - p \in 1 .. Capacity /\ p = Capacity - (Capacity - p)
      BY CapacityAssumption DEF Slots
    <3> QED
      BY <3>1, <2>1, Zenon
  <2>3. Slots \subseteq Freed(Empty)
    BY <1>1, <2>2, Zenon DEF Freed
  <2>4. \A i, j \in 1 .. Capacity :
          Empty.free_slots[i] = Empty.free_slots[j] => i = j
    BY <2>1, CapacityAssumption
  <2> QED
    BY <1>1, <1>3, <2>3, <2>4, Zenon DEF Stacked, UsedSlots
<1>5. Empty.count = Cardinality(UsedSlots(Empty))
  BY <1>3, FS_EmptySet, Zenon DEF Empty
<1>6. Owned(Empty, {}) /\ Single(Empty) /\ Dated(Empty)
  BY <1>3, Zenon DEF Empty, Owned, Single, Dated
<1> QED
  BY <1>2, <1>4, <1>5, <1>6, Zenon DEF Sound

\* Touching a flow, or aiming it at another backend.
LEMMA RefreshSound ==
  ASSUME NEW t, Sound(t, {}), NEW p \in UsedSlots(t), NEW f \in Flow,
         f.client = t.flows[p].client, f.fd = t.flows[p].fd,
         f.id = t.flows[p].id,
         NEW u, u = [t EXCEPT !.flows = [t.flows EXCEPT ![p] = f]]
  PROVE  Sound(u, {})
<1>1. t \in Tables /\ p \in Slots /\ f # Unused
  BY UnusedAssumption, Zenon DEF Sound, UsedSlots
<1>2. u \in Tables
  <2>1. [t.flows EXCEPT ![p] = f] \in [Slots -> Flow \cup {Unused}]
    BY <1>1, Zenon DEF Tables
  <2> QED
    BY <1>1, <2>1, FieldTypes, Zenon
<1>3. /\ u.flows = [t.flows EXCEPT ![p] = f]
      /\ u.free_slots = t.free_slots /\ u.count = t.count
      /\ u.next_id = t.next_id /\ u.fds = t.fds
  BY <1>1, Zenon DEF Tables
<1>4. \A q \in Slots : u.flows[q] = IF q = p THEN f ELSE t.flows[q]
  BY <1>1, <1>3, Zenon DEF Tables
<1>5. UsedSlots(u) = UsedSlots(t)
  BY <1>1, <1>4, Zenon DEF UsedSlots, Used
<1>6. \A q \in UsedSlots(t) : /\ u.flows[q].client = t.flows[q].client
                             /\ u.flows[q].fd = t.flows[q].fd
                             /\ u.flows[q].id = t.flows[q].id
  BY <1>1, <1>4, Zenon DEF UsedSlots
<1>7. Freed(u) = Freed(t)
  BY <1>3, Zenon DEF Freed
<1>8. Stacked(u)
  BY <1>3, <1>5, <1>7, Zenon DEF Sound, Stacked, UsedSlots
<1>9. Owned(u, {})
  BY <1>3, <1>5, <1>6 DEF Sound, Owned
<1>10. Single(u) /\ Dated(u)
  BY <1>3, <1>5, <1>6 DEF Sound, Single, Dated
<1> QED
  BY <1>2, <1>3, <1>5, <1>8, <1>9, <1>10, Zenon DEF Sound

\* What flow_acquire may do to the flows, its own removal included.
LEMMA AcquireSound ==
  ASSUME NEW t, Sound(t, {}), NEW time \in Nat, NEW c \in Clients, NEW b \in Backends,
         NEW registered, NEW u, u = Acquired(t, c, b, registered, time)
  PROVE  /\ Sound(u, {})
         /\ Aimed(t, u, c, b, time)
         /\ \/ Opened(t, u)
            \/ /\ SlotOf(t, c) # NoSlot
               /\ u = Reuse(t, SlotOf(t, c), b, time)
<1> DEFINE p == SlotOf(t, c)
           opened == Open(t, c, b, time)
           q == SlotOf(opened, c)
<1>1. u = IF p # NoSlot THEN Reuse(t, p, b, time)
          ELSE IF q = NoSlot \/ registered THEN opened
          ELSE RemoveSlot(opened, q)
  BY Zenon DEF Acquired
<1> HIDE DEF p
<1>2. CASE p # NoSlot
  <2>1. p \in UsedSlots(t)
    BY <1>2, SlotOfFacts, Zenon DEF p
  <2>2. t \in Tables /\ p \in Slots /\ t.flows[p] \in Flow
    BY <2>1, Zenon DEF Sound, Tables, UsedSlots, Used
  <2> DEFINE f == [t.flows[p] EXCEPT !.backend = b, !.last_seen = time]
  <2>3. /\ f \in Flow /\ f.client = t.flows[p].client
        /\ f.fd = t.flows[p].fd /\ f.id = t.flows[p].id
    BY <2>2, Zenon DEF Flow
  <2>4. Reuse(t, p, b, time)
          = [t EXCEPT !.flows = [t.flows EXCEPT ![p] = f]]
    BY <2>2, Zenon DEF Reuse, Tables
  <2> HIDE DEF f
  <2>5. Sound(Reuse(t, p, b, time), {})
    BY <2>1, <2>3, <2>4, RefreshSound, Zenon
  <2>6. Aimed(t, Reuse(t, p, b, time), c, b, time)
    <3>1. f.backend = b /\ f.last_seen = time /\ f # Unused
      BY <2>2, <2>3, UnusedAssumption, Zenon DEF f, Flow
    <3>2. \A r \in Slots : Reuse(t, p, b, time).flows[r] = IF r = p THEN f ELSE t.flows[r]
      BY <2>2, <2>4, Zenon DEF Tables
    <3>3. t.flows[p].client = c /\ \A r \in UsedSlots(t) : t.flows[r].client = c => r = p
      BY <1>2, <2>1, SlotOfFacts, Zenon DEF Sound, Single, p
    <3>4. f.client = c
      BY <2>3, <3>3, Zenon
    <3> DEFINE v == Reuse(t, p, b, time)
    <3> HIDE DEF v
    <3>5. \A r \in UsedSlots(v) : r \in Slots /\ (r # p => r \in UsedSlots(t))
      BY <3>2, Zenon DEF UsedSlots, Used, v
    <3> QED
      BY <3>1, <3>2, <3>3, <3>4, <3>5, Zenon DEF Aimed, v
  <2> QED
    BY <1>1, <1>2, <2>5, <2>6, Zenon DEF p
<1>3. CASE p = NoSlot
  <2>1. Stranger(t, c)
    BY <1>3, SlotOfFacts, Zenon DEF p
  <2>2. Sound(opened, {}) /\ Opened(t, opened) /\ Aimed(t, opened, c, b, time)
    BY <2>1, OpenSound, Zenon
  <2> HIDE DEF opened
  <2>3. CASE q = NoSlot \/ registered
    BY <1>1, <1>3, <2>2, <2>3, Zenon
  <2>4. CASE ~(q = NoSlot \/ registered)
    <3>1. u = RemoveSlot(opened, q)
      BY <1>1, <1>3, <2>4, Zenon
    <3>2. q \in UsedSlots(opened)
      BY <2>4, SlotOfFacts, Zenon
    <3> HIDE DEF q
    <3>3. /\ Sound(u, {})
          /\ UsedSlots(u) = UsedSlots(opened) \ {q}
          /\ \A r \in Slots \ {q} : u.flows[r] = opened.flows[r]
          /\ u.next_id = opened.next_id
      BY <3>1, <3>2, <2>2, RemoveSound
    <3>4. Opened(t, u) /\ Aimed(t, u, c, b, time)
      BY <3>3, <2>2, Zenon DEF Opened, Aimed, UsedSlots
    <3> QED
      BY <3>3, <3>4, Zenon
  <2> QED
    BY <2>3, <2>4, Zenon
<1> QED
  BY <1>2, <1>3, Zenon

\* The flows of t stay, and stay as they are, those in the slots of S excepted.
FlowsStay(t, u, S) ==
  \A q \in UsedSlots(t) \ S : q \in UsedSlots(u) /\ u.flows[q] = t.flows[q]

LEMMA InsertSpares ==
  ASSUME NEW m, NEW extra, Sound(m, extra), m.free_slots # <<>>, NEW f \in Flow,
         NEW p, p = m.free_slots[Len(m.free_slots)]
  PROVE  FlowsStay(m, Filled(m, p, f), {})
<1> DEFINE u == Filled(m, p, f)
<1>1. m \in Tables
  BY Zenon DEF Sound
<1>2. p \in Slots /\ p \in Freed(m)
  BY <1>1 DEF Tables, Freed
<1>3. p \notin UsedSlots(m)
  BY <1>2, Zenon DEF Sound, Stacked, UsedSlots
<1>4. u.flows = [m.flows EXCEPT ![p] = f]
  BY <1>1, Zenon DEF Tables, Filled
<1> HIDE DEF u
<1>5. \A q \in Slots : q # p => u.flows[q] = m.flows[q]
  BY <1>1, <1>4, Zenon DEF Tables
<1>6. FlowsStay(m, u, {})
  BY <1>3, <1>5, Zenon DEF FlowsStay, UsedSlots, Used
<1> QED
  BY <1>6, Zenon DEF u

\* A put evicts one flow, in a full table.
LEMMA PutNewSpares ==
  ASSUME NEW t, NEW c \in Clients, NEW b \in Backends, NEW fd \in Fds,
         NEW time \in Nat, Sound(t, {fd})
  PROVE  /\ \E v \in Slots : FlowsStay(t, PutNew(t, c, b, fd, time), {v})
         /\ t.free_slots # <<>> => FlowsStay(t, PutNew(t, c, b, fd, time), {})
<1> DEFINE made == IF t.free_slots = <<>> THEN EvictOldest(t) ELSE t
           top == Len(made.free_slots)
           p == made.free_slots[top]
           f == [client |-> c, backend |-> b, fd |-> fd,
                 id |-> made.next_id, last_seen |-> time]
<1>1. /\ Sound(made, {fd}) /\ made.free_slots # <<>>
      /\ \E v \in Slots : FlowsStay(t, made, {v})
      /\ t.free_slots # <<>> => made = t
  <2>1. CASE t.free_slots = <<>>
    <3>1. made = EvictOldest(t)
      BY <2>1, Zenon
    <3>2. Evicts(t)
      BY <2>1, FullEvicts, Zenon
    <3>3. /\ Sound(EvictOldest(t), {fd}) /\ Kept(t, EvictOldest(t))
          /\ EvictOldest(t).free_slots # <<>>
          /\ \E v \in Slots : UsedSlots(t) \subseteq UsedSlots(EvictOldest(t)) \cup {v}
      BY <3>2, EvictSound, Zenon
    <3>4. \E v \in Slots : FlowsStay(t, EvictOldest(t), {v})
      BY <3>3, Zenon DEF Kept, FlowsStay
    <3> QED
      BY <3>1, <3>3, <3>4, <2>1, Zenon
  <2>2. CASE t.free_slots # <<>>
    <3>1. made = t /\ 0 \in Slots
      BY <2>2, CapacityAssumption DEF Slots
    <3>2. FlowsStay(t, made, {0})
      BY <3>1, Zenon DEF FlowsStay
    <3> QED
      BY <3>1, <3>2, <2>2, Zenon
  <2> QED
    BY <2>1, <2>2, Zenon
<1>2. made \in Tables /\ made.free_slots # <<>>
  BY <1>1, Zenon DEF Sound
<1>3. top # 0 /\ f \in Flow
  BY <1>2 DEF Tables, Flow
<1>4. PutNew(t, c, b, fd, time) = Filled(made, p, f)
  BY <1>3, Zenon DEF PutNew, PutInto, Filled
<1> HIDE DEF made, f
<1>5. FlowsStay(made, Filled(made, p, f), {})
  BY <1>1, <1>3, InsertSpares, Zenon
<1> HIDE DEF p
<1>6. \E v \in Slots : FlowsStay(t, Filled(made, p, f), {v})
  BY <1>1, <1>5, Zenon DEF FlowsStay
<1>7. t.free_slots # <<>> => FlowsStay(t, Filled(made, p, f), {})
  BY <1>1, <1>5, Zenon
<1> QED
  BY <1>4, <1>6, <1>7, Zenon

\* What opening a flow costs: one other flow, whether the descriptors or the
\* slots ran out, and none when neither did.
LEMMA OpenSpares ==
  ASSUME NEW t, NEW c \in Clients, NEW b \in Backends, NEW time \in Nat, Sound(t, {})
  PROVE  /\ \E v \in Slots : FlowsStay(t, Open(t, c, b, time), {v})
         /\ t.free_slots # <<>> /\ SocketFd(t) # NoFd => FlowsStay(t, Open(t, c, b, time), {})
<1> DEFINE room == SocketOpen(t)
           fd == SocketFd(room)
           m == [room EXCEPT !.fds = @ \cup {fd}]
           u == PutNew(m, c, b, fd, time)
<1>1. /\ Sound(room, {})
      /\ \/ \E v \in Slots : FlowsStay(t, room, {v}) /\ room.free_slots # <<>>
         \/ FlowsStay(t, room, {})
      /\ SocketFd(t) # NoFd => room = t
  <2>1. CASE SocketFd(t) # NoFd
    BY <2>1, Zenon DEF SocketOpen, FlowsStay
  <2>2. CASE SocketFd(t) = NoFd
    <3> DEFINE e == EvictOldest(t)
    <3>1. room = e
      BY <2>2, Zenon DEF SocketOpen
    <3>2. /\ Sound(e, {}) /\ Kept(t, e)
          /\ Evicts(t) => e.free_slots # <<>>
          /\ \E v \in Slots : UsedSlots(t) \subseteq UsedSlots(e) \cup {v}
          /\ ~Evicts(t) => UsedSlots(e) = UsedSlots(t)
      BY EvictSound, Zenon
    <3> HIDE DEF e, room
    <3>3. \E v \in Slots : FlowsStay(t, e, {v})
      BY <3>2, Zenon DEF Kept, FlowsStay
    <3>4. ~Evicts(t) => FlowsStay(t, e, {})
      BY <3>2, Zenon DEF Kept, FlowsStay
    <3> QED
      BY <3>1, <3>2, <3>3, <3>4, <2>2, Zenon
  <2> QED
    BY <2>1, <2>2, Zenon
<1>2. 0 \in Slots
  BY CapacityAssumption DEF Slots
<1>3. CASE fd = NoFd
  <2>1. Open(t, c, b, time) = room
    BY <1>3, Zenon DEF Open
  <2>2. SocketFd(t) = NoFd
    BY <1>1, <1>3, Zenon
  <2> HIDE DEF room, fd
  <2> QED
    BY <1>1, <1>2, <2>1, <2>2, Zenon DEF FlowsStay
<1>4. CASE fd # NoFd
  <2>1. Open(t, c, b, time) = u
    BY <1>4, Zenon DEF Open
  <2>2. fd \in Fds /\ fd \notin room.fds
    BY <1>4, SocketFdFree, Zenon
  <2> HIDE DEF room, fd
  <2>3. Sound(m, {fd}) /\ Kept(room, m) /\ m.free_slots = room.free_slots
    BY <1>1, <2>2, SocketSound, Zenon
  <2>4. UsedSlots(m) = UsedSlots(room) /\ m.flows = room.flows
    BY <1>1, Zenon DEF Sound, Tables, UsedSlots, Used
  <2> HIDE DEF m
  <2>5. /\ \E v \in Slots : FlowsStay(m, u, {v})
        /\ m.free_slots # <<>> => FlowsStay(m, u, {})
    BY <2>2, <2>3, PutNewSpares, Zenon
  <2> HIDE DEF u
  <2>6. \A S : FlowsStay(m, u, S) => FlowsStay(room, u, S)
    BY <2>4, Zenon DEF FlowsStay
  <2>7. \E v \in Slots : FlowsStay(t, u, {v})
    <3>1. CASE \E v \in Slots : FlowsStay(t, room, {v}) /\ room.free_slots # <<>>
      <4>1. FlowsStay(room, u, {})
        BY <3>1, <2>3, <2>5, <2>6, Zenon
      <4> QED
        BY <3>1, <4>1, Zenon DEF FlowsStay
    <3>2. CASE FlowsStay(t, room, {})
      BY <3>2, <2>5, <2>6, Zenon DEF FlowsStay
    <3> QED
      BY <1>1, <3>1, <3>2, Zenon
  <2>8. t.free_slots # <<>> /\ SocketFd(t) # NoFd => FlowsStay(t, u, {})
    BY <1>1, <2>3, <2>5, <2>6, Zenon
  <2> QED
    BY <2>1, <2>7, <2>8, Zenon
<1> QED
  BY <1>3, <1>4, Zenon

\* flow_acquire costs one other client its flow, and none when there is a free
\* slot and a free descriptor, or the client has a flow.
LEMMA AcquireSpares ==
  ASSUME NEW t, Sound(t, {}), NEW time \in Nat, NEW c \in Clients, NEW b \in Backends,
         NEW registered, NEW u, u = Acquired(t, c, b, registered, time)
  PROVE  LET Others(S) == \A q \in UsedSlots(t) \ S : t.flows[q].client # c =>
                            q \in UsedSlots(u) /\ u.flows[q] = t.flows[q]
         IN /\ \E v \in Slots : Others({v})
            /\ \/ SlotOf(t, c) # NoSlot
               \/ t.free_slots # <<>> /\ SocketFd(t) # NoFd
               => Others({})
<1> DEFINE Others(S) == \A q \in UsedSlots(t) \ S : t.flows[q].client # c =>
                          q \in UsedSlots(u) /\ u.flows[q] = t.flows[q]
           p == SlotOf(t, c)
           opened == Open(t, c, b, time)
           q == SlotOf(opened, c)
<1>1. u = IF p # NoSlot THEN Reuse(t, p, b, time)
          ELSE IF q = NoSlot \/ registered THEN opened
          ELSE RemoveSlot(opened, q)
  BY Zenon DEF Acquired
<1>2. 0 \in Slots
  BY CapacityAssumption DEF Slots
<1>3. CASE p # NoSlot
  <2>1. p \in UsedSlots(t) /\ t.flows[p].client = c
    BY <1>3, SlotOfFacts, Zenon
  <2>2. u = Reuse(t, p, b, time)
    BY <1>1, <1>3, Zenon
  <2> HIDE DEF p
  <2>3. t \in Tables /\ p \in Slots
    BY <2>1, Zenon DEF Sound, UsedSlots
  <2>4. \A r \in Slots : r # p => u.flows[r] = t.flows[r]
    BY <2>2, <2>3, Zenon DEF Reuse, Tables
  <2>5. Others({})
    BY <2>1, <2>4, Zenon DEF UsedSlots, Used
  <2> QED
    BY <1>2, <2>5, Zenon
<1>4. CASE p = NoSlot
  <2>1. Stranger(t, c)
    BY <1>4, SlotOfFacts, Zenon
  <2>2. Sound(opened, {})
    BY <2>1, OpenSound, Zenon
  <2>3. /\ \E v \in Slots : FlowsStay(t, opened, {v})
        /\ t.free_slots # <<>> /\ SocketFd(t) # NoFd => FlowsStay(t, opened, {})
    BY OpenSpares, Zenon
  <2> HIDE DEF opened, p
  <2>4. \A S : FlowsStay(t, opened, S) => Others(S)
    <3>1. CASE q = NoSlot \/ registered
      BY <1>1, <1>4, <3>1, Zenon DEF FlowsStay
    <3>2. CASE ~(q = NoSlot \/ registered)
      <4>1. u = RemoveSlot(opened, q)
        BY <1>1, <1>4, <3>2, Zenon
      <4>2. q \in UsedSlots(opened) /\ opened.flows[q].client = c
        BY <3>2, SlotOfFacts, Zenon
      <4> HIDE DEF q
      <4>3. /\ UsedSlots(u) = UsedSlots(opened) \ {q}
            /\ \A r \in Slots \ {q} : u.flows[r] = opened.flows[r]
        BY <4>1, <4>2, <2>2, RemoveSound
      <4> QED
        BY <4>2, <4>3, Zenon DEF FlowsStay, UsedSlots
    <3> QED
      BY <3>1, <3>2, Zenon
  <2> HIDE DEF Others
  <2>5. \E v \in Slots : Others({v})
    BY <2>3, <2>4, Zenon
  <2>6. t.free_slots # <<>> /\ SocketFd(t) # NoFd => Others({})
    BY <2>3, <2>4, Zenon
  <2> QED
    BY <1>4, <2>5, <2>6, Zenon DEF Others, p
<1> QED
  BY <1>3, <1>4, Zenon

LEMMA AcquireHolds ==
  ASSUME NEW t, Sound(t, {}), NEW time \in Nat, NEW c \in Clients, NEW b \in Backends,
         NEW registered, NEW u, u = Acquired(t, c, b, registered, time),
         SlotOf(t, c) # NoSlot \/ (t.free_slots # <<>> /\ SocketFd(t) # NoFd)
  PROVE  Holds(t, u, time) /\ (SlotOf(t, c) # NoSlot => SlotOf(u, c) = SlotOf(t, c))
<1> DEFINE p == SlotOf(t, c)
<1>1. \A q \in UsedSlots(t) : t.flows[q].client # c =>
        q \in UsedSlots(u) /\ u.flows[q] = t.flows[q]
  BY AcquireSpares
<1>2. CASE p = NoSlot
  <2>1. \A q \in UsedSlots(t) : t.flows[q].client # c
    BY <1>2, SlotOfFacts, Zenon DEF Stranger
  <2> QED
    BY <1>1, <1>2, <2>1, Zenon DEF Holds
<1>3. CASE p # NoSlot
  <2>1. p \in UsedSlots(t) /\ t.flows[p].client = c /\ u = Reuse(t, p, b, time)
    BY <1>3, SlotOfFacts, Zenon DEF Acquired
  <2>2. \A q \in UsedSlots(t) : t.flows[q].client = c => q = p
    BY <2>1, Zenon DEF Sound, Single
  <2>3. Sound(u, {})
    BY AcquireSound, Zenon
  <2> HIDE DEF p
  <2>4. t \in Tables /\ p \in Slots /\ t.flows[p] \in Flow
    BY <2>1, Zenon DEF Sound, Tables, UsedSlots, Used
  <2>5. u.flows[p] = [t.flows[p] EXCEPT !.backend = b, !.last_seen = time]
    BY <2>1, <2>4, Zenon DEF Reuse, Tables
  <2>6. /\ u.flows[p] \in Flow /\ u.flows[p].client = c /\ u.flows[p].id = t.flows[p].id
        /\ u.flows[p].last_seen = time
    BY <2>1, <2>4, <2>5, Zenon DEF Flow
  <2>7. p \in UsedSlots(u)
    BY <2>4, <2>6, UnusedAssumption, Zenon DEF UsedSlots, Used
  <2>8. Holds(t, u, time)
    BY <1>1, <2>1, <2>2, <2>6, <2>7, Zenon DEF Holds
  <2>9. SlotOf(u, c) = p
    <3>1. SlotOf(u, c) # NoSlot
      BY <2>6, <2>7, SlotOfFacts, Zenon DEF Stranger
    <3>2. SlotOf(u, c) \in UsedSlots(u) /\ u.flows[SlotOf(u, c)].client = c
      BY <3>1, SlotOfFacts, Zenon
    <3> QED
      BY <2>3, <2>6, <2>7, <3>2, Zenon DEF Sound, Single
  <2> QED
    BY <2>8, <2>9, Zenon DEF p
<1> QED
  BY <1>2, <1>3, Zenon

\* Then a client without a flow finds a slot and a descriptor: the others have
\* no more than one each.
LEMMA RoomLeft ==
  ASSUME Roomy, NEW t, Sound(t, {}), NEW c \in Clients, Stranger(t, c)
  PROVE  t.free_slots # <<>> /\ SocketFd(t) # NoFd
<1> DEFINE U == UsedSlots(t)
           C == Clients \ {c}
           f == [q \in U |-> t.flows[q].client]
           g == [q \in U |-> t.flows[q].fd]
           n == Cardinality(Clients)
<1>1. IsFiniteSet(C) /\ Cardinality(C) = n - 1 /\ n \in Nat
  BY FS_RemoveElement, FS_CardinalityType, Zenon DEF Roomy
<1>2. t \in Tables /\ U \subseteq Slots /\ \A q \in U : t.flows[q] \in Flow
  BY Zenon DEF Sound, Tables, UsedSlots, Used
<1>3. f \in Injection(U, C)
  <2>1. \A q \in U : t.flows[q].client \in C
    BY <1>2, Zenon DEF Flow, Stranger
  <2> QED
    BY <2>1, Zenon DEF Injection, IsInjective, Sound, Single
<1>4. g \in Surjection(U, t.fds)
  BY Zenon DEF Surjection, Sound, Owned
<1> HIDE DEF U, C, f, g
<1>5. IsFiniteSet(U) /\ Cardinality(U) <= n - 1 /\ Cardinality(U) \in Nat
  BY <1>1, <1>3, FS_Injection, FS_CardinalityType
<1>6. IsFiniteSet(t.fds) /\ Cardinality(t.fds) <= n - 1 /\ Cardinality(t.fds) \in Nat
  BY <1>1, <1>4, <1>5, FS_Surjection, FS_CardinalityType
<1>7. t.free_slots # <<>>
  <2>1. U # Slots
    BY <1>1, <1>5, SlotsFinite, CapacityAssumption DEF Roomy
  <2>2. PICK q \in Slots : q \notin U
    BY <1>2, <2>1, Zenon
  <2>3. q \in Freed(t)
    BY <2>2, Zenon DEF Sound, Stacked, U, UsedSlots
  <2> QED
    BY <2>3 DEF Freed
<1>8. SocketFd(t) # NoFd
  <2>1. ~(Fds \subseteq t.fds)
    <3> SUFFICES ASSUME Fds \subseteq t.fds PROVE FALSE
      BY Zenon
    <3>1. Cardinality(Fds) <= Cardinality(t.fds) /\ Cardinality(Fds) \in Nat
      BY <1>6, FS_Subset, FS_CardinalityType, Zenon DEF Roomy
    <3> QED
      BY <1>1, <1>6, <3>1 DEF Roomy
  <2> DEFINE F == Fds \ t.fds
  <2>2. F # {} /\ F \subseteq Nat
    BY <2>1, FdsAssumption, Zenon
  <2>3. SocketFd(t) = CHOOSE x \in F : \A y \in F : x <= y
    BY <2>1, Zenon DEF SocketFd
  <2> HIDE DEF F
  <2>4. SocketFd(t) \in F
    BY <2>2, <2>3, LeastNumber, Zenon
  <2> QED
    BY <2>2, <2>4 DEF NoFd
<1> QED
  BY <1>7, <1>8, Zenon

\* Removing a flow, and moving the sweep's cursor.
LEMMA ExpireOneSound ==
  ASSUME NEW t, Sound(t, {}), NEW time, NEW u, u = ExpireOne(t, time)
  PROVE  /\ Sound(u, {}) /\ Kept(t, u)
         /\ \A q \in UsedSlots(t) : ~IdleAt(t, q, time) => q \in UsedSlots(u)
<1> DEFINE p == t.expire_cursor
           kept == IF IdleAt(t, p, time) THEN RemoveSlot(t, p) ELSE t
<1>1. t \in Tables /\ p \in Slots /\ After(p) \in Slots
  BY CapacityAssumption DEF Sound, Tables, After, Slots
<1>2. /\ Sound(kept, {}) /\ Kept(t, kept)
      /\ \A q \in UsedSlots(t) : ~IdleAt(t, q, time) => q \in UsedSlots(kept)
  <2>1. CASE IdleAt(t, p, time)
    <3>1. p \in UsedSlots(t)
      BY <1>1, <2>1, Zenon DEF IdleAt, UsedSlots
    <3>2. kept = RemoveSlot(t, p)
      BY <2>1, Zenon
    <3> HIDE DEF p, kept
    <3> QED
      BY <2>1, <3>1, <3>2, RemoveSound DEF Kept, UsedSlots
  <2>2. CASE ~IdleAt(t, p, time)
    BY <2>2, Zenon DEF Kept
  <2> QED
    BY <2>1, <2>2, Zenon
<1>3. u = [kept EXCEPT !.expire_cursor = After(p)]
  BY Zenon DEF ExpireOne
<1> HIDE DEF kept, p
<1>4. kept \in Tables
  BY <1>2, Zenon DEF Sound
<1>5. u \in Tables
  BY <1>1, <1>3, <1>4, FieldTypes, Zenon
<1>6. /\ u.flows = kept.flows /\ u.free_slots = kept.free_slots
      /\ u.count = kept.count /\ u.fds = kept.fds
      /\ u.next_id = kept.next_id
  BY <1>3, <1>4, Zenon DEF Tables
<1>7. Sound(u, {}) /\ UsedSlots(u) = UsedSlots(kept)
  BY <1>2, <1>5, <1>6, CursorsSound, Zenon
<1> QED
  BY <1>2, <1>6, <1>7, Zenon DEF Kept

-----------------------------------------------------------------------------
(* The sweeps: a step per slot *)

LEMMA KeptTransitive ==
  ASSUME NEW t, NEW u, NEW v, Kept(t, u), Kept(u, v)
  PROVE  Kept(t, v)
BY Zenon DEF Kept

\* qsr_flow_table_expire_incremental over the whole table removes idle flows
\* and changes none.
LEMMA ExpireAllSound ==
  ASSUME NEW t, Sound(t, {}), NEW time
  PROVE  /\ Sound(ExpireAll(t, time), {}) /\ Kept(t, ExpireAll(t, time))
         /\ \A q \in UsedSlots(t) : ~IdleAt(t, q, time) => q \in UsedSlots(ExpireAll(t, time))
<1> DEFINE Active(u) == \A q \in UsedSlots(t) : ~IdleAt(t, q, time) => q \in UsedSlots(u)
           T == {u \in Tables : Sound(u, {}) /\ Kept(t, u) /\ Active(u)}
           step == [n \in 1 .. Capacity |-> [u \in T |-> ExpireOne(u, time)]]
           Eq(f) == f = [n \in 0 .. Capacity |->
                           IF n = 0 THEN t ELSE ExpireOne(f[n - 1], time)]
           walk == CHOOSE f : Eq(f)
<1>1. ExpireAll(t, time) = walk[Capacity]
  BY Zenon DEF ExpireAll
<1>2. t \in T
  BY Zenon DEF Sound, Kept
<1>3. \A u \in T : ExpireOne(u, time) \in T
  <2> SUFFICES ASSUME NEW u \in T PROVE ExpireOne(u, time) \in T
    BY Zenon
  <2>1. /\ Sound(ExpireOne(u, time), {}) /\ Kept(u, ExpireOne(u, time))
        /\ \A q \in UsedSlots(u) : ~IdleAt(u, q, time) => q \in UsedSlots(ExpireOne(u, time))
    BY ExpireOneSound, Zenon
  <2>2. Kept(t, ExpireOne(u, time))
    BY <2>1, KeptTransitive, Zenon
  <2>3. \A q \in UsedSlots(u) : ~IdleAt(t, q, time) => ~IdleAt(u, q, time)
    BY Zenon DEF Kept, IdleAt, UsedSlots
  <2> QED
    BY <2>1, <2>2, <2>3, Zenon DEF Sound
<1> HIDE DEF T
<1>4. step \in [1 .. Capacity -> [T -> T]]
  BY <1>3, Zenon
<1>5. Capacity \in Nat
  BY CapacityAssumption, Zenon
<1>6. \A n \in 1 .. Capacity, u \in T : step[n][u] = ExpireOne(u, time)
  BY Zenon
<1> HIDE DEF step
<1>7. \E f : Eq(f)
  <2>1. PICK f \in [0 .. Capacity -> T] : Stepwise(f, t, step, Capacity)
    BY <1>2, <1>4, <1>5, StepsExist, Zenon
  <2>2. \A n \in 0 .. Capacity : f[n] = IF n = 0 THEN t ELSE ExpireOne(f[n - 1], time)
    BY <2>1, <1>5, <1>6 DEF Stepwise
  <2>3. Eq(f)
    BY <2>2, Zenon
  <2> QED
    BY <2>3, Zenon
<1>8. Eq(walk)
  BY <1>7, Zenon
<1> HIDE DEF walk
<1>9. walk[0] = t /\ \A n \in 1 .. Capacity : walk[n] = ExpireOne(walk[n - 1], time)
  <2>1. \A n \in 0 .. Capacity :
          walk[n] = IF n = 0 THEN t ELSE ExpireOne(walk[n - 1], time)
    BY <1>8, Zenon
  <2> QED
    BY <2>1, <1>5
<1>10. walk[Capacity] \in T
  <2> DEFINE P == {n \in 0 .. Capacity : walk[n] \in T}
  <2>1. 0 \in P /\ \A n \in 1 .. Capacity : n - 1 \in P => n \in P
    BY <1>2, <1>3, <1>5, <1>9
  <2> HIDE DEF P
  <2>2. Capacity \in P
    BY <2>1, <1>5, UpTo
  <2> QED
    BY <2>2, Zenon DEF P
<1> QED
  BY <1>1, <1>10, Zenon DEF T

\* One slot of qsr_flow_table_evict_if.
Walked(u, q, doomed) ==
  IF Used(u, q) /\ u.flows[q].backend \in doomed THEN RemoveSlot(u, q) ELSE u

LEMMA WalkedSound ==
  ASSUME NEW u, Sound(u, {}), NEW q \in Slots, NEW doomed, NEW v, v = Walked(u, q, doomed)
  PROVE  /\ Sound(v, {}) /\ Kept(u, v)
         /\ q \in UsedSlots(v) => v.flows[q].backend \notin doomed
         /\ \A r \in UsedSlots(u) : u.flows[r].backend \notin doomed =>
                                      r \in UsedSlots(v) /\ v.flows[r] = u.flows[r]
<1>1. CASE Used(u, q) /\ u.flows[q].backend \in doomed
  <2>1. v = RemoveSlot(u, q) /\ q \in UsedSlots(u)
    BY <1>1, Zenon DEF Walked, UsedSlots
  <2>2. /\ Sound(v, {}) /\ UsedSlots(v) = UsedSlots(u) \ {q}
        /\ \A r \in Slots \ {q} : v.flows[r] = u.flows[r]
        /\ v.next_id = u.next_id
    BY <2>1, RemoveSound
  <2> QED
    BY <1>1, <2>2, Zenon DEF Kept, UsedSlots
<1>2. CASE ~(Used(u, q) /\ u.flows[q].backend \in doomed)
  BY <1>2, Zenon DEF Walked, Kept, UsedSlots
<1> QED
  BY <1>1, <1>2, Zenon

\* qsr_flow_table_evict_if: the flows to the backends in doomed go, all of
\* them, and the others stay as they are.
LEMMA EvictBackendsSound ==
  ASSUME NEW t, Sound(t, {}), NEW doomed, NEW e, e = EvictBackends(t, doomed)
  PROVE  /\ Sound(e, {}) /\ Kept(t, e)
         /\ \A p \in UsedSlots(e) : e.flows[p].backend \notin doomed
         /\ \A p \in UsedSlots(t) : t.flows[p].backend \notin doomed =>
                                      p \in UsedSlots(e) /\ e.flows[p] = t.flows[p]
<1> DEFINE Spares(u) == \A p \in UsedSlots(t) :
             t.flows[p].backend \notin doomed => p \in UsedSlots(u) /\ u.flows[p] = t.flows[p]
           T == {u \in Tables : Sound(u, {}) /\ Kept(t, u) /\ Spares(u)}
           step == [n \in 1 .. Capacity |-> [u \in T |-> Walked(u, n - 1, doomed)]]
           Eq(f) == f = [n \in 0 .. Capacity |->
                           IF n = 0 THEN t ELSE Walked(f[n - 1], n - 1, doomed)]
           walk == CHOOSE f : Eq(f)
<1>1. e = walk[Capacity]
  BY Zenon DEF EvictBackends, Walked
<1>2. t \in T
  BY Zenon DEF Sound, Kept
<1>3. \A u \in T, n \in 1 .. Capacity :
        LET v == Walked(u, n - 1, doomed)
        IN /\ v \in T /\ Kept(u, v)
           /\ n - 1 \in UsedSlots(v) => v.flows[n - 1].backend \notin doomed
  <2> SUFFICES ASSUME NEW u \in T, NEW n \in 1 .. Capacity, NEW v, v = Walked(u, n - 1, doomed)
               PROVE  /\ v \in T /\ Kept(u, v)
                      /\ n - 1 \in UsedSlots(v) => v.flows[n - 1].backend \notin doomed
    BY Zenon
  <2>1. n - 1 \in Slots
    BY CapacityAssumption DEF Slots
  <2>2. /\ Sound(v, {}) /\ Kept(u, v)
        /\ n - 1 \in UsedSlots(v) => v.flows[n - 1].backend \notin doomed
        /\ \A r \in UsedSlots(u) : u.flows[r].backend \notin doomed =>
                                     r \in UsedSlots(v) /\ v.flows[r] = u.flows[r]
    BY <2>1, WalkedSound
  <2>3. Kept(t, v)
    BY <2>2, KeptTransitive, Zenon
  <2>4. Spares(v)
    BY <2>2, Zenon
  <2> QED
    BY <2>2, <2>3, <2>4, Zenon DEF Sound
<1> HIDE DEF T
<1>4. step \in [1 .. Capacity -> [T -> T]]
  BY <1>3, Zenon
<1>5. Capacity \in Nat
  BY CapacityAssumption, Zenon
<1>6. \A n \in 1 .. Capacity, u \in T : step[n][u] = Walked(u, n - 1, doomed)
  BY Zenon
<1> HIDE DEF step
<1>7. \E f : Eq(f)
  <2>1. PICK f \in [0 .. Capacity -> T] : Stepwise(f, t, step, Capacity)
    BY <1>2, <1>4, <1>5, StepsExist, Zenon
  <2>2. \A n \in 0 .. Capacity :
          f[n] = IF n = 0 THEN t ELSE Walked(f[n - 1], n - 1, doomed)
    BY <2>1, <1>5, <1>6 DEF Stepwise
  <2>3. Eq(f)
    BY <2>2, Zenon
  <2> QED
    BY <2>3, Zenon
<1>8. Eq(walk)
  BY <1>7, Zenon
<1> HIDE DEF walk
<1>9. /\ walk[0] = t
      /\ \A n \in 1 .. Capacity : walk[n] = Walked(walk[n - 1], n - 1, doomed)
  <2>1. \A n \in 0 .. Capacity :
          walk[n] = IF n = 0 THEN t ELSE Walked(walk[n - 1], n - 1, doomed)
    BY <1>8, Zenon
  <2> QED
    BY <2>1, <1>5
<1> DEFINE Clean(n) == \A p \in UsedSlots(walk[n]) :
             p < n => walk[n].flows[p].backend \notin doomed
           P == {n \in 0 .. Capacity : walk[n] \in T /\ Clean(n)}
<1>10. 0 \in P
  <2>1. \A p \in UsedSlots(walk[0]) : ~(p < 0)
    BY CapacityAssumption DEF UsedSlots, Slots
  <2> QED
    BY <2>1, <1>2, <1>5, <1>9
<1>11. ASSUME NEW n \in 1 .. Capacity, n - 1 \in P PROVE n \in P
  <2>1. /\ walk[n - 1] \in T /\ Clean(n - 1)
        /\ walk[n] = Walked(walk[n - 1], n - 1, doomed)
    BY <1>9, <1>11, Zenon
  <2>2. /\ walk[n] \in T /\ Kept(walk[n - 1], walk[n])
        /\ n - 1 \in UsedSlots(walk[n]) => walk[n].flows[n - 1].backend \notin doomed
    BY <2>1, <1>3, Zenon
  <2>3. ASSUME NEW p \in UsedSlots(walk[n]), p < n
        PROVE  walk[n].flows[p].backend \notin doomed
    <3>1. p \in Int
      BY <2>3, CapacityAssumption DEF UsedSlots, Slots
    <3>2. CASE p = n - 1
      BY <2>2, <2>3, <3>2, Zenon
    <3>3. CASE p < n - 1
      BY <2>1, <2>2, <2>3, <3>3, Zenon DEF Kept
    <3> QED
      BY <2>3, <3>1, <3>2, <3>3
  <2> QED
    BY <2>2, <2>3
<1> HIDE DEF P
<1>12. Capacity \in P
  BY <1>5, <1>10, <1>11, UpTo
<1>13. e \in T /\ \A p \in UsedSlots(e) : e.flows[p].backend \notin doomed
  <2>1. \A p \in UsedSlots(e) : p < Capacity
    BY CapacityAssumption DEF UsedSlots, Slots
  <2> QED
    BY <2>1, <1>1, <1>12, Zenon DEF P
<1> QED
  BY <1>13, Zenon DEF T

-----------------------------------------------------------------------------
(* The laws *)

LEMMA Pigeon ==
  ASSUME NEW m \in Nat, NEW n \in Nat, m < n, NEW f \in [1 .. n -> 1 .. m]
  PROVE  \E x, y \in 1 .. n : x # y /\ f[x] = f[y]
<1>1. IsFiniteSet(1 .. n) /\ Cardinality(1 .. n) = n
  BY FS_Interval
<1>2. IsFiniteSet(1 .. m) /\ Cardinality(1 .. m) = m
  BY FS_Interval
<1>3. Cardinality(1 .. m) < Cardinality(1 .. n)
  BY <1>1, <1>2, Zenon
<1> QED
  BY <1>1, <1>2, <1>3, FS_PigeonHole, Zenon

\* The laws of FlowLaws hold of every flow table.
THEOREM FlowLawsTheorem == FlowLaws
<1>1. SlotLaw
  BY SlotOfFacts, Zenon DEF SlotLaw
<1>2. EmptyLaw
  BY EmptySound, Zenon DEF EmptyLaw
<1>3. RefreshLaw
  BY RefreshSound, Zenon DEF RefreshLaw
<1>4. AcquireLaw
  BY AcquireSound, Zenon DEF AcquireLaw
<1>5. ExpireLaw
  BY ExpireAllSound, Zenon DEF ExpireLaw
<1>6. EvictLaw
  BY EvictBackendsSound, Zenon DEF EvictLaw
<1> QED
  BY <1>1, <1>2, <1>3, <1>4, <1>5, <1>6, Zenon DEF FlowLaws

\* ... and the laws of a table with room for every client.
THEOREM RoomLawsTheorem == RoomLaws
<1>1. HoldLaw
  BY AcquireHolds DEF HoldLaw
<1>2. RoomLaw
  BY RoomLeft, Zenon DEF RoomLaw
<1>3. SingletonLaw
  BY FS_Singleton, Zenon DEF SingletonLaw
<1> QED
  BY <1>1, <1>2, <1>3, Zenon DEF RoomLaws

\* The laws of numbers hold.
THEOREM NumberLawsTheorem == NumberLaws
<1>1. LeastLaw
  BY LeastNumber, Zenon DEF LeastLaw
<1>2. UpToLaw
  BY UpTo, Zenon DEF UpToLaw
<1>3. StepsLaw
  BY StepsExist, Zenon DEF StepsLaw
<1>4. PigeonLaw
  BY Pigeon, Zenon DEF PigeonLaw, Into
<1> QED
  BY <1>1, <1>2, <1>3, <1>4, Zenon DEF NumberLaws

-----------------------------------------------------------------------------
(* The steps *)

Inv == Sound(table, {}) /\ call \in Calls /\ now \in Nat

LEMMA IdleType == Idle \in Calls
BY CapacityAssumption DEF Idle, Calls

LEMMA CallIndexType ==
  ASSUME NEW c \in Calls, NEW i \in 0 .. Capacity
  PROVE  [c EXCEPT !.i = i] \in Calls
BY Zenon DEF Calls

\* One step of the program: the invariant holds after it, and the flows of
\* this process are the old ones, or new with new ids.
LEMMA InvStep ==
  ASSUME Inv, [Next]_vars
  PROVE  /\ Inv'
         /\ \/ table' = Empty \/ Opened(table, table')
            \/ \E p \in UsedSlots(table), f \in Flow :
                 /\ f.client = table.flows[p].client
                 /\ f.id = table.flows[p].id
                 /\ table' = [table EXCEPT !.flows = [table.flows EXCEPT ![p] = f]]
<1>0. /\ Sound(table, {}) /\ call \in Calls /\ now \in Nat
      /\ table \in Tables /\ table.next_id \in Nat
  BY Zenon DEF Inv, Sound, Tables
<1>same. ASSUME table' = table PROVE Opened(table, table')
  BY <1>same, <1>0 DEF Opened
<1>kept. ASSUME Kept(table, table') PROVE Opened(table, table')
  BY <1>kept, <1>0 DEF Opened, Kept
<1>1. ASSUME NEW c \in Clients, NEW b \in Backends, NEW registered \in BOOLEAN,
             Acquire(c, b, registered)
      PROVE  Inv' /\ (\/ Opened(table, table')
                      \/ \E p \in UsedSlots(table), f \in Flow :
                           /\ f.client = table.flows[p].client
                           /\ f.id = table.flows[p].id
                           /\ table' = [table EXCEPT !.flows =
                                          [table.flows EXCEPT ![p] = f]])
  <2> DEFINE p == SlotOf(table, c)
  <2>1. /\ Sound(table', {})
        /\ \/ Opened(table, table')
           \/ p # NoSlot /\ table' = Reuse(table, p, b, now)
    BY <1>0, <1>1, AcquireSound, Zenon DEF Acquire
  <2>2. Inv'
    BY <1>0, <1>1, <2>1, Zenon DEF Inv, Acquire
  <2>3. ASSUME p # NoSlot, table' = Reuse(table, p, b, now)
        PROVE  \E r \in UsedSlots(table), f \in Flow :
                 /\ f.client = table.flows[r].client
                 /\ f.id = table.flows[r].id
                 /\ table' = [table EXCEPT !.flows = [table.flows EXCEPT ![r] = f]]
    <3>1. p \in UsedSlots(table)
      BY <2>3, SlotOfFacts, Zenon
    <3> HIDE DEF p
    <3>2. p \in Slots /\ table.flows[p] \in Flow
      BY <3>1, <1>0, Zenon DEF Tables, UsedSlots, Used
    <3> DEFINE f == [table.flows[p] EXCEPT !.backend = b, !.last_seen = now]
    <3>3. f \in Flow /\ f.client = table.flows[p].client
          /\ f.id = table.flows[p].id
      BY <3>2, <1>0, Zenon DEF Flow
    <3>4. table' = [table EXCEPT !.flows = [table.flows EXCEPT ![p] = f]]
      BY <2>3, <3>2, <1>0, Zenon DEF Reuse, Tables
    <3> HIDE DEF f
    <3> QED
      BY <3>1, <3>3, <3>4, Zenon
  <2> QED
    BY <2>1, <2>2, <2>3, Zenon
<1>2. ASSUME NEW p \in Slots, Traffic(p)
      PROVE  Inv' /\ \E r \in UsedSlots(table), f \in Flow :
                       /\ f.client = table.flows[r].client
                       /\ f.id = table.flows[r].id
                       /\ table' = [table EXCEPT !.flows =
                                      [table.flows EXCEPT ![r] = f]]
  <2> DEFINE f == [table.flows[p] EXCEPT !.last_seen = now]
  <2>1. p \in UsedSlots(table) /\ table.flows[p] \in Flow
    BY <1>2, <1>0, Zenon DEF Traffic, UsedSlots, Used, Tables
  <2>2. f \in Flow /\ f.client = table.flows[p].client /\ f.id = table.flows[p].id
        /\ f.fd = table.flows[p].fd
    BY <2>1, <1>0, Zenon DEF Flow
  <2>3. table' = [table EXCEPT !.flows = [table.flows EXCEPT ![p] = f]]
    BY <1>2, <2>1, <1>0, Zenon DEF Traffic, Tables
  <2> HIDE DEF f
  <2>4. Sound(table', {})
    BY <1>0, <2>1, <2>2, <2>3, RefreshSound, Zenon
  <2> QED
    BY <1>0, <1>2, <2>1, <2>2, <2>3, <2>4, Zenon DEF Inv, Traffic
<1>3. ASSUME NEW backends \in SUBSET Backends, StartEvictIf(backends)
      PROVE  Inv' /\ Opened(table, table')
  <2>1. [Idle EXCEPT !.op = "evict_if", !.doomed = backends] \in Calls
    BY IdleType, Zenon DEF Calls
  <2> QED
    BY <1>0, <1>3, <2>1, <1>same, Zenon DEF Inv, StartEvictIf
<1>4. ASSUME NEW scan_budget \in 1 .. Capacity, StartExpire(scan_budget)
      PROVE  Inv' /\ Opened(table, table')
  <2> DEFINE n == IF scan_budget < Capacity THEN scan_budget ELSE Capacity
  <2>1. n \in 0 .. Capacity
    BY CapacityAssumption
  <2>2. call' = [Idle EXCEPT !.op = "expire", !.i = n]
    BY <1>4, Zenon DEF StartExpire
  <2> HIDE DEF n
  <2>3. call' \in Calls
    BY <2>1, <2>2, IdleType, Zenon DEF Calls
  <2> QED
    BY <1>0, <1>4, <2>3, <1>same, Zenon DEF Inv, StartExpire
<1>5. CASE ExpireScan
  <2>1. Sound(table', {}) /\ Kept(table, table')
    BY <1>0, <1>5, ExpireOneSound, Zenon DEF ExpireScan
  <2>2. call.i - 1 \in 0 .. Capacity
    BY <1>0, <1>5, CapacityAssumption DEF ExpireScan, Calls
  <2>3. call' = [call EXCEPT !.i = call.i - 1]
    BY <1>5, Zenon DEF ExpireScan
  <2>4. call' \in Calls
    BY <1>0, <2>2, <2>3, CallIndexType, Zenon
  <2> QED
    BY <1>0, <1>5, <2>1, <2>4, <1>kept, Zenon DEF Inv, ExpireScan
<1>6. CASE EvictIfScan
  <2> DEFINE q == call.i
  <2>1. q \in Slots /\ q + 1 \in 0 .. Capacity
    BY <1>0, <1>6, CapacityAssumption DEF EvictIfScan, Calls, Slots
  <2>2. Sound(table', {}) /\ Kept(table, table')
    <3>1. CASE Used(table, q) /\ table.flows[q].backend \in call.doomed
      <4>1. table' = RemoveSlot(table, q) /\ q \in UsedSlots(table)
        BY <1>6, <2>1, <3>1, Zenon DEF EvictIfScan, UsedSlots
      <4> HIDE DEF q
      <4> QED
        BY <4>1, <1>0, RemoveSound DEF Kept, UsedSlots
    <3>2. CASE ~(Used(table, q) /\ table.flows[q].backend \in call.doomed)
      <4>1. table' = table
        BY <1>6, <3>2, Zenon DEF EvictIfScan
      <4> QED
        BY <4>1, <1>0, Zenon DEF Kept
    <3> QED
      BY <3>1, <3>2, Zenon
  <2>3. call' = [call EXCEPT !.i = q + 1]
    BY <1>6, Zenon DEF EvictIfScan
  <2>4. call' \in Calls
    BY <1>0, <2>1, <2>3, CallIndexType, Zenon
  <2> QED
    BY <1>0, <1>6, <2>2, <2>4, <1>kept, Zenon DEF Inv, EvictIfScan
<1>7. CASE Return
  BY <1>0, <1>7, <1>same, IdleType, Zenon DEF Inv, Return
<1>8. CASE FreeAndInit
  BY <1>0, <1>8, EmptySound, Zenon DEF Inv, FreeAndInit
<1>9. CASE Tick
  BY <1>0, <1>9, <1>same DEF Inv, Tick
<1>10. CASE UNCHANGED vars
  BY <1>0, <1>10, <1>same, Zenon DEF Inv, vars
<1> QED
  BY <1>1, <1>2, <1>3, <1>4, <1>5, <1>6, <1>7, <1>8, <1>9, <1>10, Zenon
  DEF Next, Sweep, Step

LEMMA InvAlways == Spec => []Inv
<1>1. Init => Inv
  BY EmptySound, IdleType DEF Init, Inv
<1>2. Inv /\ [Next]_vars => Inv'
  BY InvStep, Zenon
<1> QED
  BY <1>1, <1>2, PTL DEF Spec

\* Every table, call and clock of the program is well formed, for any
\* capacity and limits: cursors stay in the array, descriptors below the limit.
THEOREM FlowTypes == Spec => []TypeOK
<1>1. Inv => TypeOK
  BY Zenon DEF Inv, Sound, TypeOK
<1> QED
  BY <1>1, InvAlways, PTL

\* The free stack of any flow table holds exactly its unused slots, each once.
THEOREM FreeStackTheorem == Spec => []FreeStack
<1>1. Inv => FreeStack
  BY Zenon DEF Inv, Sound, Stacked, FreeStack, Freed
<1> QED
  BY <1>1, InvAlways, PTL

\* A flow table owns exactly its flows' descriptors, one each, whatever the
\* limit and the order of evictions, failed registrations and reuse of numbers.
THEOREM FdsTheorem == Spec => []FdsOwned
<1>1. Inv => FdsOwned
  BY Zenon DEF Inv, Sound, Owned, FdsOwned
<1> QED
  BY <1>1, InvAlways, PTL

\* A client tuple never has two flows.
THEOREM OneFlowTheorem == Spec => []OneFlowPerClient
<1>1. Inv => OneFlowPerClient
  BY Zenon DEF Inv, Sound, Single, OneFlowPerClient
<1> QED
  BY <1>1, InvAlways, PTL

\* (slot, id) references are never re-used within a process: the generation
\* check of qsr_runtime_session_keepalive is exact, for any history.
THEOREM GenerationTheorem == Spec => GenerationStable
<1> DEFINE Stable == table' # Empty =>
             \A p \in UsedSlots(table') :
               LET f == table'.flows[p]
               IN IF f.id < table.next_id
                  THEN Used(table, p) /\ table.flows[p].id = f.id
                                      /\ table.flows[p].client = f.client
                  ELSE f.id < table'.next_id
<1>1. ASSUME Inv, Inv', [Next]_vars, table' # Empty, NEW p \in UsedSlots(table')
      PROVE  IF table'.flows[p].id < table.next_id
             THEN /\ Used(table, p)
                  /\ table.flows[p].id = table'.flows[p].id
                  /\ table.flows[p].client = table'.flows[p].client
             ELSE table'.flows[p].id < table'.next_id
  <2>1. /\ \A q \in UsedSlots(table) : table.flows[q].id < table.next_id
        /\ \A q \in UsedSlots(table') : table'.flows[q].id < table'.next_id
        /\ table.next_id \in Nat /\ table \in Tables
    BY <1>1, Zenon DEF Inv, Sound, Dated, Tables
  <2>2. CASE Opened(table, table')
    <3>1. CASE p \in UsedSlots(table) /\ table'.flows[p] = table.flows[p]
      BY <3>1, <2>1, Zenon DEF UsedSlots
    <3>2. CASE table'.flows[p].id = table.next_id
      BY <3>2, <2>1, <1>1
    <3> QED
      BY <2>2, <3>1, <3>2, <1>1, Zenon DEF Opened
  <2>3. ASSUME NEW r \in UsedSlots(table), NEW f \in Flow,
               f.client = table.flows[r].client, f.id = table.flows[r].id,
               table' = [table EXCEPT !.flows = [table.flows EXCEPT ![r] = f]]
        PROVE  /\ p \in UsedSlots(table)
               /\ table.flows[p].id = table'.flows[p].id
               /\ table.flows[p].client = table'.flows[p].client
    <3>1. table'.flows = [table.flows EXCEPT ![r] = f]
      BY <2>3, <2>1, Zenon DEF Tables
    <3>2. \A q \in Slots : table'.flows[q] = IF q = r THEN f ELSE table.flows[q]
      BY <3>1, <2>1, Zenon DEF Tables
    <3> QED
      BY <2>3, <3>2, <1>1, Zenon DEF UsedSlots, Used
  <2>4. CASE \E r \in UsedSlots(table), f \in Flow :
               /\ f.client = table.flows[r].client
               /\ f.id = table.flows[r].id
               /\ table' = [table EXCEPT !.flows = [table.flows EXCEPT ![r] = f]]
    <3>1. /\ p \in UsedSlots(table)
          /\ table.flows[p].id = table'.flows[p].id
          /\ table.flows[p].client = table'.flows[p].client
      BY <2>3, <2>4, Zenon
    <3> QED
      BY <3>1, <2>1, Zenon DEF UsedSlots
  <2> QED
    BY <1>1, InvStep, <2>2, <2>4, Zenon
<1>2. Inv /\ [Next]_vars => [Stable]_vars
  <2> SUFFICES ASSUME Inv, [Next]_vars, table' # Empty PROVE Stable
    BY Zenon
  <2>1. Inv'
    BY InvStep, Zenon
  <2> QED
    BY <1>1, <2>1, Zenon
<1>3. Spec => [][Stable]_vars
  BY <1>2, InvAlways, PTL DEF Spec
<1> QED
  BY <1>3, Zenon DEF GenerationStable

\* At the limit of the descriptors or of the slots, or of both, flow_acquire
\* costs at most one other client its flow, for any capacity and scan budget.
THEOREM AcquireEvictsOneTheorem == Spec => AcquireEvictsOne
<1> DEFINE Lost(c) == {p \in UsedSlots(table) \ {SlotOf(table, c)} :
                         SlotOf(table', table.flows[p].client) = NoSlot}
           Cheap == \A c \in Clients : \A b \in Backends, registered \in BOOLEAN :
                      Acquire(c, b, registered) => Cardinality(Lost(c)) <= 1
<1>1. ASSUME Inv, NEW c \in Clients, NEW b \in Backends, NEW registered \in BOOLEAN,
             Acquire(c, b, registered)
      PROVE  Cardinality(Lost(c)) <= 1
  <2>1. Sound(table, {}) /\ now \in Nat /\ table' = Acquired(table, c, b, registered, now)
    BY <1>1, Zenon DEF Inv, Acquire
  <2>2. PICK v \in Slots : \A q \in UsedSlots(table) \ {v} : table.flows[q].client # c =>
          q \in UsedSlots(table') /\ table'.flows[q] = table.flows[q]
    BY <2>1, AcquireSpares
  <2>3. ASSUME NEW p \in Lost(c) PROVE p = v
    <3>1. /\ p \in UsedSlots(table) /\ p # SlotOf(table, c)
          /\ SlotOf(table', table.flows[p].client) = NoSlot
      BY Zenon
    <3>2. Stranger(table', table.flows[p].client)
      BY <3>1, SlotOfFacts, Zenon
    <3>3. table.flows[p].client # c
      <4>1. SUFFICES ASSUME table.flows[p].client = c PROVE FALSE
        BY Zenon
      <4>2. SlotOf(table, c) # NoSlot
        BY <3>1, <4>1, SlotOfFacts, Zenon DEF Stranger
      <4> QED
        BY <2>1, <3>1, <4>1, <4>2, SlotOfFacts, Zenon DEF Sound, Single
    <3> QED
      BY <2>2, <3>1, <3>2, <3>3, Zenon DEF Stranger
  <2> HIDE DEF Lost
  <2>4. Lost(c) \subseteq {v} /\ IsFiniteSet({v}) /\ Cardinality({v}) = 1
    BY <2>3, FS_Singleton, Zenon
  <2> QED
    BY <2>4, FS_Subset, Zenon
<1>2. Inv /\ [Next]_vars => [Cheap]_vars
  BY <1>1, Zenon
<1>3. Spec => [][Cheap]_vars
  BY <1>2, InvAlways, PTL DEF Spec
<1> QED
  BY <1>3, Zenon DEF AcquireEvictsOne
=============================================================================
