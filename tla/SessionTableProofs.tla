------------------------- MODULE SessionTableProofs -------------------------
(***************************************************************************)
(* For every capacity, hash function and set of keys: what the runs of     *)
(* SessionTable check on tables of three and four slots.                   *)
(***************************************************************************)
EXTENDS SessionTable, TLAPS, FiniteSetTheorems, WellFoundedInduction

\* The limit of a leaf counts the time in which other leaves are prepared.
USE SMTT(30), Zenon

-----------------------------------------------------------------------------
(* Arithmetic of the probe sequence *)

\* The distance from a slot is a number below the capacity that identifies
\* the other slot.
LEMMA DistFacts ==
  ASSUME NEW h \in Slots
  PROVE  /\ \A p \in Slots : Dist(h, p) \in 0 .. Capacity - 1
         /\ \A p, q \in Slots : Dist(h, p) = Dist(h, q) => p = q
         /\ \A p \in Slots : Dist(p, p) = 0
BY CapacityAssumption DEF Dist, Slots

LEMMA AfterInSlots ==
  ASSUME NEW p \in Slots
  PROVE  After(p) \in Slots
BY CapacityAssumption DEF After, Slots

\* If the probe from h to p crosses c, the slots from the one after c up to p
\* belong to that probe, and c is not among them.
LEMMA BehindCrossing ==
  ASSUME NEW h \in Slots, NEW c \in Slots, NEW p \in Slots, NEW q \in Slots,
         Dist(h, c) < Dist(h, p),
         Dist(After(c), q) <= Dist(After(c), p)
  PROVE  q # c /\ (q = p \/ Dist(h, q) < Dist(h, p))
BY CapacityAssumption DEF Dist, Slots, After

\* The slots from the one after c up to p # c are slots from c up to p.
LEMMA BehindCursor ==
  ASSUME NEW c \in Slots, NEW p \in Slots, NEW q \in Slots, p # c,
         Dist(After(c), q) <= Dist(After(c), p)
  PROVE  q # c /\ Dist(c, q) <= Dist(c, p)
BY CapacityAssumption DEF Dist, Slots, After

\* A probe stops at the nearest free slot or at the key, if there is either.
LEMMA ProbeStops ==
  ASSUME NEW tbl, NEW k \in Keys, Stops(tbl, k) # {}
  PROVE  /\ Probe(tbl, k) \in Stops(tbl, k)
         /\ Probe(tbl, k) \in Slots
         /\ \A q \in Stops(tbl, k) :
              Dist(Home[k], Probe(tbl, k)) <= Dist(Home[k], q)
<1> DEFINE S == Stops(tbl, k)
           T == {Dist(Home[k], p) : p \in S}
           R == {ss \in Nat \X Nat : ss[1] < ss[2]}
<1>1. Home[k] \in Slots
  BY KeyAssumption, Zenon
<1>2. S \subseteq Slots
  BY Zenon DEF Stops
<1>3. T \subseteq Nat
  <2>1. ASSUME NEW p \in S PROVE Dist(Home[k], p) \in Nat
    BY <1>1, <1>2, DistFacts, CapacityAssumption
  <2> QED
    BY <2>1, Zenon
<1>4. PICK x \in T : \A y \in T : x <= y
  <2>1. T # {}
    BY Zenon
  <2>2. IsWellFoundedOn(R, Nat)
    BY NatLessThanWellFounded, Zenon DEF OpToRel
  <2>3. PICK x \in T : \A y \in T : <<y, x>> \notin R
    BY <1>3, <2>1, <2>2, WFMin, Zenon
  <2>4. \A y \in T : x \in Nat /\ y \in Nat /\ ~(y < x)
    BY <1>3, <2>3, Zenon
  <2>5. \A y \in T : x <= y
    BY <2>4
  <2> QED
    BY <2>5, Zenon
<1>5. PICK p \in S : x = Dist(Home[k], p)
  BY Zenon
<1>6. \A q \in S : Dist(Home[k], p) <= Dist(Home[k], q)
  BY <1>4, <1>5, Zenon
<1>7. Probe(tbl, k) = CHOOSE r \in S :
                        \A q \in S : Dist(Home[k], r) <= Dist(Home[k], q)
  BY Zenon DEF Probe
<1> HIDE DEF S
<1>8. /\ Probe(tbl, k) \in S
      /\ \A q \in S : Dist(Home[k], Probe(tbl, k)) <= Dist(Home[k], q)
  BY <1>5, <1>6, <1>7, Zenon
<1> QED
  BY <1>2, <1>8, Zenon DEF S

-----------------------------------------------------------------------------
(* Types *)

LEMMA CidLenBitType ==
  ASSUME NEW k \in Keys
  PROVE  CidLenBit(k) \in SUBSET Nat
BY KeyAssumption, Zenon DEF CidLenBit

LEMMA IdleType == Idle \in Calls /\ Idle.op = "idle"
BY CapacityAssumption DEF Idle, Calls, Ops

LEMMA CallIndexType ==
  ASSUME NEW c \in Calls, NEW i \in 0 .. Capacity
  PROVE  /\ [c EXCEPT !.i = i] \in Calls
         /\ [c EXCEPT !.i = i].op = c.op
BY Zenon DEF Calls

\* Deleting a session leaves the table well typed.
LEMMA DeleteType ==
  ASSUME TypeOK, NEW v \in Slots, TableDeleteAt(v)
  PROVE  /\ sessions' \in [Slots -> Session \cup {Unused}]
         /\ count' \in Int
         /\ cursor' \in 0 .. Capacity
<1>1. After(v) \in 0 .. Capacity
  BY AfterInSlots, CapacityAssumption DEF Slots
<1> QED
  BY <1>1 DEF TableDeleteAt, TypeOK

\* An eviction leaves the table well typed.
LEMMA EvictOldestType ==
  ASSUME TypeOK, EvictOldest
  PROVE  /\ sessions' \in [Slots -> Session \cup {Unused}]
         /\ count' \in Int
         /\ evict_cursor' \in Slots
         /\ cursor' \in 0 .. Capacity
<1>1. evict_cursor' \in Slots
  <2>1. EvictScans \in Nat
    BY CapacityAssumption, BudgetAssumption, Zenon DEF EvictScans
  <2>2. ASSUME NEW x \in Nat PROVE x % Capacity \in Slots
    BY CapacityAssumption DEF Slots
  <2>3. evict_cursor + EvictScans \in Nat
    BY <2>1 DEF TypeOK, Slots
  <2> QED
    BY <2>2, <2>3, Zenon DEF EvictOldest, TypeOK
<1>2. CASE UNCHANGED <<sessions, count, cursor>>
  BY <1>1, <1>2, Zenon DEF TypeOK
<1> QED
  BY <1>1, <1>2, DeleteType, Zenon DEF EvictOldest

LEMMA InsertType ==
  ASSUME TypeOK, NEW p \in Slots, NEW s \in Session, Insert(p, s)
  PROVE  /\ sessions' \in [Slots -> Session \cup {Unused}]
         /\ count' \in Int
         /\ cid_len_mask' \in SUBSET Nat
         /\ cid_len_mask_pending' \in SUBSET Nat
<1>1. CidLenBit(s.key) \in SUBSET Nat
  BY CidLenBitType, Zenon DEF Session
<1>2. sessions' \in [Slots -> Session \cup {Unused}] /\ count' \in Int
  BY DEF Insert, TypeOK
<1>3. cid_len_mask' \in SUBSET Nat /\ cid_len_mask_pending' \in SUBSET Nat
  BY <1>1, Zenon DEF Insert, TypeOK
<1> QED
  BY <1>2, <1>3, Zenon

LEMMA UpdateType ==
  ASSUME TypeOK, NEW p \in Slots, NEW s \in Session, Used(sessions, p),
         Update(p, s)
  PROVE  sessions' \in [Slots -> Session \cup {Unused}]
<1> DEFINE t == [s EXCEPT !.owner = IF s.owner # 0 THEN s.owner
                                    ELSE sessions[p].owner]
<1>1. sessions[p] \in Session
  BY Zenon DEF TypeOK, Used
<1>2. t \in Session
  BY <1>1, Zenon DEF Session
<1>3. sessions' = [sessions EXCEPT ![p] = t]
  BY Zenon DEF Update
<1> QED
  BY <1>2, <1>3, Zenon DEF TypeOK

\* The slot a reinsertion frees is one its probe can stop at.
LEMMA ReinsertSlot ==
  ASSUME TypeOK, cursor # NoCursor, Used(sessions, cursor)
  PROVE  LET saved == sessions[cursor]
             rest == [sessions EXCEPT ![cursor] = Unused]
         IN /\ cursor \in Slots
            /\ saved \in Session
            /\ saved.key \in Keys
            /\ Probe(rest, saved.key) \in Slots
            /\ Probe(rest, saved.key) \in Stops(rest, saved.key)
            /\ \A q \in Stops(rest, saved.key) :
                 Dist(Home[saved.key], Probe(rest, saved.key))
                   <= Dist(Home[saved.key], q)
<1> DEFINE saved == sessions[cursor]
           rest == [sessions EXCEPT ![cursor] = Unused]
<1>1. cursor \in Slots
  BY CapacityAssumption DEF TypeOK, NoCursor, Slots
<1>2. saved \in Session /\ saved.key \in Keys
  BY <1>1, Zenon DEF TypeOK, Used, Session
<1>3. cursor \in Stops(rest, saved.key)
  BY <1>1, Zenon DEF Stops, Used, TypeOK
<1> HIDE DEF saved, rest
<1>4. /\ Probe(rest, saved.key) \in Slots
      /\ Probe(rest, saved.key) \in Stops(rest, saved.key)
      /\ \A q \in Stops(rest, saved.key) :
           Dist(Home[saved.key], Probe(rest, saved.key))
             <= Dist(Home[saved.key], q)
  BY <1>2, <1>3, ProbeStops, Zenon
<1> QED
  BY <1>1, <1>2, <1>4, Zenon DEF saved, rest

\* A probe that found a slot stopped at one.
LEMMA PutSlot ==
  ASSUME NEW k \in Keys, Probe(sessions, k) # NoSlot
  PROVE  /\ Probe(sessions, k) \in Slots
         /\ Probe(sessions, k) \in Stops(sessions, k)
         /\ \A q \in Stops(sessions, k) :
              Dist(Home[k], Probe(sessions, k)) <= Dist(Home[k], q)
<1>1. Stops(sessions, k) # {}
  BY Zenon DEF Probe
<1> QED
  BY <1>1, ProbeStops, Zenon

\* The steps of the table keep the type invariant.
LEMMA TypeStep == TypeOK /\ [Next]_vars => TypeOK'
<1> SUFFICES ASSUME TypeOK, [Next]_vars PROVE TypeOK'
  BY Zenon
<1>1. CASE Reinsert
  <2> DEFINE saved == sessions[cursor]
             rest == [sessions EXCEPT ![cursor] = Unused]
             p == Probe(rest, saved.key)
  <2>1. cursor \in Slots /\ saved \in Session /\ saved.key \in Keys /\ p \in Slots
    BY <1>1, ReinsertSlot, Zenon DEF Reinsert
  <2>2. sessions' = [rest EXCEPT ![p] = saved]
    BY <1>1, Zenon DEF Reinsert
  <2>3. sessions' \in [Slots -> Session \cup {Unused}]
    <3>1. rest \in [Slots -> Session \cup {Unused}]
      BY Zenon DEF TypeOK
    <3> HIDE DEF rest, p, saved
    <3> QED
      BY <2>1, <2>2, <3>1, Zenon
  <2>4. cursor' \in 0 .. Capacity
    BY <1>1, <2>1, AfterInSlots, CapacityAssumption DEF Reinsert, Slots
  <2>5. cid_len_mask' \in SUBSET Nat /\ cid_len_mask_pending' \in SUBSET Nat
    BY <1>1, <2>1, CidLenBitType, Zenon DEF Reinsert, TypeOK
  <2> QED
    BY <1>1, <2>3, <2>4, <2>5, Zenon DEF Reinsert, TypeOK
<1>2. CASE ReinsertDone
  BY <1>2, CapacityAssumption DEF ReinsertDone, TypeOK, mvars, NoCursor
<1>3. ASSUME NEW s \in Session, NEW op \in {"pressure", "retry"},
             EvictFor(s, op), UNCHANGED <<expire_cursor, now>>
      PROVE  TypeOK'
  <2>1. call' \in Calls /\ call'.session \in Session
    BY <1>3, IdleType, Zenon DEF EvictFor, Calls, Ops, Idle
  <2> QED
    BY <1>3, <2>1, EvictOldestType, Zenon DEF EvictFor, TypeOK, mvars
<1>4. ASSUME NEW p \in Slots, NEW s \in Session,
             \/ Used(sessions, p) /\ Update(p, s)
             \/ Insert(p, s),
             UNCHANGED <<expire_cursor, now>>
      PROVE  TypeOK'
  <2>1. call' = Idle /\ UNCHANGED <<evict_cursor, cursor>>
    BY <1>4, Zenon DEF Update, Insert
  <2>2. Idle.op = "idle"
    BY Zenon DEF Idle
  <2>3. sessions' \in [Slots -> Session \cup {Unused}]
    BY <1>4, InsertType, UpdateType, Zenon
  <2>4. /\ count' \in Int
        /\ cid_len_mask' \in SUBSET Nat
        /\ cid_len_mask_pending' \in SUBSET Nat
    <3>1. CASE Insert(p, s)
      BY <3>1, InsertType, Zenon
    <3>2. CASE Update(p, s)
      BY <3>2, Zenon DEF Update, TypeOK, mvars
    <3> QED
      BY <3>1, <3>2, <1>4, Zenon
  <2> QED
    BY <1>4, <2>1, <2>2, <2>3, <2>4, IdleType, Zenon DEF TypeOK
<1>5. ASSUME NEW k \in Keys, NEW b \in Backends, NEW o \in Owners, Put(k, b, o)
      PROVE  TypeOK'
  <2> DEFINE s == [key |-> k, backend |-> b, last_seen |-> now, owner |-> o]
  <2>1. s \in Session
    BY Zenon DEF Session, TypeOK
  <2> HIDE DEF s
  <2>2. CASE Probe(sessions, k) = NoSlot
    BY <1>3, <1>5, <2>1, <2>2, Zenon DEF Put, s
  <2>3. CASE Probe(sessions, k) # NoSlot
    BY <1>3, <1>4, <1>5, <2>1, <2>3, PutSlot, Zenon DEF Put, s
  <2> QED
    BY <2>2, <2>3, Zenon
<1>6. CASE PutPressure
  BY <1>3, <1>6, Zenon DEF PutPressure, TypeOK
<1>7. CASE PutRetry
  <2>1. call.session \in Session /\ call.session.key \in Keys
    BY <1>7, Zenon DEF PutRetry, SecondWalk, TypeOK, Session
  <2>2. CASE Probe(sessions, call.session.key) = NoSlot
    <3>1. call' = Idle /\ UNCHANGED <<tvars, mvars, expire_cursor, now>>
      BY <1>7, <2>2, Zenon DEF PutRetry, SecondWalk
    <3> QED
      BY <3>1, IdleType, Zenon DEF TypeOK, tvars, mvars
  <2>3. CASE Probe(sessions, call.session.key) # NoSlot
    BY <1>4, <1>7, <2>1, <2>3, PutSlot, Zenon DEF PutRetry, SecondWalk
  <2> QED
    BY <2>2, <2>3, Zenon
<1>8. ASSUME NEW scan_budget \in 1 .. Capacity,
             StartExpireIncremental(scan_budget)
      PROVE  TypeOK'
  <2> DEFINE i == IF scan_budget < Capacity THEN scan_budget ELSE Capacity
             c == [Idle EXCEPT !.op = "expire_incremental"]
  <2>1. i \in 0 .. Capacity
    BY CapacityAssumption
  <2>2. c \in Calls /\ c.op = "expire_incremental"
    BY IdleType, Zenon DEF Calls, Ops
  <2>3. call' = [c EXCEPT !.i = i]
    BY <1>8, Zenon DEF StartExpireIncremental
  <2> HIDE DEF i, c
  <2> QED
    BY <1>8, <2>1, <2>2, <2>3, CallIndexType, Zenon
       DEF StartExpireIncremental, TypeOK, tvars, mvars
<1>9. CASE StartExpire
  BY <1>9, IdleType, Zenon DEF StartExpire, TypeOK, Calls, Ops, Idle, tvars, mvars
<1>10. ASSUME NEW backends \in SUBSET Backends, StartEvictIf(backends)
       PROVE  TypeOK'
  BY <1>10, IdleType, Zenon DEF StartEvictIf, TypeOK, Calls, Ops, Idle, tvars, mvars
<1>11. ASSUME NEW keep \in BOOLEAN, ExpireScan(keep)
       PROVE  TypeOK'
  <2> DEFINE kept == [sessions EXCEPT ![expire_cursor].last_seen = now]
  <2>1. call' \in Calls /\ call'.op = "expire_incremental"
    <3>1. call.i - 1 \in 0 .. Capacity
      BY <1>11, CapacityAssumption DEF ExpireScan, TypeOK, Calls
    <3> QED
      BY <1>11, <3>1, CallIndexType, Zenon DEF ExpireScan, TypeOK
  <2>2. CASE IsIdle(expire_cursor) /\ ~keep
    BY <1>11, <2>1, <2>2, DeleteType, Zenon DEF ExpireScan, TypeOK, mvars
  <2>3. ASSUME NEW tbl \in [Slots -> Session \cup {Unused}], Advance(tbl)
        PROVE  /\ expire_cursor' \in Slots
               /\ cid_len_mask' \in SUBSET Nat
               /\ cid_len_mask_pending' \in SUBSET Nat
    <3>1. Used(tbl, expire_cursor)
            => CidLenBit(tbl[expire_cursor].key) \in SUBSET Nat
      BY CidLenBitType, Zenon DEF Used, TypeOK, Session
    <3>2. expire_cursor' \in Slots
      BY <2>3, AfterInSlots, Zenon DEF Advance, TypeOK
    <3> QED
      BY <2>3, <3>1, <3>2, Zenon DEF Advance, TypeOK
  <2>4. CASE IsIdle(expire_cursor) /\ keep
    <3>1. kept \in [Slots -> Session \cup {Unused}]
      BY <2>4, Zenon DEF IsIdle, Used, TypeOK, Session
    <3>2. /\ sessions' = kept /\ Advance(kept)
          /\ UNCHANGED <<count, cursor, evict_cursor, now>>
      BY <1>11, <2>4, Zenon DEF ExpireScan
    <3> QED
      BY <2>1, <2>3, <3>1, <3>2, Zenon DEF TypeOK
  <2>5. CASE ~IsIdle(expire_cursor)
    <3>1. Advance(sessions)
          /\ UNCHANGED <<sessions, count, cursor, evict_cursor, now>>
      BY <1>11, <2>5, Zenon DEF ExpireScan
    <3> QED
      BY <2>1, <2>3, <3>1, Zenon DEF TypeOK
  <2> QED
    BY <2>2, <2>4, <2>5, Zenon
<1>12. CASE WalkScan
  <2>1. call' \in Calls /\ call'.op = call.op
    <3>1. call.i + 1 \in 0 .. Capacity
      BY <1>12, CapacityAssumption DEF WalkScan, TypeOK, Calls
    <3>2. CASE Matches(call.i)
      BY <1>12, <3>2, Zenon DEF WalkScan, TypeOK, Calls
    <3>3. CASE ~Matches(call.i)
      BY <1>12, <3>1, <3>3, CallIndexType, Zenon DEF WalkScan, TypeOK
    <3> QED
      BY <3>2, <3>3, Zenon
  <2>2. CASE Matches(call.i)
    <3>1. call.i \in Slots
      BY <1>12, CapacityAssumption DEF WalkScan, TypeOK, Calls, Slots
    <3> QED
      BY <1>12, <2>1, <2>2, <3>1, DeleteType, Zenon DEF WalkScan, TypeOK, mvars
  <2>3. CASE ~Matches(call.i)
    BY <1>12, <2>1, <2>3, Zenon DEF WalkScan, TypeOK, mvars
  <2> QED
    BY <2>2, <2>3, Zenon
<1>13. CASE Return
  <2>1. LiveCidLens \in SUBSET Nat
    <3>1. ASSUME NEW p \in Slots, Used(sessions, p)
          PROVE  CidLenBit(sessions[p].key) \in SUBSET Nat
      BY <3>1, CidLenBitType, Zenon DEF Used, TypeOK, Session
    <3> QED
      BY <3>1, Zenon DEF LiveCidLens
  <2> QED
    BY <1>13, <2>1, IdleType, Zenon DEF Return, TypeOK, Idle, tvars, mvars
<1>14. CASE Tick
  BY <1>14 DEF Tick, TypeOK, tvars, mvars
<1>15. CASE UNCHANGED vars
  BY <1>15, Zenon DEF vars, TypeOK
<1> QED
  BY <1>1, <1>2, <1>5, <1>6, <1>7, <1>8, <1>9, <1>10, <1>11, <1>12, <1>13,
     <1>14, <1>15, Zenon DEF Next, Step, Call

\* The state of the table keeps its types through every call.
THEOREM TypeCorrect == Spec => []TypeOK
<1>1. Init => TypeOK
  BY CapacityAssumption, IdleType
     DEF Init, TypeOK, Slots, NoCursor, Idle
<1> QED
  BY <1>1, TypeStep, PTL DEF Spec

-----------------------------------------------------------------------------
(* The mask of connection-ID lengths *)

\* The inductive strengthening of MaskCoversLive: what the sweep has passed
\* is in the pending mask, which replaces the mask when the cycle ends.
\* Relocation may carry a session behind the sweep's cursor; it survives the
\* swap only because reinsertion sets its bit in the pending mask.
MaskInv ==
  \A p \in Slots : Used(sessions, p) =>
    /\ CidLenBit(sessions[p].key) \subseteq cid_len_mask
    /\ p < expire_cursor
         => CidLenBit(sessions[p].key) \subseteq cid_len_mask_pending

LEMMA MaskInvCovers == MaskInv => MaskCoversLive
BY Zenon DEF MaskInv, MaskCoversLive, LiveCidLens

\* A step that leaves the masks and the sweep alone, and whose used slots
\* hold keys they held before, keeps the strengthening.
LEMMA MaskQuiet ==
  ASSUME TypeOK, MaskInv, UNCHANGED <<mvars, expire_cursor>>,
         \A p \in Slots : Used(sessions', p) =>
           Used(sessions, p) /\ sessions'[p].key = sessions[p].key
  PROVE  MaskInv'
BY Zenon DEF MaskInv, mvars

\* Storing session s at slot p with its bit in both masks keeps it too.
LEMMA MaskStore ==
  ASSUME MaskInv, NEW p \in Slots, NEW s,
         \A q \in Slots : q # p /\ Used(sessions', q) =>
           Used(sessions, q) /\ sessions'[q] = sessions[q],
         sessions'[p] = s,
         cid_len_mask' = cid_len_mask \cup CidLenBit(s.key),
         cid_len_mask_pending' = cid_len_mask_pending \cup CidLenBit(s.key),
         UNCHANGED expire_cursor
  PROVE  MaskInv'
BY Zenon DEF MaskInv

LEMMA MaskStep == TypeOK /\ MaskInv /\ [Next]_vars => MaskInv'
<1> SUFFICES ASSUME TypeOK, MaskInv, [Next]_vars PROVE MaskInv'
  BY Zenon
<1>1. ASSUME NEW v \in Slots, TableDeleteAt(v), UNCHANGED <<mvars, expire_cursor>>
      PROVE  MaskInv'
  BY <1>1, MaskQuiet, Zenon DEF TableDeleteAt, Used, TypeOK
<1>2. ASSUME UNCHANGED <<sessions, mvars, expire_cursor>>
      PROVE  MaskInv'
  BY <1>2, Zenon DEF MaskInv, mvars
<1>3. CASE Reinsert
  <2> DEFINE saved == sessions[cursor]
             rest == [sessions EXCEPT ![cursor] = Unused]
             p == Probe(rest, saved.key)
  <2>1. cursor \in Slots /\ p \in Slots
    BY <1>3, ReinsertSlot, Zenon DEF Reinsert
  <2>2. sessions' = [rest EXCEPT ![p] = saved]
    BY <1>3, Zenon DEF Reinsert
  <2>3. DOMAIN rest = Slots
    BY Zenon DEF TypeOK
  <2>4. \A q \in Slots : Used(rest, q) => Used(sessions, q) /\ rest[q] = sessions[q]
    BY <2>1, Zenon DEF Used, TypeOK
  <2>5. sessions'[p] = saved /\ \A q \in Slots : q # p => sessions'[q] = rest[q]
    <3> HIDE DEF rest, p, saved
    <3> QED
      BY <2>1, <2>2, <2>3, Zenon
  <2>6. /\ cid_len_mask' = cid_len_mask \cup CidLenBit(saved.key)
        /\ cid_len_mask_pending' = cid_len_mask_pending \cup CidLenBit(saved.key)
        /\ UNCHANGED expire_cursor
    BY <1>3, Zenon DEF Reinsert
  <2> HIDE DEF rest, p, saved
  <2>7. \A q \in Slots : q # p /\ Used(sessions', q) =>
          Used(sessions, q) /\ sessions'[q] = sessions[q]
    BY <2>4, <2>5, Zenon DEF Used
  <2> QED
    BY <2>1, <2>5, <2>6, <2>7, MaskStore, Zenon
<1>4. ASSUME NEW s, NEW op, EvictFor(s, op), UNCHANGED expire_cursor
      PROVE  MaskInv'
  BY <1>1, <1>2, <1>4, Zenon DEF EvictFor, EvictOldest
<1>5. ASSUME NEW p \in Slots, NEW s \in Session,
             \/ /\ Used(sessions, p) /\ sessions[p].key = s.key
                /\ Update(p, s)
             \/ Insert(p, s),
             UNCHANGED expire_cursor
      PROVE  MaskInv'
  <2>1. CASE Insert(p, s)
    <3>1. sessions'[p] = s /\ \A q \in Slots : q # p => sessions'[q] = sessions[q]
      BY <2>1, Zenon DEF Insert, TypeOK
    <3> QED
      BY <1>5, <2>1, <3>1, MaskStore, Zenon DEF Insert, Used
  <2>2. CASE Used(sessions, p) /\ sessions[p].key = s.key /\ Update(p, s)
    <3>1. sessions'[p].key = s.key
          /\ \A q \in Slots : q # p => sessions'[q] = sessions[q]
      BY <2>2, Zenon DEF Update, TypeOK, Session
    <3> QED
      BY <1>5, <2>2, <3>1, MaskQuiet, Zenon DEF Update, Used
  <2> QED
    BY <1>5, <2>1, <2>2, Zenon

<1>6. ASSUME NEW k \in Keys, NEW b \in Backends, NEW o \in Owners, Put(k, b, o)
      PROVE  MaskInv'
  <2> DEFINE s == [key |-> k, backend |-> b, last_seen |-> now, owner |-> o]
  <2>1. s \in Session /\ s.key = k
    BY Zenon DEF Session, TypeOK
  <2> HIDE DEF s
  <2>2. CASE Probe(sessions, k) = NoSlot
    BY <1>4, <1>6, <2>2, Zenon DEF Put, s
  <2>3. CASE Probe(sessions, k) # NoSlot
    <3>1. /\ Probe(sessions, k) \in Slots
          /\ Used(sessions, Probe(sessions, k))
               => sessions[Probe(sessions, k)].key = k
      BY <2>3, PutSlot, Zenon DEF Stops
    <3> QED
      BY <1>4, <1>5, <1>6, <2>1, <2>3, <3>1, Zenon DEF Put, s
  <2> QED
    BY <2>2, <2>3, Zenon
<1>7. CASE PutPressure
  BY <1>4, <1>7, Zenon DEF PutPressure
<1>8. CASE PutRetry
  <2> DEFINE k == call.session.key
  <2>1. call.session \in Session /\ k \in Keys
    BY <1>8, Zenon DEF PutRetry, SecondWalk, TypeOK, Session
  <2>2. CASE Probe(sessions, k) = NoSlot
    BY <1>2, <1>8, <2>2, Zenon DEF PutRetry, SecondWalk, tvars
  <2>3. CASE Probe(sessions, k) # NoSlot
    <3>1. /\ Probe(sessions, k) \in Slots
          /\ Used(sessions, Probe(sessions, k))
               => sessions[Probe(sessions, k)].key = k
      BY <2>1, <2>3, PutSlot, Zenon DEF Stops
    <3> QED
      BY <1>5, <1>8, <2>1, <2>3, <3>1, Zenon DEF PutRetry, SecondWalk
  <2> QED
    BY <2>2, <2>3, Zenon
<1>9. ASSUME NEW keep \in BOOLEAN, ExpireScan(keep)
      PROVE  MaskInv'
  <2> DEFINE kept == [sessions EXCEPT ![expire_cursor].last_seen = now]
  <2>1. CASE IsIdle(expire_cursor) /\ ~keep
    BY <1>1, <1>9, <2>1, Zenon DEF ExpireScan, TypeOK
  <2>2. ASSUME NEW tbl, Advance(tbl), sessions' = tbl,
               \A p \in Slots : Used(tbl, p) =>
                 Used(sessions, p) /\ tbl[p].key = sessions[p].key
        PROVE  MaskInv'
    <3> SUFFICES ASSUME NEW p \in Slots, Used(sessions', p)
                 PROVE  /\ CidLenBit(sessions'[p].key) \subseteq cid_len_mask'
                        /\ p < expire_cursor'
                             => CidLenBit(sessions'[p].key)
                                  \subseteq cid_len_mask_pending'
      BY Zenon DEF MaskInv
    <3> DEFINE bits == CidLenBit(sessions'[p].key)
               pending == IF Used(tbl, expire_cursor)
                          THEN cid_len_mask_pending
                                 \cup CidLenBit(tbl[expire_cursor].key)
                          ELSE cid_len_mask_pending
    <3>1. Used(tbl, p) /\ bits = CidLenBit(tbl[p].key)
          /\ bits = CidLenBit(sessions[p].key) /\ Used(sessions, p)
      BY <2>2, Zenon
    <3>2. bits \subseteq cid_len_mask
          /\ (p < expire_cursor => bits \subseteq cid_len_mask_pending)
      BY <3>1, Zenon DEF MaskInv
    <3>3. p <= expire_cursor => bits \subseteq pending
      <4>1. CASE p = expire_cursor
        BY <3>1, <4>1, Zenon
      <4>2. CASE p < expire_cursor
        BY <3>2, <4>2, Zenon
      <4> QED
        BY <4>1, <4>2 DEF TypeOK, Slots
    <3> HIDE DEF bits, pending
    <3>4. CASE After(expire_cursor) = 0
      <4>1. cid_len_mask' = pending /\ expire_cursor' = 0
        BY <2>2, <3>4, Zenon DEF Advance, pending
      <4>2. p <= expire_cursor /\ ~(p < expire_cursor')
        BY <3>4, <4>1 DEF After, TypeOK, Slots
      <4> QED
        BY <3>3, <4>1, <4>2, Zenon DEF bits
    <3>5. CASE After(expire_cursor) # 0
      <4>1. /\ cid_len_mask' = cid_len_mask
            /\ cid_len_mask_pending' = pending
            /\ expire_cursor' = After(expire_cursor)
        BY <2>2, <3>5, Zenon DEF Advance, pending
      <4>2. p < expire_cursor' => p <= expire_cursor
        BY <3>5, <4>1 DEF After, TypeOK, Slots
      <4> QED
        BY <3>2, <3>3, <4>1, <4>2, Zenon DEF bits
    <3> QED
      BY <3>4, <3>5, Zenon
  <2>3. CASE IsIdle(expire_cursor) /\ keep
    <3>1. sessions' = kept /\ Advance(kept)
      BY <1>9, <2>3, Zenon DEF ExpireScan
    <3>2. \A p \in Slots : Used(kept, p) =>
            Used(sessions, p) /\ kept[p].key = sessions[p].key
      BY <2>3, Zenon DEF IsIdle, Used, TypeOK, Session
    <3> QED
      BY <2>2, <3>1, <3>2, Zenon
  <2>4. CASE ~IsIdle(expire_cursor)
    BY <1>9, <2>2, <2>4, Zenon DEF ExpireScan
  <2> QED
    BY <2>1, <2>3, <2>4, Zenon
<1>10. CASE WalkScan
  <2>1. call.i \in Slots
    BY <1>10, CapacityAssumption DEF WalkScan, TypeOK, Calls, Slots
  <2> QED
    BY <1>1, <1>2, <1>10, <2>1, Zenon DEF WalkScan
<1>11. CASE Return
  <2>1. CASE UNCHANGED mvars
    BY <1>2, <1>11, <2>1, Zenon DEF Return, tvars
  <2>2. CASE cid_len_mask' = LiveCidLens /\ cid_len_mask_pending' = LiveCidLens
    BY <1>11, <2>2, Zenon DEF Return, tvars, MaskInv, LiveCidLens
  <2> QED
    BY <1>11, <2>1, <2>2, Zenon DEF Return
<1>12. CASE \/ ReinsertDone \/ Tick \/ StartExpire \/ UNCHANGED vars
            \/ \E n \in 1 .. Capacity : StartExpireIncremental(n)
            \/ \E backends \in SUBSET Backends : StartEvictIf(backends)
  BY <1>2, <1>12, Zenon DEF ReinsertDone, Tick, StartExpire, StartExpireIncremental,
                     StartEvictIf, vars, tvars, mvars
<1> QED
  BY <1>3, <1>6, <1>7, <1>8, <1>9, <1>10, <1>11, <1>12, Zenon DEF Next, Step, Call

\* No lookup by connection-ID length can miss a stored alias: whatever the
\* capacity, the hash and the order of puts, evictions, sweeps and reloads,
\* cid_len_mask covers every stored connection ID.
THEOREM MaskTheorem == Spec => []MaskCoversLive
<1>1. Init => MaskInv
  BY Zenon DEF Init, MaskInv, Used
<1> QED
  BY <1>1, MaskStep, MaskInvCovers, TypeCorrect, PTL DEF Spec

-----------------------------------------------------------------------------
(* Probing *)

\* Every slot that the probe for the session at p passes is used.
Clear(tbl, p) ==
  \A q \in Slots :
    Dist(Home[tbl[p].key], q) < Dist(Home[tbl[p].key], p) => Used(tbl, q)

\* Slot p is in the unbroken run of used slots that starts at the cursor c of
\* a deletion: the sessions still to be reinserted.
InRun(tbl, c, p) ==
  /\ c # NoCursor
  /\ \A q \in Slots : Dist(c, q) <= Dist(c, p) => Used(tbl, q)

\* The inductive strengthening of ProbeIntegrity: a probe broken by a
\* deletion belongs to a session the deletion's loop has still to reinsert,
\* and no key is stored twice.
ProbeInv ==
  /\ \A p \in Slots :
       Used(sessions, p) => Clear(sessions, p) \/ InRun(sessions, cursor, p)
  /\ \A p, q \in Slots :
       Used(sessions, p) /\ Used(sessions, q) /\ sessions[p].key = sessions[q].key
         => p = q
  /\ call.op = "idle" => cursor = NoCursor

LEMMA HomeInSlots ==
  ASSUME TypeOK, NEW p \in Slots, Used(sessions, p)
  PROVE  sessions[p] \in Session /\ sessions[p].key \in Keys
         /\ Home[sessions[p].key] \in Slots
BY KeyAssumption, Zenon DEF TypeOK, Used, Session

LEMMA ProbeInvIntegrity == TypeOK /\ ProbeInv => ProbeIntegrity
<1> SUFFICES ASSUME TypeOK, ProbeInv, cursor = NoCursor,
                    NEW p \in Slots, Used(sessions, p)
             PROVE  Get(sessions, sessions[p].key) = p
  BY Zenon DEF ProbeIntegrity
<1> DEFINE k == sessions[p].key
           m == Probe(sessions, k)
<1>1. k \in Keys /\ Home[k] \in Slots
  BY HomeInSlots, Zenon
<1>2. p \in Stops(sessions, k)
  BY Zenon DEF Stops
<1>3. m \in Slots /\ m \in Stops(sessions, k)
      /\ Dist(Home[k], m) <= Dist(Home[k], p)
  BY <1>1, <1>2, ProbeStops, Zenon
<1>4. Clear(sessions, p)
  BY Zenon DEF ProbeInv, InRun
<1>5. m = p
  <2>1. CASE Dist(Home[k], m) = Dist(Home[k], p)
    BY <1>1, <1>3, <2>1, DistFacts, Zenon
  <2>2. CASE Dist(Home[k], m) < Dist(Home[k], p)
    <3>1. Used(sessions, m)
      BY <1>3, <1>4, <2>2, Zenon DEF Clear
    <3>2. sessions[m].key = k
      BY <1>3, <3>1, Zenon DEF Stops
    <3> QED
      BY <1>3, <3>1, <3>2, Zenon DEF ProbeInv
  <2>3. Dist(Home[k], m) \in Int /\ Dist(Home[k], p) \in Int
    BY <1>1, <1>3, DistFacts
  <2> QED
    BY <1>3, <2>1, <2>2, <2>3
<1>6. p # NoSlot
  BY CapacityAssumption DEF Slots, NoSlot
<1> QED
  BY <1>5, <1>6, Zenon DEF Get

\* Deleting at v, outside another deletion: the probes that crossed v belong
\* to the run behind it.
LEMMA ProbeDelete ==
  ASSUME TypeOK, ProbeInv, cursor = NoCursor, NEW v \in Slots,
         TableDeleteAt(v), call'.op # "idle"
  PROVE  ProbeInv'
<1>1. sessions' = [sessions EXCEPT ![v] = Unused] /\ cursor' = After(v)
  BY Zenon DEF TableDeleteAt
<1>2. /\ sessions'[v] = Unused
      /\ \A q \in Slots : q # v => sessions'[q] = sessions[q]
  BY <1>1, Zenon DEF TypeOK
<1>3. ASSUME NEW p \in Slots, Used(sessions', p)
      PROVE  Clear(sessions', p) \/ InRun(sessions', cursor', p)
  <2>1. p # v /\ sessions'[p] = sessions[p] /\ Used(sessions, p)
    BY <1>2, <1>3, Zenon DEF Used
  <2> DEFINE h == Home[sessions[p].key]
  <2>2. h \in Slots
    BY <2>1, HomeInSlots, Zenon
  <2>3. Clear(sessions, p)
    BY <2>1, Zenon DEF ProbeInv, InRun
  <2>4. CASE Dist(h, v) < Dist(h, p)
    <3>1. ASSUME NEW q \in Slots, Dist(After(v), q) <= Dist(After(v), p)
          PROVE  Used(sessions', q)
      <4>1. q # v /\ (q = p \/ Dist(h, q) < Dist(h, p))
        BY <2>2, <2>4, <3>1, BehindCrossing, Zenon
      <4>2. Used(sessions, q)
        BY <2>1, <2>3, <4>1, Zenon DEF Clear
      <4> QED
        BY <1>2, <4>1, <4>2, Zenon DEF Used
    <3>2. After(v) # NoCursor
      BY AfterInSlots, CapacityAssumption DEF Slots, NoCursor
    <3> QED
      BY <1>1, <3>1, <3>2, Zenon DEF InRun
  <2>5. CASE ~(Dist(h, v) < Dist(h, p))
    BY <1>2, <2>1, <2>3, <2>5, Zenon DEF Clear, Used
  <2> QED
    BY <2>4, <2>5, Zenon
<1>4. \A p, q \in Slots :
        Used(sessions', p) /\ Used(sessions', q)
          /\ sessions'[p].key = sessions'[q].key => p = q
  BY <1>2, Zenon DEF ProbeInv, Used
<1> QED
  BY <1>3, <1>4, Zenon DEF ProbeInv

\* Storing session s where the probe for its key stopped, at slot m of the
\* table rest that does not hold the key: the new session's probe is clear.
LEMMA StoredClear ==
  ASSUME NEW rest, NEW tbl, NEW s \in Session, NEW m \in Slots,
         \A q \in Stops(rest, s.key) : Dist(Home[s.key], m) <= Dist(Home[s.key], q),
         tbl[m] = s, \A q \in Slots : q # m => tbl[q] = rest[q]
  PROVE  Clear(tbl, m)
<1> SUFFICES ASSUME NEW q \in Slots, Dist(Home[s.key], q) < Dist(Home[s.key], m)
             PROVE  Used(tbl, q)
  BY Zenon DEF Clear
<1>1. s.key \in Keys /\ Home[s.key] \in Slots
  BY KeyAssumption, Zenon DEF Session
<1>2. Dist(Home[s.key], q) \in Int /\ Dist(Home[s.key], m) \in Int
  BY <1>1, DistFacts
<1>3. q \notin Stops(rest, s.key)
  BY <1>2
<1>4. Used(rest, q)
  BY <1>3, Zenon DEF Stops
<1>5. q # m
  BY <1>2
<1> QED
  BY <1>4, <1>5, Zenon DEF Used

LEMMA ProbeReinsert ==
  ASSUME TypeOK, ProbeInv, Reinsert
  PROVE  ProbeInv'
<1> DEFINE saved == sessions[cursor]
           rest == [sessions EXCEPT ![cursor] = Unused]
           m == Probe(rest, saved.key)
<1>1. /\ cursor \in Slots /\ saved \in Session /\ m \in Slots
      /\ m \in Stops(rest, saved.key)
      /\ \A q \in Stops(rest, saved.key) :
           Dist(Home[saved.key], m) <= Dist(Home[saved.key], q)
  BY ReinsertSlot, Zenon DEF Reinsert
<1>2. /\ rest[cursor] = Unused
      /\ \A q \in Slots : q # cursor => rest[q] = sessions[q]
  BY <1>1, Zenon DEF TypeOK
<1>3. /\ sessions'[m] = saved
      /\ \A q \in Slots : q # m => sessions'[q] = rest[q]
      /\ cursor' = After(cursor)
      /\ call' = call
  <2>1. sessions' = [rest EXCEPT ![m] = saved] /\ DOMAIN rest = Slots
    BY Zenon DEF Reinsert, TypeOK
  <2>2. cursor' = After(cursor) /\ call' = call
    BY Zenon DEF Reinsert
  <2> HIDE DEF rest, saved, m
  <2> QED
    BY <1>1, <2>1, <2>2, Zenon
<1>4. Used(sessions, cursor)
  BY Zenon DEF Reinsert
<1> HIDE DEF rest, saved, m
<1>5. rest[m] = Unused
  <2>1. CASE m = cursor
    BY <1>2, <2>1, Zenon
  <2>2. CASE m # cursor
    <3>1. rest[m] = sessions[m]
      BY <1>1, <1>2, <2>2, Zenon
    <3>2. ASSUME Used(rest, m) PROVE FALSE
      <4>1. Used(sessions, m) /\ sessions[m].key = saved.key
        BY <1>1, <3>1, <3>2, Zenon DEF Stops, Used
      <4> QED
        BY <1>1, <1>4, <2>2, <4>1, Zenon DEF ProbeInv, saved
    <3> QED
      BY <3>2, Zenon DEF Used
  <2> QED
    BY <2>1, <2>2, Zenon
<1>6. ASSUME NEW p \in Slots, Used(sessions', p)
      PROVE  Clear(sessions', p) \/ InRun(sessions', cursor', p)
  <2>1. CASE p = m
    BY <1>1, <1>3, <2>1, StoredClear, Zenon
  <2>2. CASE p # m
    <3>1. p # cursor /\ sessions'[p] = sessions[p] /\ Used(sessions, p)
      BY <1>2, <1>3, <1>6, <2>2 DEF Used
    <3> DEFINE h == Home[sessions[p].key]
    <3>2. h \in Slots
      BY <3>1, HomeInSlots, Zenon
    <3>3. \A q \in Slots : q # cursor /\ Used(sessions, q) => Used(sessions', q)
      BY <1>2, <1>3, <1>1, UnusedAssumption, Zenon DEF Used
    <3>4. After(cursor) # NoCursor
      BY <1>1, AfterInSlots, CapacityAssumption DEF Slots, NoCursor
    <3>5. CASE InRun(sessions, cursor, p)
      <4>1. ASSUME NEW q \in Slots,
                   Dist(After(cursor), q) <= Dist(After(cursor), p)
            PROVE  Used(sessions', q)
        <5>1. q # cursor /\ Dist(cursor, q) <= Dist(cursor, p)
          BY <1>1, <3>1, <4>1, BehindCursor, Zenon
        <5> QED
          BY <3>3, <3>5, <5>1, Zenon DEF InRun
      <4> QED
        BY <1>3, <3>4, <4>1, Zenon DEF InRun
    <3>6. CASE Clear(sessions, p) /\ Dist(h, cursor) < Dist(h, p)
      <4>1. ASSUME NEW q \in Slots,
                   Dist(After(cursor), q) <= Dist(After(cursor), p)
            PROVE  Used(sessions', q)
        <5>1. q # cursor /\ (q = p \/ Dist(h, q) < Dist(h, p))
          BY <1>1, <3>2, <3>6, <4>1, BehindCrossing, Zenon
        <5> QED
          BY <3>1, <3>3, <3>6, <5>1, Zenon DEF Clear
      <4> QED
        BY <1>3, <3>4, <4>1, Zenon DEF InRun
    <3>7. CASE Clear(sessions, p) /\ ~(Dist(h, cursor) < Dist(h, p))
      BY <3>1, <3>3, <3>7, Zenon DEF Clear
    <3> QED
      BY <3>1, <3>5, <3>6, <3>7, Zenon DEF ProbeInv
  <2> QED
    BY <2>1, <2>2, Zenon
<1>7. ASSUME NEW p \in Slots, NEW q \in Slots,
             Used(sessions', p), Used(sessions', q),
             sessions'[p].key = sessions'[q].key
      PROVE  p = q
  <2>1. \A r \in Slots : r # m /\ Used(sessions', r) =>
          r # cursor /\ sessions'[r] = sessions[r] /\ Used(sessions, r)
    BY <1>2, <1>3 DEF Used
  <2> QED
    BY <1>1, <1>3, <1>4, <1>7, <2>1, Zenon DEF ProbeInv, saved
<1>8. call.op # "idle"
  BY Zenon DEF Reinsert, ProbeInv
<1> QED
  BY <1>3, <1>6, <1>7, <1>8, Zenon DEF ProbeInv

LEMMA ProbeInsert ==
  ASSUME TypeOK, ProbeInv, cursor = NoCursor, NEW s \in Session,
         Probe(sessions, s.key) # NoSlot,
         ~Used(sessions, Probe(sessions, s.key)),
         Insert(Probe(sessions, s.key), s)
  PROVE  ProbeInv'
<1> DEFINE m == Probe(sessions, s.key)
<1>1. s.key \in Keys /\ Home[s.key] \in Slots
  BY KeyAssumption, Zenon DEF Session
<1>2. m \in Slots /\ \A q \in Stops(sessions, s.key) :
        Dist(Home[s.key], m) <= Dist(Home[s.key], q)
  BY <1>1, PutSlot, Zenon
<1>3. sessions'[m] = s /\ \A q \in Slots : q # m => sessions'[q] = sessions[q]
  BY <1>2, Zenon DEF Insert, TypeOK
<1>4. cursor' = NoCursor
  BY Zenon DEF Insert
<1>5. ~Used(sessions, m)
  BY Zenon
<1> HIDE DEF m
<1>6. ASSUME NEW p \in Slots, Used(sessions', p)
      PROVE  Clear(sessions', p)
  <2>1. CASE p = m
    BY <1>2, <1>3, <2>1, StoredClear, Zenon
  <2>2. CASE p # m
    <3>1. sessions'[p] = sessions[p] /\ Clear(sessions, p)
      BY <1>3, <1>6, <2>2, Zenon DEF ProbeInv, InRun, Used
    <3>2. \A q \in Slots : Used(sessions, q) => Used(sessions', q)
      BY <1>3, <1>5, Zenon DEF Used
    <3> QED
      BY <3>1, <3>2, Zenon DEF Clear
  <2> QED
    BY <2>1, <2>2, Zenon
<1>7. ASSUME NEW p \in Slots, Used(sessions, p), sessions[p].key = s.key
      PROVE  FALSE
  <2>1. Clear(sessions, p)
    BY <1>7, Zenon DEF ProbeInv, InRun
  <2>2. p \in Stops(sessions, s.key)
    BY <1>7, Zenon DEF Stops
  <2>3. Dist(Home[s.key], m) <= Dist(Home[s.key], p) /\ p # m
    BY <1>2, <1>5, <1>7, <2>2, Zenon
  <2>4. ~(Dist(Home[s.key], m) < Dist(Home[s.key], p))
    BY <1>2, <1>5, <1>7, <2>1, Zenon DEF Clear
  <2>5. Dist(Home[s.key], m) \in Int /\ Dist(Home[s.key], p) \in Int
    BY <1>1, <1>2, DistFacts
  <2> QED
    BY <1>1, <1>2, <2>3, <2>4, <2>5, DistFacts
<1>8. \A p, q \in Slots :
        Used(sessions', p) /\ Used(sessions', q)
          /\ sessions'[p].key = sessions'[q].key => p = q
  BY <1>3, <1>7, Zenon DEF ProbeInv, Used
<1> QED
  BY <1>4, <1>6, <1>8, Zenon DEF ProbeInv

\* A step that moves no session and changes no key, outside a deletion.
LEMMA ProbeQuiet ==
  ASSUME TypeOK, ProbeInv, UNCHANGED cursor, cursor = NoCursor,
         \A p \in Slots : Used(sessions', p) <=> Used(sessions, p),
         \A p \in Slots : Used(sessions, p) => sessions'[p].key = sessions[p].key
  PROVE  ProbeInv'
<1>1. ASSUME NEW p \in Slots, Used(sessions', p)
      PROVE  Clear(sessions', p)
  <2>1. Clear(sessions, p)
    BY <1>1, Zenon DEF ProbeInv, InRun
  <2> QED
    BY <1>1, <2>1, Zenon DEF Clear
<1> QED
  BY <1>1, Zenon DEF ProbeInv

LEMMA ProbeStep == TypeOK /\ ProbeInv /\ [Next]_vars => ProbeInv'
<1> SUFFICES ASSUME TypeOK, ProbeInv, [Next]_vars PROVE ProbeInv'
  BY Zenon
<1>1. ASSUME UNCHANGED <<sessions, cursor>>, cursor = NoCursor
      PROVE  ProbeInv'
  BY <1>1, ProbeQuiet, Zenon
<1>2. CASE ReinsertDone
  <2>1. ASSUME NEW p \in Slots PROVE ~InRun(sessions, cursor, p)
    <3>1. cursor \in Slots
      BY <1>2, CapacityAssumption DEF ReinsertDone, TypeOK, NoCursor, Slots
    <3>2. Dist(cursor, cursor) <= Dist(cursor, p)
      BY <3>1, DistFacts, CapacityAssumption
    <3> QED
      BY <1>2, <3>1, <3>2, Zenon DEF ReinsertDone, InRun
  <2> QED
    BY <1>2, <2>1, Zenon DEF ReinsertDone, ProbeInv
<1>3. ASSUME NEW s \in Session, NEW op \in {"pressure", "retry"},
             EvictFor(s, op), cursor = NoCursor
      PROVE  ProbeInv'
  <2>1. call'.op # "idle"
    BY <1>3, Zenon DEF EvictFor, Idle
  <2> QED
    BY <1>1, <1>3, <2>1, ProbeDelete, Zenon DEF EvictFor, EvictOldest
<1>4. ASSUME NEW s \in Session, Probe(sessions, s.key) # NoSlot,
             cursor = NoCursor,
             \/ /\ Used(sessions, Probe(sessions, s.key))
                /\ Update(Probe(sessions, s.key), s)
             \/ /\ ~Used(sessions, Probe(sessions, s.key))
                /\ Insert(Probe(sessions, s.key), s)
      PROVE  ProbeInv'
  <2> DEFINE m == Probe(sessions, s.key)
  <2>1. CASE ~Used(sessions, m) /\ Insert(m, s)
    BY <1>4, <2>1, ProbeInsert, Zenon
  <2>2. CASE Used(sessions, m) /\ Update(m, s)
    <3>1. s.key \in Keys
      BY Zenon DEF Session
    <3>2. m \in Slots /\ sessions[m].key = s.key
      BY <1>4, <2>2, <3>1, PutSlot, Zenon DEF Stops
    <3> HIDE DEF m
    <3> DEFINE t == [s EXCEPT !.owner = IF s.owner # 0 THEN s.owner
                                        ELSE sessions[m].owner]
    <3>3. t.key = s.key /\ t \in Session
      <4>1. sessions[m] \in Session
        BY <2>2, <3>2, Zenon DEF TypeOK, Used
      <4> QED
        BY <4>1, Zenon DEF Session
    <3>4. sessions'[m] = t /\ \A q \in Slots : q # m => sessions'[q] = sessions[q]
      BY <2>2, <3>2, Zenon DEF Update, TypeOK
    <3>5. t # Unused
      BY <3>3, UnusedAssumption, Zenon
    <3> HIDE DEF t
    <3>6. UNCHANGED cursor
      BY <2>2, Zenon DEF Update
    <3>7. \A p \in Slots : Used(sessions', p) <=> Used(sessions, p)
      BY <2>2, <3>4, <3>5, Zenon DEF Used
    <3>8. \A p \in Slots : Used(sessions, p) => sessions'[p].key = sessions[p].key
      BY <3>2, <3>3, <3>4, Zenon
    <3> QED
      BY <1>4, <3>6, <3>7, <3>8, ProbeQuiet, Zenon
  <2> QED
    BY <1>4, <2>1, <2>2, Zenon
<1>5. ASSUME NEW k \in Keys, NEW b \in Backends, NEW o \in Owners, Put(k, b, o)
      PROVE  ProbeInv'
  <2> DEFINE s == [key |-> k, backend |-> b, last_seen |-> now, owner |-> o]
  <2>1. s \in Session /\ s.key = k
    BY Zenon DEF Session, TypeOK
  <2>2. cursor = NoCursor
    BY <1>5, Zenon DEF Put, ProbeInv
  <2> HIDE DEF s
  <2>3. CASE Probe(sessions, k) = NoSlot
    BY <1>3, <1>5, <2>1, <2>2, <2>3, Zenon DEF Put, s
  <2>4. CASE Probe(sessions, k) # NoSlot
    BY <1>3, <1>4, <1>5, <2>1, <2>2, <2>4, Zenon DEF Put, s
  <2> QED
    BY <2>3, <2>4, Zenon
<1>6. CASE PutPressure
  BY <1>3, <1>6, Zenon DEF PutPressure, TypeOK
<1>7. CASE PutRetry
  <2>1. call.session \in Session
    BY <1>7, Zenon DEF PutRetry, SecondWalk, TypeOK
  <2>2. CASE Probe(sessions, call.session.key) = NoSlot
    BY <1>1, <1>7, <2>2, Zenon DEF PutRetry, SecondWalk, tvars
  <2>3. CASE Probe(sessions, call.session.key) # NoSlot
    BY <1>4, <1>7, <2>1, <2>3, Zenon DEF PutRetry, SecondWalk
  <2> QED
    BY <2>2, <2>3, Zenon
<1>8. ASSUME NEW keep \in BOOLEAN, ExpireScan(keep)
      PROVE  ProbeInv'
  <2> DEFINE kept == [sessions EXCEPT ![expire_cursor].last_seen = now]
  <2>1. expire_cursor \in Slots /\ cursor = NoCursor
        /\ call'.op = "expire_incremental"
    BY <1>8, Zenon DEF ExpireScan, TypeOK, Calls
  <2>2. CASE IsIdle(expire_cursor) /\ ~keep
    BY <1>8, <2>1, <2>2, ProbeDelete, Zenon DEF ExpireScan
  <2>3. CASE IsIdle(expire_cursor) /\ keep
    <3>1. sessions[expire_cursor] \in Session
      BY <2>1, <2>3, Zenon DEF IsIdle, Used, TypeOK
    <3>2. /\ kept[expire_cursor].key = sessions[expire_cursor].key
          /\ kept[expire_cursor] \in Session
          /\ \A q \in Slots : q # expire_cursor => kept[q] = sessions[q]
      BY <2>1, <3>1, Zenon DEF TypeOK, Session
    <3>3. sessions' = kept /\ UNCHANGED cursor
      BY <1>8, <2>3, Zenon DEF ExpireScan
    <3> HIDE DEF kept
    <3>4. \A p \in Slots : Used(sessions', p) <=> Used(sessions, p)
      BY <3>1, <3>2, <3>3, UnusedAssumption, Zenon DEF Used
    <3>5. \A p \in Slots : Used(sessions, p) => sessions'[p].key = sessions[p].key
      BY <3>2, <3>3, Zenon
    <3> QED
      BY <2>1, <3>3, <3>4, <3>5, ProbeQuiet, Zenon
  <2>4. CASE ~IsIdle(expire_cursor)
    BY <1>1, <1>8, <2>1, <2>4, Zenon DEF ExpireScan
  <2> QED
    BY <2>2, <2>3, <2>4, Zenon
<1>9. CASE WalkScan
  <2>1. call.i \in Slots /\ cursor = NoCursor /\ call'.op # "idle"
    BY <1>9, CapacityAssumption DEF WalkScan, TypeOK, Calls, Slots
  <2> QED
    BY <1>1, <1>9, <2>1, ProbeDelete, Zenon DEF WalkScan
<1>10. CASE \/ Return \/ Tick \/ StartExpire
            \/ \E n \in 1 .. Capacity : StartExpireIncremental(n)
            \/ \E backends \in SUBSET Backends : StartEvictIf(backends)
  BY <1>1, <1>10, Zenon DEF Return, Tick, StartExpire, StartExpireIncremental,
                     StartEvictIf, tvars, ProbeInv
<1>11. CASE UNCHANGED vars
  BY <1>11, Zenon DEF vars, ProbeInv
<1> QED
  BY <1>2, <1>5, <1>6, <1>7, <1>8, <1>9, <1>10, <1>11, ProbeReinsert, Zenon
     DEF Next, Step, Call

\* Lookups are exact for every capacity and hash: after any sequence of puts,
\* evictions, sweeps and reloads, get finds each stored session in its slot.
THEOREM ProbeTheorem == Spec => []ProbeIntegrity
<1>1. Init => ProbeInv
  BY Zenon DEF Init, ProbeInv, Used
<1> QED
  BY <1>1, ProbeStep, ProbeInvIntegrity, TypeCorrect, PTL DEF Spec

-----------------------------------------------------------------------------
(* The count, and room for the second walk *)

UsedSlots(tbl) == {p \in Slots : Used(tbl, p)}

\* The ways a step changes the array: a session is deleted, stored where its
\* probe stopped, or rewritten in its slot.
Deletes(v) == Used(sessions, v) /\ TableDeleteAt(v)
Stores(p, s) ==
  /\ cursor = NoCursor
  /\ p = Probe(sessions, s.key)
  /\ ~Used(sessions, p)
  /\ Insert(p, s)
Rewrites(p, s) ==
  /\ Used(sessions, p)
  /\ s.key = sessions[p].key
  /\ sessions' = [sessions EXCEPT ![p] = s]
  /\ UNCHANGED <<count, cursor>>

LEMMA EvictEffect ==
  ASSUME EvictOldest
  PROVE  \/ UNCHANGED <<sessions, count, cursor>> /\ (count = 0 \/ EvictWindow = {})
         \/ \E v \in Slots : IsVictim(v) /\ Deletes(v)
BY Zenon DEF EvictOldest, IsVictim, EvictWindow, Deletes

\* What a walk that found a slot does to the array.
LEMMA StoreEffect ==
  ASSUME TypeOK, cursor = NoCursor, NEW s \in Session,
         Probe(sessions, s.key) # NoSlot,
         \/ /\ Used(sessions, Probe(sessions, s.key))
            /\ Update(Probe(sessions, s.key), s)
         \/ /\ ~Used(sessions, Probe(sessions, s.key))
            /\ Insert(Probe(sessions, s.key), s)
  PROVE  \/ \E p \in Slots : Stores(p, s)
         \/ \E p \in Slots : \E t \in Session :
              /\ Rewrites(p, t)
              /\ t = [s EXCEPT !.owner = IF s.owner # 0 THEN s.owner
                                         ELSE sessions[p].owner]
<1> DEFINE m == Probe(sessions, s.key)
<1>1. m \in Slots /\ m \in Stops(sessions, s.key)
  BY PutSlot, Zenon DEF Session
<1>2. CASE ~Used(sessions, m) /\ Insert(m, s)
  BY <1>1, <1>2, Zenon DEF Stores
<1>3. CASE Used(sessions, m) /\ Update(m, s)
  <2> HIDE DEF m
  <2> DEFINE t == [s EXCEPT !.owner = IF s.owner # 0 THEN s.owner
                                      ELSE sessions[m].owner]
  <2>1. sessions[m] \in Session /\ sessions[m].key = s.key
    BY <1>1, <1>3, Zenon DEF TypeOK, Used, Stops
  <2>2. t \in Session /\ t.key = s.key
    BY <2>1, Zenon DEF Session
  <2>3. sessions' = [sessions EXCEPT ![m] = t] /\ UNCHANGED <<count, cursor>>
    BY <1>3, Zenon DEF Update
  <2>4. Rewrites(m, t)
    BY <1>3, <2>1, <2>2, <2>3, Zenon DEF Rewrites
  <2> QED
    BY <1>1, <2>2, <2>4, Zenon
<1> QED
  BY <1>2, <1>3, Zenon

\* Every step leaves the array and the count alone or changes them in one of
\* these ways.
LEMMA Effects ==
  ASSUME TypeOK, ProbeInv, [Next]_vars
  PROVE  \/ UNCHANGED <<sessions, count>>
         \/ Reinsert
         \/ \E v \in Slots : Deletes(v)
         \/ \E p \in Slots : \E s \in Session : Stores(p, s)
         \/ \E p \in Slots : \E s \in Session : Rewrites(p, s)
<1>1. ASSUME NEW s \in Session, NEW op, EvictFor(s, op)
      PROVE  \/ UNCHANGED <<sessions, count>>
             \/ \E v \in Slots : Deletes(v)
  BY <1>1, EvictEffect, Zenon DEF EvictFor
<1>2. ASSUME NEW k \in Keys, NEW b \in Backends, NEW o \in Owners, Put(k, b, o)
      PROVE  \/ UNCHANGED <<sessions, count>>
             \/ \E v \in Slots : Deletes(v)
             \/ \E p \in Slots : \E s \in Session : Stores(p, s)
             \/ \E p \in Slots : \E s \in Session : Rewrites(p, s)
  <2> DEFINE s == [key |-> k, backend |-> b, last_seen |-> now, owner |-> o]
  <2>1. s \in Session /\ s.key = k
    BY Zenon DEF Session, TypeOK
  <2>2. \/ Probe(sessions, k) = NoSlot /\ EvictFor(s, "retry")
        \/ Probe(sessions, k) # NoSlot /\ EvictFor(s, "pressure")
        \/ /\ Probe(sessions, k) # NoSlot
           /\ \/ /\ Used(sessions, Probe(sessions, k))
                 /\ Update(Probe(sessions, k), s)
              \/ /\ ~Used(sessions, Probe(sessions, k))
                 /\ Insert(Probe(sessions, k), s)
    BY <1>2, Zenon DEF Put
  <2> HIDE DEF s
  <2>3. CASE EvictFor(s, "retry") \/ EvictFor(s, "pressure")
    BY <1>1, <2>1, <2>3, Zenon
  <2>4. CASE /\ Probe(sessions, k) # NoSlot
             /\ \/ /\ Used(sessions, Probe(sessions, k))
                   /\ Update(Probe(sessions, k), s)
                \/ /\ ~Used(sessions, Probe(sessions, k))
                   /\ Insert(Probe(sessions, k), s)
    <3>1. cursor = NoCursor
      BY <1>2, Zenon DEF Put, ProbeInv
    <3> QED
      BY <2>1, <2>4, <3>1, StoreEffect, Zenon
  <2> QED
    BY <2>2, <2>3, <2>4, Zenon
<1>3. CASE PutPressure
  BY <1>1, <1>3, Zenon DEF PutPressure, TypeOK
<1>4. CASE PutRetry
  <2>1. call.session \in Session
    BY <1>4, Zenon DEF PutRetry, SecondWalk, TypeOK
  <2>2. CASE Probe(sessions, call.session.key) = NoSlot
    BY <1>4, <2>2, Zenon DEF PutRetry, SecondWalk, tvars
  <2>3. CASE Probe(sessions, call.session.key) # NoSlot
    BY <1>4, <2>1, <2>3, StoreEffect, Zenon DEF PutRetry, SecondWalk
  <2> QED
    BY <2>2, <2>3, Zenon
<1>5. ASSUME NEW keep \in BOOLEAN, ExpireScan(keep)
      PROVE  \/ UNCHANGED <<sessions, count>>
             \/ \E v \in Slots : Deletes(v)
             \/ \E p \in Slots : \E s \in Session : Rewrites(p, s)
  <2> DEFINE e == sessions[expire_cursor]
             s == [e EXCEPT !.last_seen = now]
  <2>1. expire_cursor \in Slots
    BY Zenon DEF TypeOK
  <2>2. CASE IsIdle(expire_cursor) /\ ~keep
    BY <1>5, <2>1, <2>2, Zenon DEF ExpireScan, IsIdle, Deletes
  <2>3. CASE IsIdle(expire_cursor) /\ keep
    <3>1. Used(sessions, expire_cursor) /\ e \in Session
      BY <2>1, <2>3, Zenon DEF IsIdle, Used, TypeOK
    <3>2. s \in Session /\ s.key = e.key
      BY <3>1, Zenon DEF TypeOK, Session
    <3>3. sessions' = [sessions EXCEPT ![expire_cursor] = s]
          /\ UNCHANGED <<count, cursor>>
      BY <1>5, <2>3, Zenon DEF ExpireScan
    <3>4. Rewrites(expire_cursor, s)
      BY <3>1, <3>2, <3>3, Zenon DEF Rewrites
    <3> QED
      BY <2>1, <3>2, <3>4, Zenon
  <2>4. CASE ~IsIdle(expire_cursor)
    BY <1>5, <2>4, Zenon DEF ExpireScan
  <2> QED
    BY <2>2, <2>3, <2>4, Zenon
<1>6. CASE WalkScan
  <2>1. call.i \in Slots
    BY <1>6, CapacityAssumption DEF WalkScan, TypeOK, Calls, Slots
  <2> QED
    BY <1>6, <2>1, Zenon DEF WalkScan, Matches, IsIdle, Deletes
<1>7. CASE \/ ReinsertDone \/ Return \/ Tick \/ StartExpire
           \/ \E n \in 1 .. Capacity : StartExpireIncremental(n)
           \/ \E backends \in SUBSET Backends : StartEvictIf(backends)
           \/ UNCHANGED vars
  BY <1>7, Zenon DEF ReinsertDone, Return, Tick, StartExpire, StartExpireIncremental,
              StartEvictIf, tvars, vars
<1> QED
  BY <1>2, <1>3, <1>4, <1>5, <1>6, <1>7, Zenon DEF Next, Step, Call

LEMMA UsedSlotsFinite ==
  /\ IsFiniteSet(Slots) /\ Cardinality(Slots) = Capacity
  /\ \A tbl : IsFiniteSet(UsedSlots(tbl)) /\ Cardinality(UsedSlots(tbl)) \in Nat
<1>1. IsFiniteSet(Slots) /\ Cardinality(Slots) = Capacity
  <2>1. 0 \in Int /\ Capacity - 1 \in Int /\ ~(0 > Capacity - 1)
    BY CapacityAssumption
  <2>2. /\ IsFiniteSet(0 .. Capacity - 1)
        /\ Cardinality(0 .. Capacity - 1) = (Capacity - 1) - 0 + 1
    BY <2>1, FS_Interval, Zenon
  <2> QED
    BY <2>2, CapacityAssumption DEF Slots
<1>2. ASSUME NEW tbl PROVE IsFiniteSet(UsedSlots(tbl))
  <2>1. UsedSlots(tbl) \in SUBSET Slots
    BY Zenon DEF UsedSlots
  <2> QED
    BY <1>1, <2>1, FS_Subset, Zenon
<1> QED
  BY <1>1, <1>2, FS_CardinalityType, Zenon

\* A reinsertion frees the cursor's slot and fills a free one.
LEMMA ReinsertMoves ==
  ASSUME TypeOK, ProbeInv, Reinsert
  PROVE  LET saved == sessions[cursor]
             m == Probe([sessions EXCEPT ![cursor] = Unused], saved.key)
         IN /\ cursor \in Slots /\ m \in Slots
            /\ saved \in Session
            /\ m = cursor \/ ~Used(sessions, m)
            /\ sessions' = [[sessions EXCEPT ![cursor] = Unused]
                              EXCEPT ![m] = saved]
<1> DEFINE saved == sessions[cursor]
           rest == [sessions EXCEPT ![cursor] = Unused]
           m == Probe(rest, saved.key)
<1>1. /\ cursor \in Slots /\ saved \in Session /\ m \in Slots
      /\ m \in Stops(rest, saved.key)
  BY ReinsertSlot, Zenon DEF Reinsert
<1>2. sessions' = [rest EXCEPT ![m] = saved] /\ Used(sessions, cursor)
  BY Zenon DEF Reinsert
<1>3. ASSUME m # cursor, Used(sessions, m) PROVE FALSE
  <2> HIDE DEF m
  <2>1. rest[m] = sessions[m]
    BY <1>1, <1>3, Zenon DEF TypeOK
  <2> HIDE DEF rest
  <2>2. sessions[m].key = saved.key
    BY <1>1, <1>3, <2>1, Zenon DEF Stops, Used
  <2> QED
    BY <1>1, <1>2, <1>3, <2>2, Zenon DEF ProbeInv
<1> QED
  BY <1>1, <1>2, <1>3, Zenon

LEMMA CountStep ==
  ASSUME TypeOK, ProbeInv, CountMatches, [Next]_vars
  PROVE  CountMatches'
<1> DEFINE U == UsedSlots(sessions)
<1>1. IsFiniteSet(U) /\ Cardinality(U) \in Nat /\ count = Cardinality(U)
  BY UsedSlotsFinite, Zenon DEF CountMatches, UsedSlots
<1>2. SUFFICES count' = Cardinality(UsedSlots(sessions'))
  BY Zenon DEF CountMatches, UsedSlots
<1>3. CASE UNCHANGED <<sessions, count>>
  BY <1>1, <1>3, Zenon
<1>4. ASSUME NEW v \in Slots, Deletes(v) PROVE count' = Cardinality(UsedSlots(sessions'))
  <2>1. UsedSlots(sessions') = U \ {v} /\ v \in U
    BY <1>4, Zenon DEF Deletes, TableDeleteAt, UsedSlots, Used, TypeOK
  <2>2. count' = count - 1
    BY <1>4, Zenon DEF Deletes, TableDeleteAt
  <2> QED
    BY <1>1, <2>1, <2>2, FS_RemoveElement, Zenon
<1>5. ASSUME NEW p \in Slots, NEW s \in Session, Stores(p, s)
      PROVE  count' = Cardinality(UsedSlots(sessions'))
  <2>1. sessions' = [sessions EXCEPT ![p] = s] /\ count' = count + 1
        /\ ~Used(sessions, p)
    BY <1>5, Zenon DEF Stores, Insert
  <2>2. UsedSlots(sessions') = U \cup {p} /\ p \notin U
    BY <2>1, UnusedAssumption, Zenon DEF UsedSlots, Used, TypeOK
  <2> QED
    BY <1>1, <2>1, <2>2, FS_AddElement, Zenon
<1>6. ASSUME NEW p \in Slots, NEW s \in Session, Rewrites(p, s)
      PROVE  count' = Cardinality(UsedSlots(sessions'))
  <2>1. sessions' = [sessions EXCEPT ![p] = s] /\ count' = count
        /\ Used(sessions, p)
    BY <1>6, Zenon DEF Rewrites
  <2>2. UsedSlots(sessions') = U
    BY <2>1, UnusedAssumption, Zenon DEF UsedSlots, Used, TypeOK
  <2> QED
    BY <1>1, <2>1, <2>2, Zenon
<1>7. CASE Reinsert
  <2>1. PICK m \in Slots, saved \in Session :
          /\ cursor \in Slots
          /\ m = cursor \/ ~Used(sessions, m)
          /\ sessions' = [[sessions EXCEPT ![cursor] = Unused] EXCEPT ![m] = saved]
    BY <1>7, ReinsertMoves, Zenon
  <2>2. count' = count /\ Used(sessions, cursor)
    BY <1>7, Zenon DEF Reinsert
  <2>3. UsedSlots(sessions') = (U \ {cursor}) \cup {m}
    BY <2>1, <2>2, UnusedAssumption, Zenon DEF UsedSlots, Used, TypeOK
  <2>4. cursor \in U /\ m \notin U \ {cursor}
    BY <2>1, <2>2, Zenon DEF UsedSlots
  <2>5. IsFiniteSet(U \ {cursor}) /\ Cardinality(U \ {cursor}) = Cardinality(U) - 1
    BY <1>1, <2>4, FS_RemoveElement, Zenon
  <2>6. Cardinality((U \ {cursor}) \cup {m}) = Cardinality(U \ {cursor}) + 1
    BY <2>4, <2>5, FS_AddElement, Zenon
  <2> HIDE DEF U
  <2> QED
    BY <1>1, <2>2, <2>3, <2>5, <2>6
<1> QED
  BY <1>3, <1>4, <1>5, <1>6, <1>7, Effects, Zenon

\* table->count is exact for every capacity and hash, although a deletion
\* counts one session down and its loop counts each relocated one out and in:
\* the pressure check and evict_oldest's early return see the real load.
THEOREM CountTheorem == Spec => []CountMatches
<1>1. Init => CountMatches
  <2> SUFFICES ASSUME Init PROVE count = Cardinality({p \in Slots : Used(sessions, p)})
    BY Zenon DEF CountMatches
  <2>1. {p \in Slots : Used(sessions, p)} = {}
    BY Zenon DEF Init, Used
  <2> QED
    BY <2>1, FS_EmptySet, Zenon DEF Init
<1>2. Init => ProbeInv
  BY Zenon DEF Init, ProbeInv, Used
<1>3. TypeOK /\ ProbeInv /\ CountMatches /\ [Next]_vars => CountMatches'
  BY CountStep, Zenon
<1> QED
  BY <1>1, <1>2, <1>3, ProbeStep, TypeCorrect, PTL DEF Spec

\* Some slot is free.
HasRoom == \E p \in Slots : ~Used(sessions, p)

\* The inductive strengthening of RetryFindsSlot: between a put's first walk
\* and its second, whatever the deletions in between move, a slot is free.
RoomInv == call.op \in {"pressure", "retry"} => HasRoom

\* A full table has a victim in every eviction window.
LEMMA FullEvicts ==
  ASSUME TypeOK, CountMatches, EvictOldest, ~HasRoom
  PROVE  \E v \in Slots : Deletes(v)
<1>1. UsedSlots(sessions) = Slots
  BY Zenon DEF HasRoom, UsedSlots
<1>2. count # 0
  BY <1>1, UsedSlotsFinite, CapacityAssumption, Zenon DEF CountMatches, UsedSlots
<1>3. evict_cursor \in EvictWindow
  <2>1. evict_cursor \in Slots /\ Used(sessions, evict_cursor)
    BY Zenon DEF TypeOK, HasRoom
  <2>2. Dist(evict_cursor, evict_cursor) = 0 /\ 0 < EvictScans
    BY <2>1, DistFacts, CapacityAssumption, BudgetAssumption DEF EvictScans
  <2> QED
    BY <2>1, <2>2, Zenon DEF EvictWindow
<1> QED
  BY <1>2, <1>3, EvictEffect, Zenon

LEMMA RoomKept ==
  ASSUME TypeOK, ProbeInv, HasRoom,
         \/ UNCHANGED sessions \/ Reinsert \/ \E v \in Slots : Deletes(v)
  PROVE  HasRoom'
<1>1. CASE UNCHANGED sessions
  BY <1>1, Zenon DEF HasRoom
<1>2. CASE \E v \in Slots : Deletes(v)
  BY <1>2, Zenon DEF HasRoom, Deletes, TableDeleteAt, TypeOK, Used
<1>3. CASE Reinsert
  <2>1. PICK m \in Slots, saved \in Session :
          /\ cursor \in Slots
          /\ m = cursor \/ ~Used(sessions, m)
          /\ sessions' = [[sessions EXCEPT ![cursor] = Unused] EXCEPT ![m] = saved]
    BY <1>3, ReinsertMoves, Zenon
  <2>2. PICK p \in Slots : ~Used(sessions, p)
    BY Zenon DEF HasRoom
  <2>3. Used(sessions, cursor)
    BY <1>3, Zenon DEF Reinsert
  <2>4. CASE m = cursor
    BY <2>1, <2>2, <2>3, <2>4, Zenon DEF HasRoom, Used, TypeOK
  <2>5. CASE m # cursor
    BY <2>1, <2>5, Zenon DEF HasRoom, Used, TypeOK
  <2> QED
    BY <2>4, <2>5, Zenon
<1> QED
  BY <1>1, <1>2, <1>3, Zenon

LEMMA RoomStep ==
  ASSUME TypeOK, ProbeInv, CountMatches, RoomInv, [Next]_vars
  PROVE  RoomInv'
<1>1. CASE Reinsert
  BY <1>1, RoomKept, Zenon DEF Reinsert, RoomInv
<1>2. ASSUME NEW s, NEW op, EvictFor(s, op) PROVE HasRoom'
  <2>1. EvictOldest
    BY <1>2, Zenon DEF EvictFor
  <2>2. CASE HasRoom
    BY <2>1, <2>2, EvictEffect, RoomKept, Zenon
  <2>3. CASE ~HasRoom
    BY <2>1, <2>3, FullEvicts, Zenon DEF HasRoom, Deletes, TableDeleteAt, TypeOK, Used
  <2> QED
    BY <2>2, <2>3, Zenon
<1>3. ASSUME NEW k \in Keys, NEW b \in Backends, NEW o \in Owners, Put(k, b, o)
      PROVE  RoomInv'
  <2>1. call' = Idle \/ HasRoom'
    BY <1>2, <1>3, Zenon DEF Put, Update, Insert
  <2> QED
    BY <2>1, IdleType, Zenon DEF RoomInv
<1>4. CASE PutPressure
  BY <1>2, <1>4, Zenon DEF PutPressure, RoomInv
<1>5. CASE PutRetry
  <2>1. call' = Idle
    BY <1>5, Zenon DEF PutRetry, SecondWalk, Update, Insert
  <2> QED
    BY <2>1, IdleType, Zenon DEF RoomInv
<1>6. CASE \/ \E keep \in BOOLEAN : ExpireScan(keep)
           \/ WalkScan
  <2>1. call'.op = call.op /\ call.op \notin {"pressure", "retry"}
    BY <1>6, Zenon DEF ExpireScan, WalkScan, TypeOK, Calls
  <2> QED
    BY <2>1, Zenon DEF RoomInv
<1>7. CASE \/ Return \/ StartExpire
           \/ \E n \in 1 .. Capacity : StartExpireIncremental(n)
           \/ \E backends \in SUBSET Backends : StartEvictIf(backends)
  <2>1. call'.op \in {"idle", "expire", "expire_incremental", "evict_if"}
    <3>1. CASE Return \/ StartExpire
      BY <3>1 DEF Return, StartExpire, Idle
    <3>2. ASSUME NEW n \in 1 .. Capacity, StartExpireIncremental(n)
          PROVE  call'.op = "expire_incremental"
      BY <3>2, Zenon DEF StartExpireIncremental, Idle
    <3>3. ASSUME NEW backends \in SUBSET Backends, StartEvictIf(backends)
          PROVE  call'.op = "evict_if"
      BY <3>3, Zenon DEF StartEvictIf, Idle
    <3> QED
      BY <1>7, <3>1, <3>2, <3>3, Zenon
  <2> QED
    BY <2>1, Zenon DEF RoomInv
<1>8. CASE ReinsertDone \/ Tick \/ UNCHANGED vars
  <2>1. UNCHANGED <<sessions, call>>
    BY <1>8, Zenon DEF ReinsertDone, Tick, tvars, vars
  <2> QED
    BY <2>1, RoomKept, Zenon DEF RoomInv
<1> QED
  BY <1>1, <1>3, <1>4, <1>5, <1>6, <1>7, <1>8, Zenon DEF Next, Step, Call

LEMMA RoomFindsSlot ==
  ASSUME TypeOK, RoomInv
  PROVE  RetryFindsSlot
<1> SUFFICES ASSUME call.op = "retry"
             PROVE  Probe(sessions, call.session.key) # NoSlot
  BY Zenon DEF RetryFindsSlot
<1>1. call.session.key \in Keys
  BY Zenon DEF TypeOK, Session
<1>2. Stops(sessions, call.session.key) # {}
  BY Zenon DEF RoomInv, HasRoom, Stops
<1> QED
  BY <1>1, <1>2, ProbeStops, CapacityAssumption DEF Slots, NoSlot

\* The second walk of a put finds a slot in a table of any size, full or under
\* pressure: qsr_session_table_put never returns QSR_ERR_FULL.
THEOREM RetryTheorem == Spec => []RetryFindsSlot
<1>1. Init => ProbeInv /\ RoomInv
  BY IdleType, Zenon DEF Init, ProbeInv, RoomInv, Used
<1>2. TypeOK /\ ProbeInv /\ CountMatches /\ RoomInv /\ [Next]_vars => RoomInv'
  BY RoomStep, Zenon
<1>3. TypeOK /\ RoomInv => RetryFindsSlot
  BY RoomFindsSlot, Zenon
<1> QED
  BY <1>1, <1>2, <1>3, ProbeStep, TypeCorrect, CountTheorem, PTL DEF Spec

\* The inductive strengthening of PressureKeepsRoom: a second walk has two
\* free slots to choose from.
PressureInv ==
  Capacity >= PressureMinCapacity =>
    /\ count < Capacity
    /\ call.op \in {"pressure", "retry"} => count <= Capacity - 2

\* An eviction from a table with a free slot leaves two: it removes a session,
\* or the two slots it looked at first were free.
LEMMA EvictLeavesTwo ==
  ASSUME TypeOK, CountMatches, EvictOldest, count < Capacity,
         Capacity >= 2, EvictScanBudget >= 2
  PROVE  count' <= Capacity - 2
<1>1. count \in Int /\ Capacity \in Int
  BY CapacityAssumption DEF TypeOK
<1>2. ASSUME NEW v \in Slots, Deletes(v) PROVE count' <= Capacity - 2
  BY <1>1, <1>2 DEF Deletes, TableDeleteAt
<1>3. CASE count' = count /\ count = 0
  BY <1>1, <1>3
<1>4. CASE count' = count /\ EvictWindow = {}
  <2> DEFINE a == evict_cursor
             b == After(evict_cursor)
  <2>1. a \in Slots /\ b \in Slots /\ a # b
    BY AfterInSlots, CapacityAssumption DEF TypeOK, After, Slots
  <2>2. Dist(a, a) < EvictScans /\ Dist(a, b) < EvictScans
    BY <2>1, CapacityAssumption, BudgetAssumption
       DEF Dist, After, Slots, EvictScans
  <2>3. ~Used(sessions, a) /\ ~Used(sessions, b)
    BY <1>4, <2>1, <2>2, Zenon DEF EvictWindow
  <2> HIDE DEF a, b
  <2> DEFINE U == UsedSlots(sessions)
             R == (Slots \ {a}) \ {b}
  <2>4. IsFiniteSet(Slots \ {a}) /\ Cardinality(Slots \ {a}) = Capacity - 1
    BY <2>1, UsedSlotsFinite, FS_RemoveElement, Zenon
  <2>5. IsFiniteSet(R) /\ Cardinality(R) = Capacity - 1 - 1
    BY <2>1, <2>4, FS_RemoveElement, Zenon
  <2>6. U \in SUBSET R
    BY <2>3, Zenon DEF UsedSlots
  <2>7. count = Cardinality(U)
    BY Zenon DEF CountMatches, UsedSlots
  <2> HIDE DEF U, R
  <2>8. Cardinality(U) <= Cardinality(R)
    BY <2>5, <2>6, FS_Subset, Zenon
  <2> QED
    BY <1>1, <1>4, <2>5, <2>7, <2>8
<1> QED
  BY <1>2, <1>3, <1>4, EvictEffect, Zenon

LEMMA PressureStep ==
  ASSUME Capacity >= 2, EvictScanBudget >= 2,
         Capacity * PressureLoadPercent <= (Capacity - 1) * 100,
         TypeOK, CountMatches, PressureInv, [Next]_vars
  PROVE  PressureInv'
<1> SUFFICES ASSUME Capacity >= PressureMinCapacity
             PROVE  /\ count' < Capacity
                    /\ call'.op \in {"pressure", "retry"} => count' <= Capacity - 2
  BY Zenon DEF PressureInv
<1>1. /\ count \in Int /\ Capacity \in Int /\ count < Capacity
      /\ call.op \in {"pressure", "retry"} => count <= Capacity - 2
  BY CapacityAssumption DEF TypeOK, PressureInv
<1>2. Idle.op = "idle"
  BY Zenon DEF Idle
<1>3. ASSUME NEW s, NEW op, EvictFor(s, op) PROVE count' <= Capacity - 2
  BY <1>1, <1>3, EvictLeavesTwo, Zenon DEF EvictFor
<1>4. ASSUME count' \in Int, count' <= Capacity - 2 PROVE count' < Capacity
  BY <1>1, <1>4
<1>5. count' \in Int
  BY TypeStep, Zenon DEF TypeOK
<1>6. ASSUME NEW k \in Keys, NEW b \in Backends, NEW o \in Owners, Put(k, b, o)
      PROVE  \/ count' <= Capacity - 2
             \/ call' = Idle /\ count' < Capacity
  <2> DEFINE s == [key |-> k, backend |-> b, last_seen |-> now, owner |-> o]
             p == Probe(sessions, k)
  <2>1. \/ \E op : EvictFor(s, op)
        \/ Update(p, s)
        \/ ~PressureEvictNeeded /\ Insert(p, s)
    BY <1>6, Zenon DEF Put
  <2> HIDE DEF s, p
  <2>2. CASE Update(p, s)
    BY <1>1, <2>2, Zenon DEF Update
  <2>3. CASE ~PressureEvictNeeded /\ Insert(p, s)
    <3>1. count * 100 < Capacity * PressureLoadPercent
      <4>1. Capacity * PressureLoadPercent \in Int
        BY CapacityAssumption, LimitAssumption
      <4> QED
        BY <1>1, <2>3, <4>1 DEF PressureEvictNeeded
    <3>2. count * 100 < (Capacity - 1) * 100
      <4>1. Capacity * PressureLoadPercent \in Int
        BY CapacityAssumption, LimitAssumption
      <4> QED
        BY <1>1, <3>1, <4>1
    <3>3. count' = count + 1 /\ call' = Idle
      BY <2>3, Zenon DEF Insert
    <3> QED
      BY <1>1, <3>2, <3>3
  <2> QED
    BY <1>3, <2>1, <2>2, <2>3, Zenon
<1>7. CASE PutPressure
  BY <1>3, <1>4, <1>5, <1>7, Zenon DEF PutPressure
<1>8. CASE PutRetry
  <2>1. call' = Idle /\ (count' = count \/ count' = count + 1)
    BY <1>8, Zenon DEF PutRetry, SecondWalk, Update, Insert, tvars
  <2>2. call.op = "retry"
    BY <1>8, Zenon DEF PutRetry, SecondWalk
  <2> QED
    BY <1>1, <1>2, <2>1, <2>2
<1>9. CASE (\E keep \in BOOLEAN : ExpireScan(keep)) \/ WalkScan
  <2>1. call'.op = call.op /\ call.op \notin {"pressure", "retry"}
    BY <1>9, Zenon DEF ExpireScan, WalkScan, TypeOK, Calls
  <2>2. count' = count \/ count' = count - 1
    BY <1>9, Zenon DEF ExpireScan, WalkScan, TableDeleteAt
  <2> QED
    BY <1>1, <2>1, <2>2
<1>10. CASE \/ Reinsert \/ ReinsertDone \/ Return \/ Tick \/ StartExpire
            \/ \E n \in 1 .. Capacity : StartExpireIncremental(n)
            \/ \E backends \in SUBSET Backends : StartEvictIf(backends)
            \/ UNCHANGED vars
  <2>1. count' = count
    BY <1>10, Zenon DEF Reinsert, ReinsertDone, Return, Tick, StartExpire,
                 StartExpireIncremental, StartEvictIf, tvars, vars
  <2>2. call'.op \in {"pressure", "retry"} => call.op = call'.op
    <3>1. CASE Reinsert \/ ReinsertDone \/ Tick \/ UNCHANGED vars
      BY <3>1, Zenon DEF Reinsert, ReinsertDone, Tick, vars
    <3>2. CASE Return \/ StartExpire
      BY <3>2 DEF Return, StartExpire, Idle
    <3>3. ASSUME NEW n \in 1 .. Capacity, StartExpireIncremental(n)
          PROVE  call'.op = "expire_incremental"
      BY <3>3, Zenon DEF StartExpireIncremental, Idle
    <3>4. ASSUME NEW backends \in SUBSET Backends, StartEvictIf(backends)
          PROVE  call'.op = "evict_if"
      BY <3>4, Zenon DEF StartEvictIf, Idle
    <3> QED
      BY <1>10, <3>1, <3>2, <3>3, <3>4, Zenon
  <2> QED
    BY <1>1, <2>1, <2>2, Zenon
<1> QED
  BY <1>2, <1>4, <1>5, <1>6, <1>7, <1>8, <1>9, <1>10, Zenon DEF Next, Step, Call

\* In every table large enough for the pressure eviction a slot stays free:
\* 100% occupancy is left to the small ones, as table_delete_at's worst case
\* assumes.  The assumptions hold of the source's constants, 1024 slots, 90
\* per cent and a scan of 4096.
THEOREM PressureTheorem ==
  ASSUME Capacity >= 2, EvictScanBudget >= 2,
         Capacity * PressureLoadPercent <= (Capacity - 1) * 100
  PROVE  Spec => []PressureKeepsRoom
<1>1. Init => PressureInv
  BY IdleType, CapacityAssumption DEF Init, PressureInv
<1>2. TypeOK /\ CountMatches /\ PressureInv /\ [Next]_vars => PressureInv'
  BY PressureStep, Zenon
<1>3. PressureInv => PressureKeepsRoom
  BY Zenon DEF PressureInv, PressureKeepsRoom
<1> QED
  BY <1>1, <1>2, <1>3, TypeCorrect, CountTheorem, PTL DEF Spec

-----------------------------------------------------------------------------
(* The dictionary *)

LEMMA InLive ==
  \A x : x \in Live <=> \E p \in Slots : Used(sessions, p) /\ x = sessions[p]
BY Zenon DEF Live

LEMMA InLiveNext ==
  \A x : x \in Live' <=> \E p \in Slots : Used(sessions', p) /\ x = sessions'[p]
BY Zenon DEF Live, Used, Slots

\* A session is live in one slot only.
LEMMA LiveSlot ==
  ASSUME ProbeInv, NEW p \in Slots, NEW q \in Slots,
         Used(sessions, p), Used(sessions, q), sessions[p] = sessions[q]
  PROVE  p = q
BY Zenon DEF ProbeInv

LEMMA LiveDelete ==
  ASSUME TypeOK, ProbeInv, NEW v \in Slots, Deletes(v)
  PROVE  sessions[v] \in Live /\ Live' = Live \ {sessions[v]}
<1>1. /\ sessions'[v] = Unused /\ Used(sessions, v)
      /\ \A q \in Slots : q # v => sessions'[q] = sessions[q]
  BY Zenon DEF Deletes, TableDeleteAt, TypeOK
<1>2. sessions[v] \in Live
  BY <1>1, InLive, Zenon
<1>3. ASSUME NEW x \in Live' PROVE x \in Live \ {sessions[v]}
  <2>1. PICK p \in Slots : Used(sessions', p) /\ x = sessions'[p]
    BY InLiveNext, Zenon
  <2>2. p # v /\ Used(sessions, p) /\ x = sessions[p]
    BY <1>1, <2>1, Zenon DEF Used
  <2> QED
    BY <1>1, <2>2, InLive, LiveSlot, Zenon
<1>4. ASSUME NEW x \in Live \ {sessions[v]} PROVE x \in Live'
  <2>1. PICK p \in Slots : Used(sessions, p) /\ x = sessions[p]
    BY InLive, Zenon
  <2>2. Used(sessions', p) /\ x = sessions'[p]
    BY <1>1, <1>4, <2>1, Zenon DEF Used
  <2> QED
    BY <2>2, InLiveNext, Zenon
<1> QED
  BY <1>2, <1>3, <1>4, Zenon

\* Storing t in slot p: in place of the session there, if it holds one.
LEMMA LiveStore ==
  ASSUME TypeOK, ProbeInv, NEW p \in Slots, NEW t \in Session,
         sessions' = [sessions EXCEPT ![p] = t]
  PROVE  Live' = (Live \ {sessions[p]}) \cup {t}
<1>1. /\ sessions'[p] = t /\ Used(sessions', p)
      /\ \A q \in Slots : q # p => sessions'[q] = sessions[q]
  BY UnusedAssumption, Zenon DEF TypeOK, Used
<1>2. ASSUME NEW x \in Live' PROVE x \in (Live \ {sessions[p]}) \cup {t}
  <2>1. PICK q \in Slots : Used(sessions', q) /\ x = sessions'[q]
    BY InLiveNext, Zenon
  <2>2. CASE q = p
    BY <1>1, <2>1, <2>2, Zenon
  <2>3. CASE q # p
    <3>1. Used(sessions, q) /\ x = sessions[q]
      BY <1>1, <2>1, <2>3, Zenon DEF Used
    <3>2. sessions[q] # sessions[p]
      BY <2>3, <3>1, LiveSlot, Zenon DEF Used
    <3> QED
      BY <3>1, <3>2, InLive, Zenon
  <2> QED
    BY <2>2, <2>3, Zenon
<1>3. ASSUME NEW x \in Live, x # sessions[p] PROVE x \in Live'
  <2>1. PICK q \in Slots : Used(sessions, q) /\ x = sessions[q]
    BY InLive, Zenon
  <2>2. Used(sessions', q) /\ x = sessions'[q]
    BY <1>1, <1>3, <2>1, Zenon DEF Used
  <2> QED
    BY <2>2, InLiveNext, Zenon
<1>4. t \in Live'
  BY <1>1, InLiveNext, Zenon
<1> QED
  BY <1>2, <1>3, <1>4, Zenon

\* A reinsertion is invisible.
LEMMA LiveReinsert ==
  ASSUME TypeOK, ProbeInv, Reinsert
  PROVE  Live' = Live
<1> DEFINE saved == sessions[cursor]
           m == Probe([sessions EXCEPT ![cursor] = Unused], saved.key)
<1>1. /\ cursor \in Slots /\ m \in Slots /\ saved \in Session
      /\ m = cursor \/ ~Used(sessions, m)
      /\ sessions' = [[sessions EXCEPT ![cursor] = Unused] EXCEPT ![m] = saved]
  BY ReinsertMoves, Zenon
<1>2. Used(sessions, cursor)
  BY Zenon DEF Reinsert
<1> HIDE DEF m
<1>3. /\ sessions'[m] = saved /\ Used(sessions', m)
      /\ \A q \in Slots : q # m /\ q # cursor => sessions'[q] = sessions[q]
      /\ m # cursor => ~Used(sessions', cursor)
  BY <1>1, UnusedAssumption, Zenon DEF TypeOK, Used
<1>4. ASSUME NEW x \in Live' PROVE x \in Live
  <2>1. PICK q \in Slots : Used(sessions', q) /\ x = sessions'[q]
    BY InLiveNext, Zenon
  <2>2. CASE q = m
    BY <1>1, <1>2, <1>3, <2>1, <2>2, InLive, Zenon
  <2>3. CASE q # m
    <3>1. q # cursor
      BY <1>3, <2>1, <2>3, Zenon
    <3>2. Used(sessions, q) /\ x = sessions[q]
      BY <1>3, <2>1, <2>3, <3>1, Zenon DEF Used
    <3> QED
      BY <3>2, InLive, Zenon
  <2> QED
    BY <2>2, <2>3, Zenon
<1>5. ASSUME NEW x \in Live PROVE x \in Live'
  <2>1. PICK q \in Slots : Used(sessions, q) /\ x = sessions[q]
    BY InLive, Zenon
  <2>2. CASE q = cursor
    BY <1>1, <1>3, <2>1, <2>2, InLiveNext, Zenon
  <2>3. CASE q # cursor
    <3>1. q # m
      BY <1>1, <2>1, <2>3, Zenon
    <3>2. Used(sessions', q) /\ x = sessions'[q]
      BY <1>3, <2>1, <2>3, <3>1, Zenon DEF Used
    <3> QED
      BY <3>2, InLiveNext, Zenon
  <2> QED
    BY <2>2, <2>3, Zenon
<1> QED
  BY <1>4, <1>5, Zenon

\* No two slots hold the same session, so the dictionary has as many entries
\* as the table has used slots.
LEMMA LiveCard ==
  ASSUME ProbeInv, CountMatches
  PROVE  Cardinality(Live) = count
<1> DEFINE U == UsedSlots(sessions)
           f == [p \in U |-> sessions[p]]
<1>1. IsFiniteSet(U) /\ count = Cardinality(U)
  BY UsedSlotsFinite, Zenon DEF CountMatches, UsedSlots
<1>2. \A p \in U : p \in Slots /\ Used(sessions, p)
  BY Zenon DEF UsedSlots
<1>3. \A x : x \in Live <=> \E p \in U : x = sessions[p]
  BY InLive, Zenon DEF UsedSlots
<1> HIDE DEF U
<1>4. f \in [U -> Live]
  BY <1>3, Zenon
<1>5. f \in Surjection(U, Live)
  BY <1>3, <1>4, Zenon DEF Surjection
<1>6. f \in Injection(U, Live)
  BY <1>2, <1>4, LiveSlot, Zenon DEF Injection, IsInjective
<1> QED
  BY <1>1, <1>5, <1>6, FS_Surjection, Zenon

LEMMA RoomCard ==
  ASSUME ProbeInv, CountMatches
  PROVE  /\ HasRoom => Cardinality(Live) < Capacity
         /\ ~HasRoom => Cardinality(Live) = Capacity
<1> DEFINE U == UsedSlots(sessions)
<1>1. /\ IsFiniteSet(Slots) /\ Cardinality(Slots) = Capacity
      /\ Cardinality(U) \in Nat /\ Cardinality(Live) = Cardinality(U)
  BY UsedSlotsFinite, LiveCard, Zenon DEF CountMatches, UsedSlots
<1>2. U \in SUBSET Slots /\ (HasRoom <=> U # Slots)
  BY Zenon DEF UsedSlots, HasRoom
<1> HIDE DEF U
<1>3. Cardinality(U) <= Capacity /\ (Capacity = Cardinality(U) => Slots = U)
  BY <1>1, <1>2, FS_Subset, Zenon
<1> QED
  BY <1>1, <1>2, <1>3, CapacityAssumption

\* What the refinement needs of the call in progress: below the pressure
\* threshold's capacity a put evicts only between its two walks, a put's
\* session is stamped with the current time, and only evict_if dooms backends.
MapInv ==
  /\ call.op # "pressure"
  /\ call.op = "retry" => call.session.last_seen = now
  /\ call.op # "evict_if" => call.doomed = {}

LEMMA MapInvStep ==
  ASSUME Capacity < PressureMinCapacity, TypeOK, MapInv, [Next]_vars
  PROVE  MapInv'
<1>1. Idle.op = "idle" /\ Idle.doomed = {}
  BY Zenon DEF Idle
<1>2. ASSUME NEW k \in Keys, NEW b \in Backends, NEW o \in Owners, Put(k, b, o)
      PROVE  MapInv'
  <2> DEFINE s == [key |-> k, backend |-> b, last_seen |-> now, owner |-> o]
  <2>1. ~PressureEvictNeeded
    BY CapacityAssumption, LimitAssumption DEF PressureEvictNeeded
  <2>2. call' = Idle \/ call' = [Idle EXCEPT !.op = "retry", !.session = s]
    BY <1>2, <2>1, Zenon DEF Put, EvictFor, Update, Insert
  <2>3. now' = now
    BY <1>2, Zenon DEF Put
  <2>4. s.last_seen = now
    BY Zenon
  <2> HIDE DEF s
  <2>5. CASE call' = [Idle EXCEPT !.op = "retry", !.session = s]
    <3>1. call'.op = "retry" /\ call'.session = s /\ call'.doomed = {}
      BY <2>5, Zenon DEF Idle
    <3> QED
      BY <2>3, <2>4, <3>1, Zenon DEF MapInv
  <2>6. CASE call' = Idle
    BY <1>1, <2>6, Zenon DEF MapInv
  <2> QED
    BY <2>2, <2>5, <2>6, Zenon
<1>3. CASE PutRetry \/ Return
  <2>1. call' = Idle
    BY <1>3, Zenon DEF PutRetry, SecondWalk, Update, Insert, Return
  <2> QED
    BY <1>1, <2>1, Zenon DEF MapInv
<1>4. CASE (\E keep \in BOOLEAN : ExpireScan(keep)) \/ WalkScan
  <2>1. /\ call'.op = call.op /\ call'.doomed = call.doomed
        /\ call.op \notin {"pressure", "retry"}
    BY <1>4, Zenon DEF ExpireScan, WalkScan, TypeOK, Calls
  <2> QED
    BY <2>1, Zenon DEF MapInv
<1>5. CASE Reinsert \/ ReinsertDone \/ UNCHANGED vars
  <2>1. UNCHANGED <<call, now>>
    BY <1>5, Zenon DEF Reinsert, ReinsertDone, vars
  <2> QED
    BY <2>1, Zenon DEF MapInv
<1>6. CASE Tick
  BY <1>6, Zenon DEF Tick, MapInv
<1>7. CASE StartExpire
  BY <1>7, Zenon DEF StartExpire, MapInv, Idle
<1>8. ASSUME NEW n \in 1 .. Capacity, StartExpireIncremental(n)
      PROVE  MapInv'
  BY <1>8, Zenon DEF StartExpireIncremental, MapInv, Idle
<1>9. ASSUME NEW backends \in SUBSET Backends, StartEvictIf(backends)
      PROVE  MapInv'
  BY <1>9, Zenon DEF StartEvictIf, MapInv, Idle
<1>10. CASE PutPressure
  BY <1>10, Zenon DEF PutPressure, MapInv
<1> QED
  BY <1>2, <1>3, <1>4, <1>5, <1>6, <1>7, <1>8, <1>9, <1>10, Zenon DEF Next, Step, Call

LEMMA MapCardinality == \A S : Map!Cardinality(S) = Cardinality(S)
BY Zenon DEF Map!Cardinality, Cardinality

\* A put's walk stores its session as the dictionary's Store.
LEMMA StoreRefines ==
  ASSUME TypeOK, ProbeInv, CountMatches, cursor = NoCursor,
         NEW s \in Session, Probe(sessions, s.key) # NoSlot,
         \/ /\ Used(sessions, Probe(sessions, s.key))
            /\ Update(Probe(sessions, s.key), s)
         \/ /\ ~Used(sessions, Probe(sessions, s.key))
            /\ Insert(Probe(sessions, s.key), s)
  PROVE  Map!Store(s)
<1>1. ASSUME NEW p \in Slots, Stores(p, s) PROVE Map!Add(s)
  <2>1. sessions' = [sessions EXCEPT ![p] = s] /\ ~Used(sessions, p)
    BY <1>1, Zenon DEF Stores, Insert
  <2>2. sessions[p] \notin Live
    BY <2>1, InLive, Zenon DEF Used
  <2>3. Live' = Live \cup {s}
    BY <2>1, <2>2, LiveStore, Zenon
  <2>4. Cardinality(Live) < Capacity
    BY <2>1, RoomCard, Zenon DEF HasRoom
  <2>5. ASSUME NEW e \in Live PROVE e.key # s.key
    <3>1. PICK q \in Slots : Used(sessions, q) /\ e = sessions[q]
      BY InLive, Zenon
    <3>2. Get(sessions, sessions[q].key) = q
      BY <3>1, ProbeInvIntegrity, Zenon DEF ProbeIntegrity
    <3>3. Get(sessions, s.key) = NoSlot
      BY <1>1, Zenon DEF Stores, Get
    <3>4. q # NoSlot
      BY CapacityAssumption DEF Slots, NoSlot
    <3> QED
      BY <3>1, <3>2, <3>3, <3>4, Zenon
  <2> QED
    BY <2>3, <2>4, <2>5, MapCardinality, Zenon DEF Map!Add
<1>2. ASSUME NEW p \in Slots, NEW t \in Session, Rewrites(p, t),
             t = [s EXCEPT !.owner = IF s.owner # 0 THEN s.owner
                                     ELSE sessions[p].owner]
      PROVE  \E e \in Live : Map!Replace(e, s)
  <2>1. /\ sessions' = [sessions EXCEPT ![p] = t]
        /\ Used(sessions, p) /\ t.key = sessions[p].key
    BY <1>2, Zenon DEF Rewrites
  <2>2. sessions[p] \in Live /\ Live' = (Live \ {sessions[p]}) \cup {t}
    BY <2>1, InLive, LiveStore, Zenon
  <2>3. t.key = s.key
    BY <1>2, Zenon DEF Session
  <2>4. Map!Replace(sessions[p], s)
    BY <1>2, <2>1, <2>2, <2>3, Zenon DEF Map!Replace
  <2> QED
    BY <2>2, <2>4, Zenon
<1> QED
  BY <1>1, <1>2, StoreEffect, Zenon DEF Map!Store

\* An eviction from a full table removes the oldest entry of its window.
LEMMA EvictRefines ==
  ASSUME TypeOK, ProbeInv, CountMatches, ~HasRoom, EvictOldest
  PROVE  Live' = Live \/ \E e \in Live : Map!Evict(e)
<1>1. CASE UNCHANGED sessions
  BY <1>1, Zenon DEF Live
<1>2. ASSUME NEW v \in Slots, IsVictim(v), Deletes(v)
      PROVE  \E e \in Live : Map!Evict(e)
  <2>1. sessions[v] \in Live /\ Live' = Live \ {sessions[v]}
    BY <1>2, LiveDelete, Zenon
  <2>2. Cardinality(Live) = Capacity
    BY RoomCard, Zenon
  <2>3. ASSUME Capacity <= EvictScanBudget, NEW e \in Live
        PROVE  sessions[v].last_seen <= e.last_seen
    <3>1. PICK p \in Slots : Used(sessions, p) /\ e = sessions[p]
      BY InLive, Zenon
    <3>2. EvictScans = Capacity
      BY <2>3, CapacityAssumption, BudgetAssumption DEF EvictScans
    <3>3. Dist(evict_cursor, p) < Capacity
      <4>1. evict_cursor \in Slots
        BY Zenon DEF TypeOK
      <4>2. Dist(evict_cursor, p) \in 0 .. Capacity - 1
        BY <4>1, DistFacts, Zenon
      <4> QED
        BY <4>2, CapacityAssumption
    <3>4. p \in EvictWindow
      BY <3>1, <3>2, <3>3, Zenon DEF EvictWindow
    <3>5. sessions[p].last_seen \in Nat /\ sessions[v].last_seen \in Nat
      BY <1>2, <3>1, Zenon DEF TypeOK, Used, Session, Deletes
    <3> QED
      BY <1>2, <3>1, <3>4, <3>5 DEF IsVictim
  <2>4. Map!Evict(sessions[v])
    BY <2>1, <2>2, <2>3, MapCardinality, Zenon DEF Map!Evict
  <2> QED
    BY <2>1, <2>4, Zenon
<1> QED
  BY <1>1, <1>2, EvictEffect, Zenon

LEMMA MapStep ==
  ASSUME Capacity < PressureMinCapacity, TypeOK, ProbeInv, CountMatches, MapInv,
         [Next]_vars
  PROVE  [Map!Next]_(Map!avars)
<1>1. ASSUME Live' = Live, call'.doomed = call.doomed, now' = now
      PROVE  UNCHANGED Map!avars
  BY <1>1, Zenon DEF Map!avars
<1>2. ASSUME UNCHANGED <<sessions, now>>, call'.doomed \in SUBSET Backends
      PROVE  Map!Next
  <2>1. Live' = Live
    BY <1>2, Zenon DEF Live
  <2> QED
    BY <1>2, <2>1, Zenon DEF Map!Next, Map!SetDoomed
<1>3. ASSUME NEW e \in Live, Map!Evict(e) \/ Map!Expire(e) \/ Map!Refresh(e)
                               \/ Map!Remove(e),
             call'.doomed = call.doomed, now' = now
      PROVE  Map!Next
  BY <1>3, Zenon DEF Map!Next, Map!Change
<1>4. ASSUME NEW s \in Session, s.last_seen = now, Map!Store(s),
             call'.doomed = call.doomed, now' = now
      PROVE  Map!Next
  <2>1. s = [key |-> s.key, backend |-> s.backend, last_seen |-> now,
             owner |-> s.owner]
        /\ s.key \in Keys /\ s.backend \in Backends /\ s.owner \in Owners
    BY <1>4, Zenon DEF Session
  <2> QED
    BY <1>4, <2>1, Zenon DEF Map!Next, Map!Change
<1>5. Idle.op = "idle" /\ Idle.doomed = {}
  BY Zenon DEF Idle
<1>6. ASSUME NEW k \in Keys, NEW b \in Backends, NEW o \in Owners, Put(k, b, o)
      PROVE  Map!Next \/ UNCHANGED Map!avars
  <2> DEFINE s == [key |-> k, backend |-> b, last_seen |-> now, owner |-> o]
  <2>1. s \in Session /\ s.key = k /\ s.last_seen = now
    BY Zenon DEF Session, TypeOK
  <2>2. /\ call.op = "idle" /\ cursor = NoCursor /\ now' = now
        /\ call.doomed = {}
    BY <1>6, Zenon DEF Put, ProbeInv, MapInv
  <2>3. ~PressureEvictNeeded
    BY CapacityAssumption, LimitAssumption DEF PressureEvictNeeded
  <2>4. \/ Probe(sessions, k) = NoSlot /\ EvictFor(s, "retry")
        \/ /\ Probe(sessions, k) # NoSlot
           /\ \/ /\ Used(sessions, Probe(sessions, k))
                 /\ Update(Probe(sessions, k), s)
              \/ /\ ~Used(sessions, Probe(sessions, k))
                 /\ Insert(Probe(sessions, k), s)
    BY <1>6, <2>3, Zenon DEF Put
  <2> HIDE DEF s
  <2>5. CASE Probe(sessions, k) = NoSlot /\ EvictFor(s, "retry")
    <3>1. ~HasRoom
      <4>1. Stops(sessions, k) = {}
        BY <2>5, ProbeStops, CapacityAssumption DEF Slots, NoSlot
      <4> QED
        BY <4>1, Zenon DEF Stops, HasRoom
    <3>2. call'.doomed = {}
      BY <2>5, Zenon DEF EvictFor, Idle
    <3>3. Live' = Live \/ \E e \in Live : Map!Evict(e)
      BY <2>5, <3>1, EvictRefines, Zenon DEF EvictFor
    <3> QED
      BY <1>1, <1>3, <2>2, <3>2, <3>3, Zenon
  <2>6. CASE /\ Probe(sessions, k) # NoSlot
             /\ \/ /\ Used(sessions, Probe(sessions, k))
                   /\ Update(Probe(sessions, k), s)
                \/ /\ ~Used(sessions, Probe(sessions, k))
                   /\ Insert(Probe(sessions, k), s)
    <3>1. Map!Store(s)
      BY <2>1, <2>2, <2>6, StoreRefines, Zenon
    <3>2. call' = Idle
      BY <2>6, Zenon DEF Update, Insert
    <3> QED
      BY <1>4, <1>5, <2>1, <2>2, <3>1, <3>2, Zenon
  <2> QED
    BY <2>4, <2>5, <2>6, Zenon
<1>7. CASE PutRetry
  <2>1. /\ call.session \in Session /\ call.session.last_seen = now
        /\ call.doomed = {} /\ call' = Idle /\ now' = now /\ cursor = NoCursor
    BY <1>7, Zenon DEF PutRetry, SecondWalk, Update, Insert, TypeOK, MapInv
  <2>2. CASE Probe(sessions, call.session.key) = NoSlot
    <3>1. UNCHANGED sessions
      BY <1>7, <2>2, Zenon DEF PutRetry, SecondWalk, tvars
    <3> QED
      BY <1>2, <1>5, <2>1, <3>1, Zenon
  <2>3. CASE Probe(sessions, call.session.key) # NoSlot
    <3>1. Map!Store(call.session)
      BY <1>7, <2>1, <2>3, StoreRefines, Zenon DEF PutRetry, SecondWalk
    <3> QED
      BY <1>4, <1>5, <2>1, <3>1, Zenon
  <2> QED
    BY <2>2, <2>3, Zenon
<1>8. ASSUME NEW keep \in BOOLEAN, ExpireScan(keep)
      PROVE  Map!Next \/ UNCHANGED Map!avars
  <2> DEFINE e == sessions[expire_cursor]
             s == [e EXCEPT !.last_seen = now]
  <2>1. expire_cursor \in Slots
    BY Zenon DEF TypeOK
  <2>2. call'.doomed = call.doomed /\ now' = now
    BY <1>8, Zenon DEF ExpireScan, TypeOK, Calls
  <2>3. CASE IsIdle(expire_cursor)
    <3>1. Used(sessions, expire_cursor) /\ now - e.last_seen >= IdleTimeout
      BY <2>3, Zenon DEF IsIdle
    <3>2. e \in Session /\ e \in Live
      BY <2>1, <3>1, InLive, Zenon DEF TypeOK, Used
    <3>3. CASE ~keep
      <4>1. Deletes(expire_cursor)
        BY <1>8, <2>3, <3>1, <3>3, Zenon DEF ExpireScan, Deletes
      <4>2. Live' = Live \ {e}
        BY <2>1, <4>1, LiveDelete, Zenon
      <4>3. Map!Expire(e)
        BY <3>1, <4>2, Zenon DEF Map!Expire
      <4> QED
        BY <1>3, <2>2, <3>2, <4>3, Zenon
    <3>4. CASE keep
      <4>1. sessions' = [sessions EXCEPT ![expire_cursor] = s]
        BY <1>8, <2>3, <3>4, Zenon DEF ExpireScan
      <4>2. s \in Session
        BY <3>2, Zenon DEF TypeOK, Session
      <4>3. Live' = (Live \ {e}) \cup {s}
        BY <2>1, <4>1, <4>2, LiveStore, Zenon
      <4>4. Map!Refresh(e)
        BY <3>1, <4>3, Zenon DEF Map!Refresh
      <4> QED
        BY <1>3, <2>2, <3>2, <4>4, Zenon
    <3> QED
      BY <3>3, <3>4, Zenon
  <2>4. CASE ~IsIdle(expire_cursor)
    <3>1. Live' = Live
      BY <1>8, <2>4, Zenon DEF ExpireScan, Live
    <3> QED
      BY <1>1, <2>2, <3>1, Zenon
  <2> QED
    BY <2>3, <2>4, Zenon
<1>9. CASE WalkScan
  <2>1. call.i \in Slots
    BY <1>9, CapacityAssumption DEF WalkScan, TypeOK, Calls, Slots
  <2>2. call'.doomed = call.doomed /\ now' = now
    BY <1>9, Zenon DEF WalkScan, TypeOK, Calls
  <2>3. CASE Matches(call.i)
    <3>1. Deletes(call.i)
      BY <1>9, <2>3, Zenon DEF WalkScan, Matches, IsIdle, Deletes
    <3>2. sessions[call.i] \in Live /\ Live' = Live \ {sessions[call.i]}
      BY <2>1, <3>1, LiveDelete, Zenon
    <3>3. Map!Expire(sessions[call.i]) \/ Map!Remove(sessions[call.i])
      BY <2>3, <3>2, Zenon DEF Matches, IsIdle, Map!Expire, Map!Remove
    <3> QED
      BY <1>3, <2>2, <3>2, <3>3, Zenon
  <2>4. CASE ~Matches(call.i)
    <3>1. Live' = Live
      BY <1>9, <2>4, Zenon DEF WalkScan, Live
    <3> QED
      BY <1>1, <2>2, <3>1, Zenon
  <2> QED
    BY <2>3, <2>4, Zenon
<1>10. CASE Reinsert
  <2>1. Live' = Live
    BY <1>10, LiveReinsert, Zenon
  <2> QED
    BY <1>1, <1>10, <2>1, Zenon DEF Reinsert
<1>11. CASE ReinsertDone \/ UNCHANGED vars
  <2>1. Live' = Live
    BY <1>11, Zenon DEF ReinsertDone, vars, Live
  <2> QED
    BY <1>1, <1>11, <2>1, Zenon DEF ReinsertDone, vars
<1>12. CASE Return \/ StartExpire
  <2>1. UNCHANGED <<sessions, now>> /\ call'.doomed = {}
    BY <1>12 DEF Return, StartExpire, Idle, tvars
  <2> QED
    BY <1>2, <2>1, Zenon
<1>13. ASSUME NEW n \in 1 .. Capacity, StartExpireIncremental(n)
       PROVE  Map!Next
  <2>1. UNCHANGED <<sessions, now>> /\ call'.doomed = {}
    BY <1>13, Zenon DEF StartExpireIncremental, Idle, tvars
  <2> QED
    BY <1>2, <2>1, Zenon
<1>14. ASSUME NEW backends \in SUBSET Backends, StartEvictIf(backends)
       PROVE  Map!Next
  <2>1. UNCHANGED <<sessions, now>> /\ call'.doomed = backends
    BY <1>14, Zenon DEF StartEvictIf, Idle, tvars
  <2> QED
    BY <1>2, <2>1, Zenon
<1>15. CASE Tick
  <2>1. Live' = Live
    BY <1>15, Zenon DEF Tick, tvars, Live
  <2> QED
    BY <1>15, <2>1, Zenon DEF Tick, Map!Next, Map!Tick
<1>16. ~PutPressure
  BY Zenon DEF PutPressure, MapInv
<1> QED
  BY <1>6, <1>7, <1>8, <1>9, <1>10, <1>11, <1>12, <1>13, <1>14, <1>15, <1>16, Zenon
     DEF Next, Step, Call

\* The session table implements the dictionary for every capacity below
\* QSR_PRESSURE_EVICT_MIN_CAPACITY, every hash and every eviction budget:
\* relocation is invisible, and a session leaves only when it has been idle,
\* when its backend is removed, or as the oldest one of a full table.
THEOREM MapTheorem ==
  ASSUME Capacity < PressureMinCapacity
  PROVE  Spec => ImplementsMap
<1>1. Init => Map!Init
  <2> SUFFICES ASSUME Init PROVE Map!Init
    BY Zenon
  <2>1. Live = {}
    BY InLive, Zenon DEF Init, Used
  <2> QED
    BY <2>1, Zenon DEF Init, Idle, Map!Init
<1>2. Init => ProbeInv /\ MapInv
  BY DEF Init, ProbeInv, MapInv, Used, Idle
<1>3. TypeOK /\ MapInv /\ [Next]_vars => MapInv'
  BY MapInvStep, Zenon
<1>4. TypeOK /\ ProbeInv /\ CountMatches /\ MapInv /\ [Next]_vars
        => [Map!Next]_(Map!avars)
  BY MapStep, Zenon
<1> QED
  BY <1>1, <1>2, <1>3, <1>4, ProbeStep, TypeCorrect, CountTheorem, PTL
     DEF Spec, ImplementsMap, Map!Spec

-----------------------------------------------------------------------------
(* The walks *)

\* The probe for the session at p passes slot q.
Crosses(tbl, p, q) == Dist(Home[tbl[p].key], q) < Dist(Home[tbl[p].key], p)

\* No probe passes slot z.  A free slot is a cut, and so is the slot filled
\* last: read from the slot after it, even a full table has a beginning.
Cut(z) ==
  \A p \in Slots : Used(sessions, p) => ~Crosses(sessions, p, z)

\* Read from the slot after z, the free slots that probes pass begin at i.
HolesFrom(z, i) ==
  \A p, q \in Slots :
    Used(sessions, p) /\ ~Used(sessions, q) /\ Crosses(sessions, p, q)
      => Dist(After(z), i) <= Dist(After(z), q)

Walking == call.op \in {"expire", "evict_if"}

\* The inductive strengthening of WalkComplete: what the walk has passed
\* matches no more, and while a deletion runs, the holes it may fill lie
\* between the walk's slot and the session it moves, in an order in which no
\* probe wraps around.
WalkInv ==
  /\ \E z \in Slots :
       /\ Cut(z)
       /\ Walking /\ cursor # NoCursor
            => call.i \in Slots /\ HolesFrom(z, call.i)
  /\ Walking => \A p \in Slots : p < call.i => ~Matches(p)

\* A probe that does not pass z stays in order when slots are read from the
\* one after z.
LEMMA CutOrder ==
  ASSUME NEW z \in Slots, NEW h \in Slots, NEW p \in Slots, NEW q \in Slots,
         ~(Dist(h, z) < Dist(h, p)), Dist(h, q) < Dist(h, p)
  PROVE  Dist(After(z), q) < Dist(After(z), p)
BY CapacityAssumption DEF Dist, Slots, After

\* A hole between the walk's slot i and a session not yet visited is itself
\* not yet visited.
LEMMA HoleAhead ==
  ASSUME NEW z \in Slots, NEW i \in Slots, NEW c \in Slots, NEW m \in Slots,
         i <= c, Dist(After(z), i) <= Dist(After(z), m),
         Dist(After(z), m) < Dist(After(z), c)
  PROVE  i <= m
BY CapacityAssumption DEF Dist, Slots, After

\* A reinsertion moves a session to a hole its probe passed, if at all.
LEMMA ReinsertHole ==
  ASSUME TypeOK, ProbeInv, Reinsert
  PROVE  \E m \in Slots :
           /\ cursor \in Slots /\ Used(sessions, cursor)
           /\ m # cursor => ~Used(sessions, m) /\ Crosses(sessions, cursor, m)
           /\ sessions'[m] = sessions[cursor]
           /\ m # cursor => ~Used(sessions', cursor)
           /\ \A q \in Slots : q # m /\ q # cursor => sessions'[q] = sessions[q]
           /\ Home[sessions[cursor].key] \in Slots
<1> DEFINE saved == sessions[cursor]
           rest == [sessions EXCEPT ![cursor] = Unused]
           m == Probe(rest, saved.key)
           h == Home[saved.key]
<1>1. /\ cursor \in Slots /\ m \in Slots /\ saved \in Session
      /\ m = cursor \/ ~Used(sessions, m)
      /\ sessions' = [rest EXCEPT ![m] = saved]
  BY ReinsertMoves, Zenon
<1>2. \A q \in Stops(rest, saved.key) : Dist(h, m) <= Dist(h, q)
  BY ReinsertSlot, Zenon DEF Reinsert
<1>3. Used(sessions, cursor)
  BY Zenon DEF Reinsert
<1>4. h \in Slots
  BY <1>1, KeyAssumption, Zenon DEF Session
<1>5. cursor \in Stops(rest, saved.key)
  BY <1>1, Zenon DEF Stops, Used, TypeOK
<1>6. Dist(h, m) <= Dist(h, cursor)
  BY <1>2, <1>5, Zenon
<1> HIDE DEF m
<1>7. m # cursor => Dist(h, m) < Dist(h, cursor)
  <2>1. Dist(h, m) \in Int /\ Dist(h, cursor) \in Int
    BY <1>1, <1>4, DistFacts
  <2> QED
    BY <1>1, <1>4, <1>6, <2>1, DistFacts
<1>8. /\ sessions'[m] = saved
      /\ m # cursor => sessions'[cursor] = Unused
      /\ \A q \in Slots : q # m /\ q # cursor => sessions'[q] = sessions[q]
  BY <1>1, Zenon DEF TypeOK
<1> QED
  BY <1>1, <1>3, <1>4, <1>7, <1>8, Zenon DEF Crosses, Used

LEMMA CutStores ==
  ASSUME TypeOK, ProbeInv, NEW m \in Slots, NEW s \in Session, Stores(m, s)
  PROVE  Cut(m)'
<1>1. sessions' = [sessions EXCEPT ![m] = s] /\ ~Used(sessions, m)
      /\ cursor = NoCursor
  BY Zenon DEF Stores, Insert
<1>2. sessions'[m] = s /\ \A q \in Slots : q # m => sessions'[q] = sessions[q]
  BY <1>1, Zenon DEF TypeOK
<1>3. ASSUME NEW p \in Slots, Used(sessions', p), Crosses(sessions', p, m)
      PROVE  FALSE
  <2>1. CASE p = m
    <3>1. Home[s.key] \in Slots
      BY KeyAssumption, Zenon DEF Session
    <3>2. Dist(Home[s.key], m) \in Int
      BY <3>1, DistFacts
    <3> QED
      BY <1>2, <1>3, <2>1, <3>2 DEF Crosses
  <2>2. CASE p # m
    <3>1. Used(sessions, p) /\ Crosses(sessions, p, m)
      BY <1>2, <1>3, <2>2, Zenon DEF Used, Crosses
    <3>2. Clear(sessions, p)
      BY <1>1, <3>1, Zenon DEF ProbeInv, InRun
    <3> QED
      BY <1>1, <3>1, <3>2, Zenon DEF Clear, Crosses
  <2> QED
    BY <2>1, <2>2, Zenon
<1> QED
  BY <1>3, Zenon DEF Cut

\* A deletion, a rewrite and a relocation leave every cut a cut.
LEMMA CutKept ==
  ASSUME TypeOK, ProbeInv, NEW z \in Slots, Cut(z),
         \/ UNCHANGED sessions
         \/ Reinsert
         \/ \E v \in Slots : Deletes(v)
         \/ \E p \in Slots : \E s \in Session : Rewrites(p, s)
  PROVE  Cut(z)'
<1>1. CASE UNCHANGED sessions
  BY <1>1, Zenon DEF Cut, Used, Crosses
<1>2. ASSUME NEW v \in Slots, Deletes(v) PROVE Cut(z)'
  <2>1. \A p \in Slots : Used(sessions', p) =>
          Used(sessions, p) /\ sessions'[p] = sessions[p]
    BY <1>2, Zenon DEF Deletes, TableDeleteAt, Used, TypeOK
  <2> QED
    BY <2>1, Zenon DEF Cut, Crosses
<1>3. ASSUME NEW v \in Slots, NEW s \in Session, Rewrites(v, s) PROVE Cut(z)'
  <2>1. \A p \in Slots : Used(sessions', p) =>
          Used(sessions, p) /\ sessions'[p].key = sessions[p].key
    BY <1>3, Zenon DEF Rewrites, Used, TypeOK
  <2> QED
    BY <2>1, Zenon DEF Cut, Crosses
<1>4. CASE Reinsert
  <2>1. PICK m \in Slots :
           /\ cursor \in Slots /\ Used(sessions, cursor)
           /\ m # cursor => ~Used(sessions, m) /\ Crosses(sessions, cursor, m)
           /\ sessions'[m] = sessions[cursor]
           /\ m # cursor => ~Used(sessions', cursor)
           /\ \A q \in Slots : q # m /\ q # cursor => sessions'[q] = sessions[q]
           /\ Home[sessions[cursor].key] \in Slots
    BY <1>4, ReinsertHole, Zenon
  <2>2. ASSUME NEW p \in Slots, Used(sessions', p), Crosses(sessions', p, z)
        PROVE  FALSE
    <3>1. CASE p = m
      <4> DEFINE h == Home[sessions[cursor].key]
      <4>1. h \in Slots /\ ~(Dist(h, z) < Dist(h, cursor))
        BY <2>1, Zenon DEF Cut, Crosses
      <4>2. /\ Dist(h, z) \in Int /\ Dist(h, m) \in Int
            /\ Dist(h, cursor) \in Int
        <5>1. \A q \in Slots : Dist(h, q) \in 0 .. Capacity - 1
          <6> HIDE DEF h
          <6> QED
            BY <4>1, DistFacts, Zenon
        <5>2. cursor \in Slots
          BY <2>1, Zenon
        <5> HIDE DEF h
        <5> QED
          BY ONLY <5>1, <5>2, z \in Slots, m \in Slots, CapacityAssumption, SMTT(30), Zenon
      <4>3. Dist(h, z) < Dist(h, m)
        <5>1. sessions'[m] = sessions[cursor] /\ Crosses(sessions', m, z)
          BY <2>1, <2>2, <3>1, Zenon
        <5> QED
          BY ONLY <5>1, Zenon DEF Crosses
      <4>4. Dist(h, m) <= Dist(h, cursor)
        <5>1. m # cursor => Crosses(sessions, cursor, m)
          BY <2>1, Zenon
        <5> QED
          BY ONLY <4>2, <5>1, SMTT(30), Zenon DEF Crosses
      <4> HIDE DEF h
      <4> QED
        BY ONLY <4>1, <4>2, <4>3, <4>4, SMTT(30), Zenon
    <3>2. CASE p # m
      <4>1. p # cursor /\ sessions'[p] = sessions[p]
        BY <2>1, <2>2, <3>2, Zenon
      <4> QED
        BY <2>2, <4>1, Zenon DEF Cut, Crosses, Used
    <3> QED
      BY <3>1, <3>2, Zenon
  <2> QED
    BY <2>2, Zenon DEF Cut
<1> QED
  BY <1>1, <1>2, <1>3, <1>4, Zenon

\* A reinsertion in a walk's deletion moves nothing unvisited to a slot the
\* walk has passed.
LEMMA WalkReinsert ==
  ASSUME TypeOK, ProbeInv, WalkInv, Walking, Reinsert
  PROVE  WalkInv'
<1>1. PICK m \in Slots :
         /\ cursor \in Slots /\ Used(sessions, cursor)
         /\ m # cursor => ~Used(sessions, m) /\ Crosses(sessions, cursor, m)
         /\ sessions'[m] = sessions[cursor]
         /\ m # cursor => ~Used(sessions', cursor)
         /\ \A q \in Slots : q # m /\ q # cursor => sessions'[q] = sessions[q]
         /\ Home[sessions[cursor].key] \in Slots
  BY ReinsertHole, Zenon
<1>2. cursor # NoCursor /\ call' = call /\ now' = now
  BY Zenon DEF Reinsert
<1>3. PICK z \in Slots : Cut(z) /\ call.i \in Slots /\ HolesFrom(z, call.i)
  BY <1>2, Zenon DEF WalkInv
<1> DEFINE L(p) == Dist(After(z), p)
<1>4. \A p \in Slots : L(p) \in Int
  BY <1>3, AfterInSlots, DistFacts
<1>5. m # cursor => L(call.i) <= L(m) /\ L(m) < L(cursor)
  <2> SUFFICES ASSUME m # cursor PROVE L(call.i) <= L(m) /\ L(m) < L(cursor)
    BY Zenon
  <2>1. L(call.i) <= L(m)
    BY <1>1, <1>3, Zenon DEF HolesFrom
  <2>2. ~Crosses(sessions, cursor, z)
    BY <1>1, <1>3, Zenon DEF Cut
  <2>3. L(m) < L(cursor)
    BY <1>1, <2>2, CutOrder, Zenon DEF Crosses
  <2> QED
    BY <2>1, <2>3, Zenon
<1>6. Cut(z)'
  BY <1>3, CutKept, Zenon
<1>7. ASSUME NEW p \in Slots, NEW q \in Slots,
             Used(sessions', p), ~Used(sessions', q), Crosses(sessions', p, q)
      PROVE  L(call.i) <= L(q)
  <2>1. CASE q = cursor
    <3>1. m # cursor
      BY <1>1, <1>7, <2>1, Zenon DEF Used
    <3> QED
      <4>1. L(call.i) <= L(m) /\ L(m) < L(cursor)
        BY <1>5, <3>1, Zenon
      <4>2. L(call.i) \in Int /\ L(m) \in Int /\ L(cursor) \in Int
        BY <1>1, <1>3, <1>4, Zenon
      <4> HIDE DEF L
      <4> QED
        BY ONLY <2>1, <4>1, <4>2, SMTT(30), Zenon
  <2>2. CASE q # cursor
    <3>1. q # m
      BY <1>1, <1>7, Zenon DEF Used
    <3>2. ~Used(sessions, q)
      BY <1>1, <1>7, <2>2, <3>1, Zenon DEF Used
    <3>3. CASE p = m
      <4> DEFINE h == Home[sessions[cursor].key]
      <4>1. Dist(h, q) < Dist(h, m)
        BY <1>1, <1>7, <3>3, Zenon DEF Crosses
      <4>2. Dist(h, m) <= Dist(h, cursor)
        <5>1. Dist(h, m) \in Int /\ Dist(h, cursor) \in Int
          BY <1>1, DistFacts
        <5> QED
          BY <1>1, <5>1 DEF Crosses
      <4>3. /\ Dist(h, q) \in Int /\ Dist(h, m) \in Int
            /\ Dist(h, cursor) \in Int
        BY <1>1, DistFacts
      <4>4. Crosses(sessions, cursor, q)
        BY <4>1, <4>2, <4>3 DEF Crosses
      <4> QED
        BY <1>1, <1>3, <3>2, <4>4, Zenon DEF HolesFrom
    <3>4. CASE p # m
      <4>1. p # cursor /\ sessions'[p] = sessions[p]
        BY <1>1, <1>7, <3>4, Zenon
      <4> QED
        BY <1>3, <1>7, <3>2, <4>1, Zenon DEF HolesFrom, Crosses, Used
    <3> QED
      BY <3>3, <3>4, Zenon
  <2> QED
    BY <2>1, <2>2, Zenon
<1>8. ASSUME NEW p \in Slots, p < call.i, Matches(p)' PROVE FALSE
  <2>1. Used(sessions', p)
    BY <1>8, Zenon DEF Matches, IsIdle
  <2>2. CASE p = m
    <3>1. Matches(cursor)
      BY <1>1, <1>2, <1>8, <2>2, Zenon DEF Matches, IsIdle, Used
    <3>2. ~(cursor < call.i)
      BY <1>1, <3>1, Zenon DEF WalkInv
    <3>3. cursor \in Int /\ call.i \in Int /\ m \in Int
      BY <1>1, <1>3 DEF Slots
    <3>4. m # cursor
      BY <1>8, <2>2, <3>2, Zenon
    <3>5. call.i <= m
      <4>1. /\ Dist(After(z), call.i) <= Dist(After(z), m)
            /\ Dist(After(z), m) < Dist(After(z), cursor)
        BY <1>5, <3>4, Zenon
      <4>2. call.i \in Slots /\ cursor \in Slots /\ call.i <= cursor
        BY <1>1, <1>3, <3>2, <3>3
      <4> QED
        BY ONLY <4>1, <4>2, z \in Slots, m \in Slots, HoleAhead, Zenon
    <3> QED
      BY <1>8, <2>2, <3>3, <3>5
  <2>3. CASE p # m
    <3>1. p # cursor /\ sessions'[p] = sessions[p]
      BY <1>1, <2>1, <2>3, Zenon
    <3>2. Matches(p)
      BY <1>2, <1>8, <3>1, Zenon DEF Matches, IsIdle, Used
    <3> QED
      BY <1>8, <3>2, Zenon DEF WalkInv
  <2> QED
    BY <2>2, <2>3, Zenon
<1>9. HolesFrom(z, call.i)'
  BY <1>2, <1>7, Zenon DEF HolesFrom
<1> QED
  BY <1>2, <1>3, <1>6, <1>8, <1>9, Zenon DEF WalkInv

LEMMA WalkStep ==
  ASSUME TypeOK, ProbeInv, WalkInv, [Next]_vars
  PROVE  WalkInv'
<1>1. PICK z \in Slots :
        /\ Cut(z)
        /\ Walking /\ cursor # NoCursor
             => call.i \in Slots /\ HolesFrom(z, call.i)
  BY Zenon DEF WalkInv
<1>2. \E y \in Slots : Cut(y)'
  <2>1. ASSUME NEW p \in Slots, NEW s \in Session, Stores(p, s)
        PROVE  Cut(p)'
    BY <2>1, CutStores, Zenon
  <2>2. ASSUME ~(\E p \in Slots : \E s \in Session : Stores(p, s))
        PROVE  Cut(z)'
    BY <1>1, <2>2, Effects, CutKept, Zenon
  <2> QED
    BY <2>1, <2>2, Zenon
<1>3. ASSUME ~Walking' PROVE WalkInv'
  BY <1>2, <1>3, Zenon DEF WalkInv
<1>4. CASE Reinsert
  <2>1. Walking' <=> Walking
    BY <1>4, Zenon DEF Reinsert, Walking
  <2> QED
    BY <1>3, <1>4, <2>1, WalkReinsert, Zenon
<1>5. CASE ReinsertDone \/ UNCHANGED vars
  <2>1. /\ UNCHANGED <<sessions, call, now>>
        /\ cursor' = NoCursor \/ cursor' = cursor
    BY <1>5, Zenon DEF ReinsertDone, vars
  <2>2. Cut(z)' /\ (HolesFrom(z, call.i) => HolesFrom(z, call.i)')
    BY <1>1, <2>1, Zenon DEF Cut, HolesFrom, Used, Crosses
  <2>3. \A p \in Slots : Matches(p)' => Matches(p)
    BY <2>1, Zenon DEF Matches, IsIdle, Used
  <2>4. Walking' <=> Walking
    BY <2>1, Zenon DEF Walking
  <2> QED
    BY <1>1, <2>1, <2>2, <2>3, <2>4, Zenon DEF WalkInv
<1>6. CASE WalkScan
  <2>1. /\ call.i \in Slots /\ cursor = NoCursor /\ now' = now
        /\ Walking /\ call \in Calls
    BY <1>6, CapacityAssumption DEF WalkScan, TypeOK, Calls, Slots, Walking
  <2>2. call'.op = call.op /\ call'.doomed = call.doomed
    BY <1>6, <2>1, Zenon DEF WalkScan, Calls
  <2>3. CASE Matches(call.i)
    <3>1. Deletes(call.i) /\ call'.i = call.i
      BY <1>6, <2>1, <2>3, Zenon DEF WalkScan, Matches, IsIdle, Deletes, Calls
    <3>2. /\ sessions'[call.i] = Unused
          /\ \A q \in Slots : q # call.i => sessions'[q] = sessions[q]
      BY <2>1, <3>1, Zenon DEF Deletes, TableDeleteAt, TypeOK
    <3>3. Cut(z)'
      BY <1>1, <2>1, <3>1, CutKept, Zenon
    <3>4. ASSUME NEW p \in Slots, NEW q \in Slots, Used(sessions', p),
                 ~Used(sessions', q), Crosses(sessions', p, q)
          PROVE  Dist(After(z), call.i) <= Dist(After(z), q)
      <4>1. Used(sessions, p) /\ sessions'[p] = sessions[p]
        BY <3>2, <3>4, Zenon DEF Used
      <4>2. Clear(sessions, p)
        BY <2>1, <4>1, Zenon DEF ProbeInv, InRun
      <4>3. Used(sessions, q)
        BY <3>4, <4>1, <4>2, Zenon DEF Clear, Crosses
      <4>4. q = call.i
        BY <3>2, <3>4, <4>3, Zenon DEF Used
      <4>5. Dist(After(z), q) \in Int
        BY <1>1, AfterInSlots, DistFacts
      <4> QED
        BY <4>4, <4>5
    <3>5. HolesFrom(z, call.i)'
      BY <3>1, <3>4, Zenon DEF HolesFrom
    <3>6. ASSUME NEW p \in Slots, Matches(p)' PROVE Matches(p)
      <4>1. p # call.i
        BY <3>2, <3>6, Zenon DEF Matches, IsIdle, Used
      <4> QED
        BY <2>1, <2>2, <3>2, <3>6, <4>1, Zenon DEF Matches, IsIdle, Used
    <3>7. \A p \in Slots : p < call'.i => ~Matches(p)'
      BY <2>1, <3>1, <3>6, Zenon DEF WalkInv
    <3> QED
      BY <2>1, <3>1, <3>3, <3>5, <3>7, Zenon DEF WalkInv
  <2>4. CASE ~Matches(call.i)
    <3>1. call'.i = call.i + 1 /\ UNCHANGED <<sessions, cursor>>
      BY <1>6, <2>1, <2>4, Zenon DEF WalkScan, Calls
    <3>2. \A p \in Slots : Matches(p)' => Matches(p)
      BY <2>1, <2>2, <3>1, Zenon DEF Matches, IsIdle, Used
    <3>3. \A p \in Slots : p < call.i + 1 => p < call.i \/ p = call.i
      BY <2>1 DEF Slots
    <3>4. \A p \in Slots : p < call'.i => ~Matches(p)'
      BY <2>1, <2>4, <3>1, <3>2, <3>3, Zenon DEF WalkInv
    <3> QED
      BY <1>2, <2>1, <3>1, <3>4, Zenon DEF WalkInv
  <2> QED
    BY <2>3, <2>4, Zenon
<1>7. ASSUME call'.i = 0, cursor = NoCursor, cursor' = NoCursor PROVE WalkInv'
  <2>1. \A p \in Slots : ~(p < 0)
    BY DEF Slots
  <2> QED
    BY <1>2, <1>7, <2>1, Zenon DEF WalkInv
<1>8. CASE StartExpire
  BY <1>7, <1>8, Zenon DEF StartExpire, Idle, ProbeInv, tvars
<1>9. ASSUME NEW backends \in SUBSET Backends, StartEvictIf(backends)
      PROVE  WalkInv'
  BY <1>7, <1>9, Zenon DEF StartEvictIf, Idle, ProbeInv, tvars
<1>10. ASSUME NEW n \in 1 .. Capacity, StartExpireIncremental(n)
       PROVE  WalkInv'
  BY <1>3, <1>10, Zenon DEF StartExpireIncremental, Idle, Walking
<1>11. ASSUME NEW k \in Keys, NEW b \in Backends, NEW o \in Owners, Put(k, b, o)
       PROVE  WalkInv'
  <2>1. call'.op \in {"idle", "pressure", "retry"}
    <3>1. \/ call' = Idle
          \/ \E s, op : /\ op \in {"pressure", "retry"}
                        /\ call' = [Idle EXCEPT !.op = op, !.session = s]
      BY <1>11, Zenon DEF Put, EvictFor, Update, Insert
    <3>2. ASSUME NEW s, NEW op, call' = [Idle EXCEPT !.op = op, !.session = s]
          PROVE  call'.op = op
      BY <3>2, Zenon DEF Idle
    <3>3. Idle.op = "idle"
      BY Zenon DEF Idle
    <3> QED
      BY <3>1, <3>2, <3>3, Zenon
  <2> QED
    BY <1>3, <2>1, Zenon DEF Walking
<1>12. CASE PutPressure \/ PutRetry \/ Return
  <2>1. call'.op \in {"idle", "retry"}
    <3>1. CASE PutPressure
      BY <3>1, Zenon DEF PutPressure, EvictFor, Idle
    <3>2. CASE PutRetry \/ Return
      <4>1. call' = Idle
        BY <3>2, Zenon DEF PutRetry, SecondWalk, Update, Insert, Return
      <4> QED
        BY <4>1, IdleType, Zenon
    <3> QED
      BY <1>12, <3>1, <3>2, Zenon
  <2> QED
    BY <1>3, <2>1, Zenon DEF Walking
<1>13. CASE \/ Tick \/ \E keep \in BOOLEAN : ExpireScan(keep)
  <2>1. call'.op \in {"idle", "expire_incremental"}
    BY <1>13, Zenon DEF Tick, ExpireScan, TypeOK, Calls
  <2> QED
    BY <1>3, <2>1, Zenon DEF Walking
<1> QED
  BY <1>4, <1>5, <1>6, <1>8, <1>9, <1>10, <1>11, <1>12, <1>13, Zenon
     DEF Next, Step, Call

\* evict_if and the full expiry miss nothing, in a table of any size: a
\* deletion that relocates sessions, across the end of the array too, never
\* moves one the walk has still to look at to a slot it has passed.
THEOREM WalkTheorem == Spec => []WalkComplete
<1>1. Init => ProbeInv /\ WalkInv
  <2> SUFFICES ASSUME Init PROVE ProbeInv /\ WalkInv
    BY Zenon
  <2>1. \A p \in Slots : ~Used(sessions, p)
    BY Zenon DEF Init, Used
  <2>2. 0 \in Slots
    BY CapacityAssumption DEF Slots
  <2>3. cursor = NoCursor /\ ~Walking
    BY Zenon DEF Init, Idle, Walking
  <2> QED
    BY <2>1, <2>2, <2>3, Zenon DEF ProbeInv, WalkInv, Cut
<1>2. TypeOK /\ ProbeInv /\ WalkInv /\ [Next]_vars => WalkInv'
  BY WalkStep, Zenon
<1>3. TypeOK /\ WalkInv => WalkComplete
  <2> SUFFICES ASSUME TypeOK, WalkInv, Walking, call.i = Capacity,
                      NEW p \in Slots
               PROVE  ~Matches(p)
    BY Zenon DEF WalkComplete, Walking
  <2>1. p < call.i
    BY CapacityAssumption DEF Slots
  <2> QED
    BY <2>1, Zenon DEF WalkInv
<1> QED
  BY <1>1, <1>2, <1>3, ProbeStep, TypeCorrect, PTL DEF Spec
=============================================================================
