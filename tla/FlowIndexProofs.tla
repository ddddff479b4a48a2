--------------------------- MODULE FlowIndexProofs ---------------------------
(***************************************************************************)
(* The tuple index for every capacity, hash function and set of clients:   *)
(* between calls a lookup finds exactly the flow of its client, and no     *)
(* position leads to a slot that was removed.                              *)
(*                                                                         *)
(* In the invariant the positions in use and the flows correspond one to   *)
(* one, except for the flow that is being removed, and the probe of each   *)
(* position is clear of holes, unless the position is in the unbroken run  *)
(* from the cursor of a deletion and so is still to be put back.           *)
(***************************************************************************)
EXTENDS FlowIndex, TLAPS, FiniteSetTheorems, FunctionTheorems, WellFoundedInduction

-----------------------------------------------------------------------------
(* Arithmetic of the probe sequence *)

LEMMA DistFacts ==
  ASSUME NEW h \in Positions
  PROVE  /\ \A pos \in Positions : Dist(h, pos) \in Nat
         /\ \A pos, q \in Positions : Dist(h, pos) = Dist(h, q) => pos = q
         /\ Dist(h, h) = 0
BY CapacityAssumption DEF Dist, Positions

LEMMA AfterFacts ==
  ASSUME NEW pos \in Positions
  PROVE  /\ After(pos) \in Positions /\ After(pos) \in 0 .. NoPos /\ After(pos) # NoPos
         /\ pos \in 0 .. NoPos /\ pos # NoPos
BY CapacityAssumption DEF After, Positions, NoPos

\* If the probe from h to pos crosses c, the positions from the one after c up
\* to pos belong to that probe, and c is not among them.
LEMMA BehindCrossing ==
  ASSUME NEW h \in Positions, NEW c \in Positions, NEW pos \in Positions, NEW q \in Positions,
         Dist(h, c) < Dist(h, pos), Dist(After(c), q) <= Dist(After(c), pos)
  PROVE  q # c /\ (q = pos \/ Dist(h, q) < Dist(h, pos))
BY CapacityAssumption DEF Dist, Positions, After

\* The positions from the one after c up to pos # c are positions from c on.
LEMMA BehindCursor ==
  ASSUME NEW c \in Positions, NEW pos \in Positions, NEW q \in Positions, pos # c,
         Dist(After(c), q) <= Dist(After(c), pos)
  PROVE  q # c /\ Dist(c, q) <= Dist(c, pos)
BY CapacityAssumption DEF Dist, Positions, After

\* A probe stops at the nearest position that is empty or leads to the client.
LEMMA FindStops ==
  ASSUME NEW idx, NEW c \in Clients, Stops(idx, c) # {}
  PROVE  /\ IndexFind(idx, c) \in Stops(idx, c) /\ IndexFind(idx, c) \in Positions
         /\ \A q \in Stops(idx, c) : Dist(Hash[c], IndexFind(idx, c)) <= Dist(Hash[c], q)
<1> DEFINE S == Stops(idx, c)
           D(pos) == Dist(Hash[c], pos)
           T == {D(pos) : pos \in S}
           R == {ss \in Nat \X Nat : ss[1] < ss[2]}
<1>1. S \subseteq Positions /\ Hash[c] \in Positions
  BY HashAssumption, Zenon DEF Stops
<1>2. \A pos \in S : D(pos) \in Nat
  BY <1>1, DistFacts, Zenon
<1>3. T \subseteq Nat /\ T # {}
  BY <1>2, Zenon
<1>4. IsWellFoundedOn(R, Nat)
  BY NatLessThanWellFounded, Zenon DEF OpToRel
<1>5. PICK x \in T : \A y \in T : <<y, x>> \notin R
  BY <1>3, <1>4, WFMin, Zenon
<1>6. \A y \in T : x <= y
  <2>1. \A y \in T : x \in Nat /\ y \in Nat /\ ~(y < x)
    BY <1>3, <1>5, Zenon
  <2> QED
    BY <2>1
<1>7. PICK pos \in S : \A q \in S : D(pos) <= D(q)
  BY <1>6, Zenon
<1>8. IndexFind(idx, c) = CHOOSE r \in S : \A q \in S : D(r) <= D(q)
  BY Zenon DEF IndexFind
<1> HIDE DEF S, D
<1>9. IndexFind(idx, c) \in S /\ \A q \in S : D(IndexFind(idx, c)) <= D(q)
  BY <1>7, <1>8, Zenon
<1> QED
  BY <1>1, <1>9, Zenon DEF S, D

-----------------------------------------------------------------------------
(* The invariant *)

\* Every position that the probe for the flow at pos passes is in use.
Clear(idx, fl, pos) ==
  LET h == Hash[fl[idx[pos] - 1]]
  IN \A q \in Positions : Dist(h, q) < Dist(h, pos) => idx[q] # 0

\* pos is in the unbroken run of positions that starts at the cursor of a
\* deletion: those still to be put back.
InRun(idx, cur, pos) ==
  /\ cur # NoPos
  /\ \A q \in Positions : Dist(cur, q) <= Dist(cur, pos) => idx[q] # 0

\* A position leads to a flow, to no flow that is being removed, and its probe
\* is clear unless the deletion's loop has still to put it back.
PositionFine(pos) ==
  /\ index[pos] - 1 \in UsedSlots
  /\ cursor # NoPos => index[pos] - 1 # call.slot
  /\ Clear(index, flows, pos) \/ InRun(index, cursor, pos)

\* The index is a bijection between the positions in use and the flows, but
\* for the flow that is being removed; no client has two flows, and the one
\* that a put evicts for has none.
IndexInv ==
  /\ \A pos \in Positions : index[pos] # 0 => PositionFine(pos)
  /\ \A pos, q \in Positions : index[pos] # 0 /\ index[pos] = index[q] => pos = q
  /\ \A p \in UsedSlots : \/ cursor # NoPos /\ p = call.slot
                          \/ \E pos \in Positions : index[pos] = p + 1
  /\ \A p, q \in UsedSlots : flows[p] = flows[q] => p = q
  /\ cursor # NoPos => call.slot \in UsedSlots
  /\ call.client # Unused => \A p \in UsedSlots : flows[p] # call.client
  /\ call = Idle => cursor = NoPos

Inv == TypeOK /\ IndexInv

LEMMA FlowTypes ==
  ASSUME Inv
  PROVE  /\ \A p \in UsedSlots : p \in Slots /\ flows[p] \in Clients /\ Hash[flows[p]] \in Positions
         /\ \A pos \in Positions : index[pos] # 0 =>
              index[pos] - 1 \in UsedSlots /\ index[pos] \in Nat
BY HashAssumption DEF Inv, IndexInv, PositionFine, TypeOK, UsedSlots

LEMMA IdleFacts ==
  Idle \in [slot : 0 .. Capacity, client : Clients \cup {Unused}, pos : 0 .. NoPos]
    /\ Idle.client = Unused /\ Idle.slot = NoSlot
BY CapacityAssumption DEF Idle, NoSlot, NoPos

\* A probe for a flow that has a position ends there, unless a deletion has
\* broken it.
LEMMA FindsOwn ==
  ASSUME Inv, NEW pos \in Positions, index[pos] # 0, Clear(index, flows, pos)
  PROVE  IndexFind(index, flows[index[pos] - 1]) = pos
<1> DEFINE c == flows[index[pos] - 1]
           m == IndexFind(index, c)
<1>1. c \in Clients /\ Hash[c] \in Positions
  BY FlowTypes, Zenon
<1>2. pos \in Stops(index, c)
  BY Zenon DEF Stops
<1>3. m \in Positions /\ m \in Stops(index, c) /\ Dist(Hash[c], m) <= Dist(Hash[c], pos)
  BY <1>1, <1>2, FindStops, Zenon
<1>4. Dist(Hash[c], m) \in Nat /\ Dist(Hash[c], pos) \in Nat
  BY <1>1, <1>3, DistFacts, Zenon
<1>5. CASE Dist(Hash[c], m) = Dist(Hash[c], pos)
  BY <1>1, <1>3, <1>5, DistFacts, Zenon
<1>6. CASE Dist(Hash[c], m) < Dist(Hash[c], pos)
  <2>1. index[m] # 0
    BY <1>3, <1>6, Zenon DEF Clear
  <2>2. flows[index[m] - 1] = c
    BY <1>3, <2>1, Zenon DEF Stops
  <2>3. index[m] - 1 = index[pos] - 1
    BY <1>3, <2>1, <2>2, FlowTypes, Zenon DEF Inv, IndexInv
  <2>4. index[m] = index[pos]
    BY <1>3, <2>1, <2>3, FlowTypes
  <2> QED
    BY <1>3, <2>1, <2>4, Zenon DEF Inv, IndexInv
<1> QED
  BY <1>3, <1>4, <1>5, <1>6

\* remove_slot finds the position of the flow, and what its loop will meet are
\* the positions whose probes crossed it.
LEMMA RemoveInv ==
  ASSUME Inv, cursor = NoPos, NEW p \in UsedSlots, NEW put,
         put \in [slot : 0 .. Capacity, client : Clients \cup {Unused}, pos : 0 .. NoPos],
         put.client # Unused => \A q \in UsedSlots : flows[q] # put.client,
         RemoveSlot(p, put)
  PROVE  Inv'
<1>1. PICK pos \in Positions : index[pos] = p + 1
  BY Zenon DEF Inv, IndexInv
<1>2. p \in Slots /\ p \in Nat /\ p # NoSlot /\ index[pos] # 0 /\ index[pos] - 1 = p
  BY <1>1, CapacityAssumption DEF UsedSlots, Slots, NoSlot
<1>3. pos = IndexFind(index, flows[p])
  <2>1. Clear(index, flows, pos)
    BY <1>2, Zenon DEF Inv, IndexInv, PositionFine, InRun
  <2> QED
    BY <1>2, <2>1, FindsOwn, Zenon
<1>4. /\ index' = [index EXCEPT ![pos] = 0] /\ cursor' = After(pos)
      /\ call' = [put EXCEPT !.slot = p] /\ flows' = flows
  BY <1>3, Zenon DEF RemoveSlot
<1>5. /\ index \in [Positions -> 0 .. Capacity]
      /\ call'.slot = p /\ call'.client = put.client
      /\ call' \in [slot : 0 .. Capacity, client : Clients \cup {Unused}, pos : 0 .. NoPos]
  <2>1. p \in 0 .. Capacity
    BY <1>2, CapacityAssumption DEF Slots
  <2>2. index \in [Positions -> 0 .. Capacity]
    BY Zenon DEF Inv, TypeOK
  <2> QED
    BY <1>4, <2>1, <2>2, Zenon
<1>6. \A q \in Positions : index'[q] = IF q = pos THEN 0 ELSE index[q]
  BY <1>4, <1>5, Zenon
<1>7. cursor' # NoPos /\ cursor' \in 0 .. NoPos /\ UsedSlots' = UsedSlots
  BY <1>4, AfterFacts, Zenon DEF UsedSlots
<1>8. ASSUME NEW q \in Positions, index'[q] # 0
      PROVE  /\ q # pos /\ index'[q] = index[q] /\ index[q] - 1 # p
             /\ Clear(index', flows, q) \/ InRun(index', cursor', q)
  <2>1. q # pos /\ index'[q] = index[q] /\ index[q] # 0
    BY <1>6, <1>8, Zenon
  <2>2. index[q] - 1 # p
    BY <1>1, <1>2, <2>1, FlowTypes DEF Inv, IndexInv
  <2>3. Clear(index, flows, q)
    BY <2>1, Zenon DEF Inv, IndexInv, PositionFine, InRun
  <2> DEFINE h == Hash[flows[index[q] - 1]]
  <2>4. h \in Positions
    BY <2>1, FlowTypes, Zenon
  <2>5. CASE Dist(h, pos) < Dist(h, q)
    <3>1. ASSUME NEW r \in Positions, Dist(After(pos), r) <= Dist(After(pos), q)
          PROVE  index'[r] # 0
      <4>1. r # pos /\ (r = q \/ Dist(h, r) < Dist(h, q))
        BY <2>4, <2>5, <3>1, BehindCrossing, Zenon
      <4> QED
        BY <1>6, <2>1, <2>3, <4>1, Zenon DEF Clear
    <3> QED
      BY <1>4, <1>7, <2>1, <2>2, <3>1, Zenon DEF InRun
  <2>6. CASE ~(Dist(h, pos) < Dist(h, q))
    BY <1>6, <2>1, <2>2, <2>3, <2>6, Zenon DEF Clear
  <2> QED
    BY <2>5, <2>6, Zenon
<1>9. \A q \in Positions : index'[q] # 0 => PositionFine(q)'
  BY <1>4, <1>5, <1>7, <1>8, FlowTypes, Zenon DEF PositionFine
<1>10. \A q, r \in Positions : index'[q] # 0 /\ index'[q] = index'[r] => q = r
  BY <1>6, Zenon DEF Inv, IndexInv
<1>11. \A q \in UsedSlots' : q = call'.slot \/ \E r \in Positions : index'[r] = q + 1
  BY <1>1, <1>2, <1>5, <1>6, <1>7 DEF Inv, IndexInv, UsedSlots, Slots
<1>12. call' # Idle
  BY <1>2, <1>5, IdleFacts, Zenon
<1>13. IndexInv'
  BY <1>4, <1>5, <1>7, <1>9, <1>10, <1>11, <1>12, Zenon DEF Inv, IndexInv
<1>14. TypeOK'
  <2>1. index' \in [Positions -> 0 .. Capacity]
    BY <1>4, <1>5, CapacityAssumption
  <2> QED
    BY <1>4, <1>5, <1>7, <2>1, Zenon DEF Inv, TypeOK
<1> QED
  BY <1>13, <1>14, Zenon DEF Inv

\* One turn of the loop: the flow at the cursor is put back where its probe
\* now stops.
LEMMA ReinsertInv ==
  ASSUME Inv, Reinsert
  PROVE  Inv'
<1> DEFINE slot == index[cursor] - 1
           c == flows[slot]
           rest == [index EXCEPT ![cursor] = 0]
           m == IndexFind(rest, c)
<1>1. /\ cursor # NoPos /\ index[cursor] # 0 /\ index' = [rest EXCEPT ![m] = slot + 1]
      /\ cursor' = After(cursor) /\ flows' = flows /\ call' = call
  BY Zenon DEF Reinsert
<1>2. cursor \in Positions /\ index \in [Positions -> 0 .. Capacity]
  BY <1>1, CapacityAssumption DEF Inv, TypeOK, NoPos, Positions
<1>3. slot \in UsedSlots /\ slot # call.slot /\ c \in Clients /\ slot + 1 = index[cursor]
      /\ Hash[c] \in Positions /\ slot + 1 \in 0 .. Capacity
  <2>1. PositionFine(cursor)
    BY <1>1, <1>2, Zenon DEF Inv, IndexInv
  <2> QED
    BY <1>1, <1>2, <2>1, FlowTypes DEF PositionFine
<1>4. \A q \in Positions : rest[q] = IF q = cursor THEN 0 ELSE index[q]
  BY <1>2, Zenon
<1>5. rest \in [Positions -> 0 .. Capacity]
  BY <1>2, CapacityAssumption
<1> HIDE DEF rest
<1>6. /\ m \in Stops(rest, c) /\ m \in Positions
      /\ \A q \in Stops(rest, c) : Dist(Hash[c], m) <= Dist(Hash[c], q)
  <2>1. cursor \in Stops(rest, c)
    BY <1>2, <1>4, Zenon DEF Stops
  <2> QED
    BY <1>3, <2>1, FindStops, Zenon
<1> HIDE DEF m
<1>7. rest[m] = 0
  <2> SUFFICES ASSUME rest[m] # 0 PROVE FALSE
    BY Zenon
  <2>1. m # cursor /\ index[m] # 0 /\ flows[index[m] - 1] = c
    BY <1>4, <1>6, Zenon DEF Stops
  <2>2. index[m] - 1 = slot
    BY <1>3, <1>6, <2>1, FlowTypes, Zenon DEF Inv, IndexInv
  <2>3. index[m] = index[cursor]
    BY <1>3, <1>6, <2>1, <2>2, FlowTypes
  <2> QED
    BY <1>2, <1>6, <2>1, <2>3, Zenon DEF Inv, IndexInv
<1>8. \A q \in Positions : index'[q] = IF q = m THEN slot + 1 ELSE rest[q]
  BY <1>1, <1>5, Zenon
<1>9. index' \in [Positions -> 0 .. Capacity]
  BY <1>1, <1>3, <1>5, Zenon
<1>10. \A q \in Positions : q # cursor /\ index[q] # 0 => index'[q] # 0
  BY <1>1, <1>3, <1>4, <1>8, Zenon
<1>11. cursor' # NoPos /\ cursor' \in 0 .. NoPos /\ UsedSlots' = UsedSlots
  BY <1>1, <1>2, AfterFacts, Zenon DEF UsedSlots
<1>12. ASSUME NEW q \in Positions, index'[q] # 0
       PROVE  \/ q = m /\ index'[q] = slot + 1
              \/ q # m /\ q # cursor /\ index'[q] = index[q] /\ index[q] # 0 /\ index[q] # slot + 1
  BY <1>2, <1>3, <1>4, <1>8, <1>12, Zenon DEF Inv, IndexInv
<1> HIDE DEF slot, c
<1>13. Clear(index', flows, m)
  <2>1. index'[m] - 1 = slot /\ flows[slot] = c
    BY <1>3, <1>6, <1>8 DEF c, UsedSlots, Slots
  <2>2. ASSUME NEW q \in Positions, Dist(Hash[c], q) < Dist(Hash[c], m) PROVE index'[q] # 0
    <3>1. q # m /\ q \notin Stops(rest, c)
      BY <1>3, <1>6, <2>2, DistFacts
    <3> QED
      BY <1>8, <3>1, Zenon DEF Stops
  <2> QED
    BY <2>1, <2>2, Zenon DEF Clear
<1>14. ASSUME NEW q \in Positions, q # m, q # cursor, index[q] # 0, index'[q] = index[q]
       PROVE  Clear(index', flows, q) \/ InRun(index', cursor', q)
  <2> DEFINE h == Hash[flows[index[q] - 1]]
  <2>1. h \in Positions
    BY <1>14, FlowTypes, Zenon
  <2>2. CASE InRun(index, cursor, q)
    <3>1. ASSUME NEW r \in Positions, Dist(After(cursor), r) <= Dist(After(cursor), q)
          PROVE  index'[r] # 0
      <4>1. r # cursor /\ Dist(cursor, r) <= Dist(cursor, q)
        BY <1>2, <1>14, <3>1, BehindCursor, Zenon
      <4> QED
        BY <1>10, <2>2, <4>1, Zenon DEF InRun
    <3> QED
      BY <1>1, <1>11, <3>1, Zenon DEF InRun
  <2>3. CASE Clear(index, flows, q) /\ Dist(h, cursor) < Dist(h, q)
    <3>1. ASSUME NEW r \in Positions, Dist(After(cursor), r) <= Dist(After(cursor), q)
          PROVE  index'[r] # 0
      <4>1. r # cursor /\ (r = q \/ Dist(h, r) < Dist(h, q))
        BY <1>2, <2>1, <2>3, <3>1, BehindCrossing, Zenon
      <4> QED
        BY <1>10, <1>14, <2>3, <4>1, Zenon DEF Clear
    <3> QED
      BY <1>1, <1>11, <3>1, Zenon DEF InRun
  <2>4. CASE Clear(index, flows, q) /\ ~(Dist(h, cursor) < Dist(h, q))
    BY <1>10, <1>14, <2>4, Zenon DEF Clear
  <2> QED
    BY <1>14, <2>2, <2>3, <2>4, Zenon DEF Inv, IndexInv, PositionFine
<1>15. \A q \in Positions : index'[q] # 0 => PositionFine(q)'
  <2> SUFFICES ASSUME NEW q \in Positions, index'[q] # 0
               PROVE  /\ index'[q] - 1 \in UsedSlots /\ index'[q] - 1 # call.slot
                      /\ Clear(index', flows, q) \/ InRun(index', cursor', q)
    BY <1>1, <1>11, Zenon DEF PositionFine
  <2>1. CASE q = m
    BY <1>3, <1>12, <1>13, <2>1 DEF UsedSlots, Slots
  <2>2. CASE q # m
    BY <1>1, <1>12, <1>14, <2>2, Zenon DEF Inv, IndexInv, PositionFine
  <2> QED
    BY <2>1, <2>2, Zenon
<1>16. \A q, r \in Positions : index'[q] # 0 /\ index'[q] = index'[r] => q = r
  BY <1>12, Zenon DEF Inv, IndexInv
<1>17. \A q \in UsedSlots : q = call.slot \/ \E r \in Positions : index'[r] = q + 1
  <2> SUFFICES ASSUME NEW q \in UsedSlots, q # call.slot
               PROVE  \E r \in Positions : index'[r] = q + 1
    BY Zenon
  <2>1. PICK r \in Positions : index[r] = q + 1
    BY Zenon DEF Inv, IndexInv
  <2>2. CASE r = cursor
    BY <1>3, <1>6, <1>8, <2>1, <2>2, Zenon
  <2>3. CASE r # cursor
    <3>1. r # m
      BY <1>4, <1>7, <2>1, <2>3 DEF UsedSlots, Slots
    <3> QED
      BY <1>4, <1>8, <2>1, <2>3, <3>1, Zenon
  <2> QED
    BY <2>2, <2>3, Zenon
<1>18. IndexInv'
  BY <1>1, <1>11, <1>15, <1>16, <1>17, Zenon DEF Inv, IndexInv
<1> QED
  BY <1>1, <1>9, <1>11, <1>18, Zenon DEF Inv, TypeOK

\* The end of remove_slot: the loop has met an empty position, so that it has
\* put everything back, and no position leads to the slot that is zeroed.
LEMMA DoneInv ==
  ASSUME Inv, ReinsertDone
  PROVE  Inv'
<1>1. /\ cursor # NoPos /\ index[cursor] = 0 /\ flows' = [flows EXCEPT ![call.slot] = Unused]
      /\ cursor' = NoPos /\ call' = (IF call.client = Unused THEN Idle ELSE call)
      /\ index' = index
  BY Zenon DEF ReinsertDone
<1>2. /\ cursor \in Positions /\ index \in [Positions -> 0 .. Capacity]
      /\ flows \in [Slots -> Clients \cup {Unused}] /\ call.slot \in UsedSlots
      /\ call.slot \in Slots
  BY <1>1, CapacityAssumption DEF Inv, IndexInv, TypeOK, NoPos, Positions, UsedSlots
<1>3. \A p \in Slots : flows'[p] = IF p = call.slot THEN Unused ELSE flows[p]
  BY <1>1, <1>2, Zenon
<1>4. UsedSlots' = UsedSlots \ {call.slot}
  BY <1>3, Zenon DEF UsedSlots
<1>5. ASSUME NEW pos \in Positions, index[pos] # 0
      PROVE  PositionFine(pos)'
  <2>1. /\ index[pos] - 1 \in UsedSlots /\ index[pos] - 1 # call.slot
        /\ Clear(index, flows, pos) \/ InRun(index, cursor, pos)
    BY <1>1, <1>5, Zenon DEF Inv, IndexInv, PositionFine
  <2>2. ~InRun(index, cursor, pos)
    <3>1. Dist(cursor, cursor) <= Dist(cursor, pos)
      BY <1>2, DistFacts
    <3> QED
      BY <1>1, <1>2, <3>1, Zenon DEF InRun
  <2>3. flows'[index[pos] - 1] = flows[index[pos] - 1]
    BY <1>3, <2>1, Zenon DEF UsedSlots
  <2>4. Clear(index', flows', pos)
    BY <1>1, <2>1, <2>2, <2>3, Zenon DEF Clear
  <2> QED
    BY <1>1, <1>4, <2>1, <2>4, Zenon DEF PositionFine
<1>6. call'.client = call.client /\ (call' = Idle \/ call' = call)
  BY <1>1, IdleFacts, Zenon
<1>7. IndexInv'
  <2>1. \A pos, q \in Positions : index'[pos] # 0 /\ index'[pos] = index'[q] => pos = q
    BY <1>1, Zenon DEF Inv, IndexInv
  <2>2. \A p \in UsedSlots' : \E pos \in Positions : index'[pos] = p + 1
    BY <1>1, <1>4, Zenon DEF Inv, IndexInv
  <2>3. \A p, q \in UsedSlots' : flows'[p] = flows'[q] => p = q
    BY <1>3, <1>4, Zenon DEF Inv, IndexInv, UsedSlots
  <2>4. call'.client # Unused => \A p \in UsedSlots' : flows'[p] # call'.client
    BY <1>3, <1>4, <1>6, Zenon DEF Inv, IndexInv, UsedSlots
  <2> QED
    BY <1>1, <1>5, <2>1, <2>2, <2>3, <2>4, Zenon DEF IndexInv
<1>8. TypeOK'
  <2>1. flows' \in [Slots -> Clients \cup {Unused}] /\ cursor' \in 0 .. NoPos
    BY <1>1, <1>2, CapacityAssumption DEF NoPos
  <2>2. call' \in [slot : 0 .. Capacity, client : Clients \cup {Unused}, pos : 0 .. NoPos]
    BY <1>6, IdleFacts, Zenon DEF Inv, TypeOK
  <2>3. call' # Idle => call'.client # Unused
    BY <1>1, Zenon
  <2> QED
    BY <1>1, <1>2, <2>1, <2>2, <2>3, Zenon DEF TypeOK
<1> QED
  BY <1>7, <1>8, Zenon DEF Inv

-----------------------------------------------------------------------------
(* Room in the index *)

InUse == {pos \in Positions : index[pos] # 0}

LEMMA SlotsFinite ==
  /\ IsFiniteSet(UsedSlots) /\ Cardinality(UsedSlots) \in Nat /\ Cardinality(UsedSlots) <= Capacity
  /\ IsFiniteSet(Positions) /\ Cardinality(Positions) = 2 * Capacity
<1>1. /\ IsFiniteSet(0 .. Capacity - 1)
      /\ Cardinality(0 .. Capacity - 1) = (Capacity - 1) - 0 + 1
  <2>1. 0 \in Int /\ Capacity - 1 \in Int /\ ~(0 > Capacity - 1)
    BY CapacityAssumption
  <2> QED
    BY <2>1, FS_Interval, Zenon
<1>2. /\ IsFiniteSet(0 .. 2 * Capacity - 1)
      /\ Cardinality(0 .. 2 * Capacity - 1) = (2 * Capacity - 1) - 0 + 1
  <2>1. 0 \in Int /\ 2 * Capacity - 1 \in Int /\ ~(0 > 2 * Capacity - 1)
    BY CapacityAssumption
  <2> QED
    BY <2>1, FS_Interval, Zenon
<1>3. UsedSlots \in SUBSET (0 .. Capacity - 1)
  BY Zenon DEF UsedSlots, Slots
<1>4. IsFiniteSet(UsedSlots) /\ Cardinality(UsedSlots) <= Cardinality(0 .. Capacity - 1)
  BY <1>1, <1>3, FS_Subset, Zenon
<1>5. Cardinality(UsedSlots) \in Nat
  BY <1>4, FS_CardinalityType, Zenon
<1> QED
  BY <1>1, <1>2, <1>4, <1>5, CapacityAssumption DEF Positions

\* Outside a deletion the positions in use are as many as the flows.
LEMMA InUseCount ==
  ASSUME Inv, cursor = NoPos
  PROVE  Cardinality(InUse) = Cardinality(UsedSlots)
<1> DEFINE f == [pos \in InUse |-> index[pos] - 1]
<1>1. f \in [InUse -> UsedSlots]
  BY FlowTypes, Zenon DEF InUse
<1>2. \A pos, q \in InUse : f[pos] = f[q] => pos = q
  <2> SUFFICES ASSUME NEW pos \in InUse, NEW q \in InUse, index[pos] - 1 = index[q] - 1
               PROVE  pos = q
    BY Zenon
  <2>1. index[pos] \in Nat /\ index[q] \in Nat /\ index[pos] # 0 /\ pos \in Positions
        /\ q \in Positions
    BY FlowTypes, Zenon DEF InUse
  <2>2. index[pos] = index[q]
    BY <2>1
  <2> QED
    BY <2>1, <2>2, Zenon DEF Inv, IndexInv
<1>3. \A p \in UsedSlots : \E pos \in InUse : f[pos] = p
  <2> SUFFICES ASSUME NEW p \in UsedSlots
               PROVE  \E pos \in InUse : f[pos] = p
    BY Zenon
  <2>1. PICK pos \in Positions : index[pos] = p + 1
    BY Zenon DEF Inv, IndexInv
  <2>2. p \in Nat
    BY DEF UsedSlots, Slots
  <2>3. pos \in InUse /\ index[pos] - 1 = p
    BY <2>1, <2>2 DEF InUse
  <2> QED
    BY <2>3, Zenon
<1> HIDE DEF f
<1>4. f \in Bijection(InUse, UsedSlots)
  BY <1>1, <1>2, <1>3, Fun_IsBij, Zenon
<1>5. IsFiniteSet(InUse)
  <2>1. InUse \in SUBSET Positions
    BY Zenon DEF InUse
  <2> QED
    BY <2>1, SlotsFinite, FS_Subset, Zenon
<1>6. ExistsBijection(InUse, UsedSlots)
  BY <1>4, Fun_ExistsBij, Zenon
<1> QED
  BY <1>5, <1>6, FS_Bijection, Zenon

\* "cannot happen at load factor <= 0.5": a probe finds a position.
LEMMA FindsRoom ==
  ASSUME Inv, cursor = NoPos, NEW c \in Clients
  PROVE  /\ IndexFind(index, c) \in Positions /\ IndexFind(index, c) \in Stops(index, c)
         /\ \A q \in Stops(index, c) : Dist(Hash[c], IndexFind(index, c)) <= Dist(Hash[c], q)
<1>1. InUse # Positions
  BY InUseCount, SlotsFinite, CapacityAssumption
<1>2. PICK pos \in Positions : index[pos] = 0
  BY <1>1, Zenon DEF InUse
<1>3. Stops(index, c) # {}
  BY <1>2, Zenon DEF Stops
<1> QED
  BY <1>3, FindStops, Zenon

\* A probe for a client without a flow ends at an empty position.
LEMMA FindsEmpty ==
  ASSUME Inv, cursor = NoPos, NEW c \in Clients, \A p \in UsedSlots : flows[p] # c
  PROVE  index[IndexFind(index, c)] = 0
<1> DEFINE m == IndexFind(index, c)
<1>1. m \in Positions /\ (index[m] # 0 => flows[index[m] - 1] = c)
  BY FindsRoom, Zenon DEF Stops
<1> HIDE DEF m
<1>2. index[m] = 0
  BY <1>1, FlowTypes, Zenon
<1> QED
  BY <1>2, Zenon DEF m

LEMMA InsertInv ==
  ASSUME Inv, cursor = NoPos, NEW c \in Clients, \A p \in UsedSlots : flows[p] # c,
         Insert(IndexFind(index, c), c)
  PROVE  Inv'
<1> DEFINE m == IndexFind(index, c)
<1>1. PICK p \in Slots :
        /\ flows[p] = Unused /\ flows' = [flows EXCEPT ![p] = c]
        /\ index' = [index EXCEPT ![m] = p + 1] /\ call' = Idle /\ cursor' = cursor
  BY Zenon DEF Insert
<1>2. /\ m \in Positions /\ index[m] = 0
      /\ \A q \in Stops(index, c) : Dist(Hash[c], m) <= Dist(Hash[c], q)
  BY FindsRoom, FindsEmpty, Zenon
<1> HIDE DEF m
<1>3. /\ index \in [Positions -> 0 .. Capacity] /\ flows \in [Slots -> Clients \cup {Unused}]
      /\ p \in Nat /\ p + 1 \in 0 .. Capacity /\ c # Unused /\ Hash[c] \in Positions
  BY CapacityAssumption, UnusedAssumption, HashAssumption DEF Inv, TypeOK, Slots
<1>4. /\ \A q \in Positions : index'[q] = IF q = m THEN p + 1 ELSE index[q]
      /\ \A q \in Slots : flows'[q] = IF q = p THEN c ELSE flows[q]
  BY <1>1, <1>3, Zenon
<1>5. UsedSlots' = UsedSlots \cup {p} /\ p \notin UsedSlots
  BY <1>1, <1>3, <1>4, Zenon DEF UsedSlots
<1>6. ASSUME NEW pos \in Positions, pos # m, index'[pos] # 0
      PROVE  /\ index'[pos] = index[pos] /\ index[pos] - 1 \in UsedSlots
             /\ index[pos] # p + 1 /\ Clear(index', flows', pos)
  <2>1. index'[pos] = index[pos] /\ index[pos] - 1 \in UsedSlots /\ index[pos] \in Nat
    BY <1>4, <1>6, FlowTypes, Zenon
  <2>2. index[pos] # p + 1
    BY <1>3, <1>5, <2>1
  <2>3. Clear(index, flows, pos)
    BY <1>6, <2>1, Zenon DEF Inv, IndexInv, PositionFine, InRun
  <2>4. flows'[index[pos] - 1] = flows[index[pos] - 1]
    BY <1>4, <1>5, <2>1, Zenon DEF UsedSlots
  <2>5. \A q \in Positions : index[q] # 0 => index'[q] # 0
    BY <1>3, <1>4
  <2> QED
    BY <2>1, <2>2, <2>3, <2>4, <2>5, Zenon DEF Clear
<1>7. index'[m] - 1 = p /\ Clear(index', flows', m)
  <2>1. index'[m] - 1 = p /\ flows'[p] = c
    BY <1>2, <1>3, <1>4
  <2>2. ASSUME NEW q \in Positions, Dist(Hash[c], q) < Dist(Hash[c], m) PROVE index'[q] # 0
    <3>1. q # m /\ q \notin Stops(index, c)
      BY <1>2, <1>3, <2>2, DistFacts
    <3> QED
      BY <1>4, <3>1, Zenon DEF Stops
  <2> QED
    BY <2>1, <2>2, Zenon DEF Clear
<1>8. \A pos \in Positions : index'[pos] # 0 => PositionFine(pos)'
  <2> SUFFICES ASSUME NEW pos \in Positions, index'[pos] # 0
               PROVE  index'[pos] - 1 \in UsedSlots' /\ Clear(index', flows', pos)
    BY <1>1, Zenon DEF PositionFine
  <2>1. CASE pos = m
    BY <1>5, <1>7, <2>1, Zenon
  <2>2. CASE pos # m
    BY <1>5, <1>6, <2>2, Zenon
  <2> QED
    BY <2>1, <2>2, Zenon
<1>9. IndexInv'
  <2>1. \A pos, q \in Positions : index'[pos] # 0 /\ index'[pos] = index'[q] => pos = q
    BY <1>4, <1>6 DEF Inv, IndexInv
  <2>2. \A q \in UsedSlots' : \E pos \in Positions : index'[pos] = q + 1
    <3>1. \A q \in UsedSlots : \E pos \in Positions : index[pos] = q + 1 /\ pos # m
      BY <1>2 DEF Inv, IndexInv, UsedSlots, Slots
    <3> QED
      BY <1>2, <1>4, <1>5, <3>1, Zenon
  <2>3. \A q, r \in UsedSlots' : flows'[q] = flows'[r] => q = r
    BY <1>4, <1>5 DEF Inv, IndexInv, UsedSlots
  <2> QED
    BY <1>1, <1>8, <2>1, <2>2, <2>3, IdleFacts, Zenon DEF IndexInv
<1>10. TypeOK'
  <2>1. index' \in [Positions -> 0 .. Capacity] /\ flows' \in [Slots -> Clients \cup {Unused}]
    BY <1>1, <1>3, Zenon
  <2> QED
    BY <1>1, <2>1, IdleFacts, Zenon DEF Inv, TypeOK
<1> QED
  BY <1>9, <1>10, Zenon DEF Inv

-----------------------------------------------------------------------------
(* The steps *)

\* Outside a deletion get finds the flow of a client, and no other.
LEMMA GetExact ==
  ASSUME Inv, cursor = NoPos, NEW c \in Clients
  PROVE  /\ \A p \in UsedSlots : flows[p] = c => Get(c) = p
         /\ (\A p \in UsedSlots : flows[p] # c) => Get(c) = NoSlot
<1> DEFINE m == IndexFind(index, c)
<1>1. m \in Positions /\ m # NoPos
  BY FindsRoom, AfterFacts, Zenon
<1>2. Get(c) = IF m = NoPos \/ index[m] = 0 THEN NoSlot ELSE index[m] - 1
  BY Zenon DEF Get
<1>3. ASSUME NEW p \in UsedSlots, flows[p] = c PROVE Get(c) = p
  <2>1. PICK pos \in Positions : index[pos] = p + 1
    BY Zenon DEF Inv, IndexInv
  <2>2. p \in Nat
    BY DEF UsedSlots, Slots
  <2>3. index[pos] # 0 /\ index[pos] - 1 = p
    BY <2>1, <2>2
  <2>4. Clear(index, flows, pos)
    BY <2>3, Zenon DEF Inv, IndexInv, PositionFine, InRun
  <2>5. m = pos
    BY <1>3, <2>3, <2>4, FindsOwn, Zenon
  <2> QED
    BY <1>1, <1>2, <2>3, <2>5, Zenon
<1>4. ASSUME \A p \in UsedSlots : flows[p] # c PROVE Get(c) = NoSlot
  <2>1. index[m] = 0
    BY <1>4, FindsEmpty, Zenon
  <2> QED
    BY <1>2, <2>1, Zenon
<1> QED
  BY <1>3, <1>4, Zenon

LEMMA PutInv ==
  ASSUME Inv, NEW c \in Clients, Put(c)
  PROVE  Inv'
<1>1. call = Idle /\ cursor = NoPos /\ Get(c) = NoSlot
  BY Zenon DEF Put, Inv, IndexInv
<1>2. \A p \in UsedSlots : flows[p] # c
  <2>1. \A p \in UsedSlots : p # NoSlot
    BY CapacityAssumption DEF UsedSlots, Slots, NoSlot
  <2> QED
    BY <1>1, <2>1, GetExact, Zenon
<1>3. CASE UsedSlots # Slots
  BY <1>1, <1>2, <1>3, InsertInv, Zenon DEF Put
<1>4. CASE UsedSlots = Slots
  <2> DEFINE put == [Idle EXCEPT !.client = c, !.pos = IndexFind(index, c)]
  <2>1. PICK p \in Slots : RemoveSlot(p, put)
    BY <1>4, Zenon DEF Put
  <2>2. /\ put \in [slot : 0 .. Capacity, client : Clients \cup {Unused}, pos : 0 .. NoPos]
        /\ put.client = c
    <3>1. IndexFind(index, c) \in 0 .. NoPos
      BY <1>1, FindsRoom, AfterFacts, Zenon
    <3> QED
      BY <3>1, IdleFacts, Zenon
  <2> HIDE DEF put
  <2> QED
    BY <1>1, <1>2, <1>4, <2>1, <2>2, RemoveInv, Zenon
<1> QED
  BY <1>3, <1>4, Zenon

LEMMA InvInit == Init => Inv
<1> SUFFICES ASSUME Init PROVE Inv
  BY Zenon
<1>1. /\ UsedSlots = {} /\ \A pos \in Positions : index[pos] = 0
      /\ cursor = NoPos /\ call = Idle
  BY Zenon DEF Init, UsedSlots
<1>2. IndexInv
  BY <1>1, IdleFacts, Zenon DEF IndexInv
<1>3. TypeOK
  <2>1. NoPos \in 0 .. NoPos /\ 0 \in 0 .. Capacity
    BY CapacityAssumption DEF NoPos
  <2> QED
    BY <2>1, IdleFacts, Zenon DEF Init, TypeOK
<1> QED
  BY <1>2, <1>3, Zenon DEF Inv

LEMMA InvStep == Inv /\ [Next]_vars => Inv'
<1> SUFFICES ASSUME Inv, [Next]_vars PROVE Inv'
  BY Zenon
<1>1. ASSUME NEW c \in Clients, Put(c) PROVE Inv'
  BY <1>1, PutInv, Zenon
<1>2. ASSUME NEW p \in Slots, Remove(p) PROVE Inv'
  <2>1. call = Idle /\ cursor = NoPos /\ p \in UsedSlots /\ RemoveSlot(p, Idle)
    BY <1>2, Zenon DEF Remove, Inv, IndexInv
  <2> QED
    BY <2>1, IdleFacts, RemoveInv, Zenon
<1>3. CASE Reinsert \/ ReinsertDone
  BY <1>3, ReinsertInv, DoneInv, Zenon
<1>4. CASE PutAfterEviction
  <2>1. /\ cursor = NoPos /\ call.client # Unused
        /\ Insert(IndexFind(index, call.client), call.client)
    BY <1>4, Zenon DEF PutAfterEviction
  <2>2. call.client \in Clients /\ \A p \in UsedSlots : flows[p] # call.client
    BY <2>1, Zenon DEF Inv, TypeOK, IndexInv
  <2> QED
    BY <2>1, <2>2, InsertInv, Zenon
<1>5. CASE UNCHANGED vars
  BY <1>5, Zenon DEF vars, Inv, TypeOK, IndexInv, PositionFine, UsedSlots
<1> QED
  BY <1>1, <1>2, <1>3, <1>4, <1>5, Zenon DEF Next

-----------------------------------------------------------------------------
(* Theorems *)

\* The array, the slots and the cursor of a deletion keep their types: the
\* index is never written at a position it does not have.
THEOREM TypeOKTheorem == Spec => []TypeOK
<1>1. Inv => TypeOK
  BY Zenon DEF Inv
<1> QED
  BY <1>1, InvInit, InvStep, PTL DEF Spec

\* Between calls qsr_flow_table_get finds the flow of every client that has
\* one, and no other client's flow, for every capacity and hash function.
THEOREM GetFindsFlowTheorem == Spec => []GetFindsFlow
<1>1. Inv => GetFindsFlow
  <2> SUFFICES ASSUME Inv, call = Idle, NEW c \in Clients
               PROVE  IF \E p \in Slots : flows[p] = c
                      THEN Get(c) \in Slots /\ flows[Get(c)] = c ELSE Get(c) = NoSlot
    BY Zenon DEF GetFindsFlow
  <2>1. cursor = NoPos
    BY Zenon DEF Inv, IndexInv
  <2>2. \A p \in Slots : flows[p] = c => p \in UsedSlots
    BY UnusedAssumption, Zenon DEF UsedSlots
  <2>3. \A p \in UsedSlots : p \in Slots
    BY Zenon DEF UsedSlots
  <2> QED
    BY <2>1, <2>2, <2>3, GetExact, Zenon
<1> QED
  BY <1>1, InvInit, InvStep, PTL DEF Spec

\* Between calls the index has as many positions in use as there are flows:
\* none is left of a flow that is gone, and half of the array stays empty.
THEOREM NoLeftoversTheorem == Spec => []NoLeftovers
<1>1. Inv => NoLeftovers
  <2> SUFFICES ASSUME Inv, call = Idle
               PROVE  Cardinality({pos \in Positions : index[pos] # 0}) = Cardinality(UsedSlots)
    BY Zenon DEF NoLeftovers
  <2>1. cursor = NoPos
    BY Zenon DEF Inv, IndexInv
  <2> QED
    BY <2>1, InUseCount, Zenon DEF InUse
<1> QED
  BY <1>1, InvInit, InvStep, PTL DEF Spec
=============================================================================
