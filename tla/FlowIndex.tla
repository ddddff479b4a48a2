------------------------------ MODULE FlowIndex ------------------------------
(***************************************************************************)
(* The tuple index of src/src/flow_table.c: an open-addressed array, twice *)
(* as long as the table, of slot numbers plus one.  It holds no tuples: a  *)
(* probe compares with the flows in the slots it meets, and a deletion     *)
(* puts the cluster behind the deleted position back, while the flow that  *)
(* is being removed is still in its slot.                                  *)
(*                                                                         *)
(* FlowOps takes the lookup by tuple for granted (SlotOf); this module     *)
(* shows what it rests on.  Of a flow only the client is kept, the free    *)
(* slots are those without one, and an eviction may choose any flow.       *)
(***************************************************************************)
EXTENDS Integers, FiniteSets

CONSTANTS
  Clients,  \* client tuples, all client_valid
  Capacity, \* table->capacity
  Hash,     \* tuple_hash: the position where the probe of a client starts
  Unused    \* a zeroed slot

Slots == 0 .. Capacity - 1
Positions == 0 .. 2 * Capacity - 1  \* table->index_capacity of them

ASSUME CapacityAssumption == Capacity \in Nat \ {0}
ASSUME HashAssumption == Hash \in [Clients -> Positions]
ASSUME UnusedAssumption == Unused \notin Clients

VARIABLES
  flows,  \* table->flows, the client of each slot
  index,  \* table->index
  cursor, \* index_delete_at's cursor, NoPos outside it
  call    \* the slot being removed, and for an eviction by a put the client
          \* and the index position the put has found for it

vars == <<flows, index, cursor, call>>

NoPos == 2 * Capacity
NoSlot == Capacity
Idle == [slot |-> NoSlot, client |-> Unused, pos |-> NoPos]

UsedSlots == {p \in Slots : flows[p] # Unused}

AfterNoWrap(pos) == pos + 1
After(pos) == IF pos = 2 * Capacity - 1 THEN 0 ELSE pos + 1
Dist(h, pos) == IF pos >= h THEN pos - h ELSE pos - h + 2 * Capacity

\* index_find: the first position from the client's hash that is empty or
\* leads to its flow, NoPos if there is none.
Stops(idx, c) == {pos \in Positions : idx[pos] # 0 => flows[idx[pos] - 1] = c}
IndexFind(idx, c) ==
  IF Stops(idx, c) = {}
  THEN NoPos
  ELSE CHOOSE pos \in Stops(idx, c) :
         \A other \in Stops(idx, c) : Dist(Hash[c], pos) <= Dist(Hash[c], other)

\* qsr_flow_table_get, as a slot.
Get(c) ==
  LET pos == IndexFind(index, c)
  IN IF pos = NoPos \/ index[pos] = 0 THEN NoSlot ELSE index[pos] - 1

Init ==
  /\ flows = [p \in Slots |-> Unused]
  /\ index = [pos \in Positions |-> 0]
  /\ cursor = NoPos
  /\ call = Idle

\* Deviation: the slot is zeroed before its tuple is looked up, in vain.
RemoveZeroed(p, put) ==
  /\ flows' = [flows EXCEPT ![p] = Unused]
  /\ call' = [put EXCEPT !.slot = p]
  /\ cursor' = CHOOSE pos \in Positions : index[pos] = 0
  /\ UNCHANGED index

\* remove_slot up to the loop of index_delete_at; put is the call it is part
\* of, Idle when it is not a put.
RemoveSlot(p, put) ==
  LET pos == IndexFind(index, flows[p])
  IN /\ index' = [index EXCEPT ![pos] = 0]
     /\ cursor' = After(pos)
     /\ call' = [put EXCEPT !.slot = p]
     /\ UNCHANGED flows

Remove(p) == call = Idle /\ p \in UsedSlots /\ RemoveSlot(p, Idle)

\* One turn of the loop.
Reinsert ==
  LET slot == index[cursor] - 1
      rest == [index EXCEPT ![cursor] = 0]
  IN /\ cursor # NoPos
     /\ index[cursor] # 0
     /\ index' = [rest EXCEPT ![IndexFind(rest, flows[slot])] = slot + 1]
     /\ cursor' = After(cursor)
     /\ UNCHANGED <<flows, call>>

\* The rest of remove_slot: the slot is zeroed and free.
ReinsertDone ==
  /\ cursor # NoPos
  /\ index[cursor] = 0
  /\ flows' = [flows EXCEPT ![call.slot] = Unused]
  /\ cursor' = NoPos
  /\ call' = IF call.client = Unused THEN Idle ELSE call
  /\ UNCHANGED index

\* The end of qsr_flow_table_put: a free slot is taken, at an index position.
Insert(pos, c) ==
  \E p \in Slots :
    /\ flows[p] = Unused
    /\ flows' = [flows EXCEPT ![p] = c]
    /\ index' = [index EXCEPT ![pos] = p + 1]
    /\ call' = Idle
    /\ UNCHANGED cursor

\* qsr_flow_table_put of a client without a flow: at once when a slot is free,
\* else an eviction comes first.
Put(c) ==
  LET pos == IndexFind(index, c)
  IN /\ call = Idle
     /\ Get(c) = NoSlot
     /\ IF UsedSlots # Slots
        THEN Insert(pos, c)
        ELSE \E p \in Slots : RemoveSlot(p, [Idle EXCEPT !.client = c, !.pos = pos])

\* Deviation: the insertion position of before the eviction.
PutAfterEvictionStale ==
  /\ cursor = NoPos /\ call.client # Unused
  /\ Insert(call.pos, call.client)

\* "Eviction reshuffled the index probe cluster; re-derive the insert spot."
PutAfterEviction ==
  /\ cursor = NoPos /\ call.client # Unused
  /\ Insert(IndexFind(index, call.client), call.client)

Next ==
  \/ \E c \in Clients : Put(c)
  \/ \E p \in Slots : Remove(p)
  \/ Reinsert \/ ReinsertDone \/ PutAfterEviction

Spec == Init /\ [][Next]_vars

-----------------------------------------------------------------------------
(* Properties *)

TypeOK ==
  /\ flows \in [Slots -> Clients \cup {Unused}]
  /\ index \in [Positions -> 0 .. Capacity]
  /\ cursor \in 0 .. NoPos
  /\ call \in [slot : 0 .. Capacity, client : Clients \cup {Unused}, pos : 0 .. NoPos]
  /\ cursor = NoPos /\ call # Idle => call.client # Unused

\* What FlowOps' SlotOf takes for granted: between calls qsr_flow_table_get
\* finds the flow of every client that has one, and no other client's flow,
\* through every eviction, removal and relocation in the index.
GetFindsFlow ==
  call = Idle =>
    \A c \in Clients :
      IF \E p \in Slots : flows[p] = c THEN Get(c) \in Slots /\ flows[Get(c)] = c
                                       ELSE Get(c) = NoSlot

\* The index holds no position of a flow that is gone: it "cannot" fill up
\* ("which cannot happen at load factor <= 0.5"), and no put overwrites a slot
\* that an old position still leads to.
NoLeftovers ==
  call = Idle =>
    Cardinality({pos \in Positions : index[pos] # 0}) = Cardinality(UsedSlots)
=============================================================================
