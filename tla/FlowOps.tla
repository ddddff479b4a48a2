------------------------------- MODULE FlowOps -------------------------------
(***************************************************************************)
(* The flow table of src/src/flow_table.c and its one client, flow_acquire *)
(* of src/src/udp.c.  A flow is a client tuple's own upstream socket.      *)
(* Flows sit in slots that never move, unused slots on a stack, and a      *)
(* session-table entry refers to its flow as (slot, generation id).        *)
(*                                                                         *)
(* The operations are operators on a table record, so that a call that     *)
(* makes other calls (an acquire that evicts to get a descriptor, a put    *)
(* that evicts to get a slot) composes them, and so that every module with *)
(* flows uses the same ones.  The tuple index is abstract here: SlotOf     *)
(* finds the flow of a client.                                             *)
(***************************************************************************)
EXTENDS Integers, Sequences, FiniteSets

CONSTANTS
  Clients,         \* client tuples, all client_valid
  Backends,        \* backend addresses
  Fds,             \* descriptor numbers below the process's limit
  Capacity,        \* table->capacity
  Unused,          \* a zeroed slot
  IdleTimeout,     \* idle_timeout_seconds
  EvictScanBudget  \* QSR_FLOW_EVICT_SCAN_BUDGET

Slots == 0 .. Capacity - 1
Flow == [client : Clients, backend : Backends, fd : Fds, id : Nat, last_seen : Nat]

ASSUME CapacityAssumption == Capacity \in Nat \ {0}
ASSUME FdsAssumption == Fds \subseteq Nat
ASSUME UnusedAssumption == Unused \notin Flow
ASSUME LimitAssumption == /\ EvictScanBudget \in Nat \ {0}
                          /\ IdleTimeout \in Nat

NoSlot == Capacity
NoFd == -1

\* free_slots is the live part of the stack, its top last; fds the flow
\* sockets the kernel has open.
Tables == [flows : [Slots -> Flow \cup {Unused}], free_slots : Seq(Slots),
           count : Int, next_id : Nat, expire_cursor : Slots,
           evict_cursor : Slots, fds : SUBSET Fds]

Empty ==
  [flows |-> [p \in Slots |-> Unused],
   free_slots |-> [i \in 1 .. Capacity |-> Capacity - i],
   count |-> 0, next_id |-> 1, expire_cursor |-> 0, evict_cursor |-> 0,
   fds |-> {}]

Used(t, p) == t.flows[p] # Unused
UsedSlots(t) == {p \in Slots : Used(t, p)}

\* qsr_flow_table_get, as the slot of the client's flow.
SlotOf(t, c) ==
  IF \E p \in UsedSlots(t) : t.flows[p].client = c
  THEN CHOOSE p \in UsedSlots(t) : t.flows[p].client = c
  ELSE NoSlot

AfterNoWrap(p) == p + 1
After(p) == IF p = Capacity - 1 THEN 0 ELSE p + 1
Dist(h, p) == IF p >= h THEN p - h ELSE p - h + Capacity

\* Deviations: the descriptor stays open; the slot is not given back.
RemoveLeakingFd(t, p) ==
  [t EXCEPT !.flows[p] = Unused,
            !.free_slots = Append(@, p),
            !.count = @ - 1]
RemoveLosingSlot(t, p) ==
  [t EXCEPT !.flows[p] = Unused,
            !.count = @ - 1,
            !.fds = @ \ {t.flows[p].fd}]

\* remove_slot: the descriptor is closed, the slot zeroed and given back.
RemoveSlot(t, p) ==
  [t EXCEPT !.flows[p] = Unused,
            !.free_slots = Append(@, p),
            !.count = @ - 1,
            !.fds = @ \ {t.flows[p].fd}]

EvictScans == IF Capacity < EvictScanBudget THEN Capacity ELSE EvictScanBudget
EvictWindow(t) == {p \in UsedSlots(t) : Dist(t.evict_cursor, p) < EvictScans}

\* The first of the flows in the window with the smallest last_seen.
IsVictim(t, v) ==
  /\ v \in EvictWindow(t)
  /\ \A p \in EvictWindow(t) :
       \/ t.flows[v].last_seen < t.flows[p].last_seen
       \/ /\ t.flows[v].last_seen = t.flows[p].last_seen
          /\ Dist(t.evict_cursor, v) <= Dist(t.evict_cursor, p)

\* qsr_flow_table_evict_oldest returned 1.
Evicts(t) == t.count # 0 /\ EvictWindow(t) # {}
EvictOldest(t) ==
  LET scanned == [t EXCEPT !.evict_cursor = (@ + EvictScans) % Capacity]
  IN IF t.count = 0 THEN t
     ELSE IF EvictWindow(t) = {} THEN scanned
     ELSE RemoveSlot(scanned, CHOOSE v \in Slots : IsVictim(t, v))

\* Deviation: every flow of a slot gets the same id.
PutSlotId(t, c, b, fd, time) ==
  LET top == Len(t.free_slots)
      p == t.free_slots[top]
  IN [t EXCEPT !.flows[p] = [client |-> c, backend |-> b, fd |-> fd,
                             id |-> p + 1, last_seen |-> time],
               !.free_slots = SubSeq(@, 1, top - 1),
               !.count = @ + 1,
               !.next_id = @ + 1]

\* qsr_flow_table_put of a client without a flow, in a table with a free slot
\* or with one that evict_oldest frees; without either the caller closes fd.
PutInto(t, c, b, fd, time) ==
  LET top == Len(t.free_slots)
      p == t.free_slots[top]
  IN IF top = 0
     THEN [t EXCEPT !.fds = @ \ {fd}]
     ELSE [t EXCEPT !.flows[p] = [client |-> c, backend |-> b, fd |-> fd,
                                  id |-> t.next_id, last_seen |-> time],
                    !.free_slots = SubSeq(@, 1, top - 1),
                    !.count = @ + 1,
                    !.next_id = @ + 1]
PutNew(t, c, b, fd, time) ==
  PutInto(IF t.free_slots = <<>> THEN EvictOldest(t) ELSE t, c, b, fd, time)

\* socket(2): the lowest free descriptor, NoFd (EMFILE) at the limit.
SocketFd(t) ==
  IF Fds \subseteq t.fds THEN NoFd
  ELSE CHOOSE fd \in Fds \ t.fds : \A other \in Fds \ t.fds : fd <= other

\* Deviation: both attempts evict.
SocketOpenTwice(t) ==
  IF SocketFd(t) = NoFd THEN EvictOldest(EvictOldest(t)) ELSE t

\* flow_socket_open before its successful socket call: at the limit the
\* oldest flow gives up its descriptor.
SocketOpen(t) == IF SocketFd(t) = NoFd THEN EvictOldest(t) ELSE t

\* flow_acquire of a client with the flow in slot p, and of one without.
Reuse(t, p, b, time) ==
  [t EXCEPT !.flows[p].backend = b, !.flows[p].last_seen = time]
Open(t, c, b, time) ==
  LET room == SocketOpen(t)
      fd == SocketFd(room)
  IN IF fd = NoFd THEN room
     ELSE PutNew([room EXCEPT !.fds = @ \cup {fd}], c, b, fd, time)

\* flow_acquire; registered is the outcome of epoll_ctl for a new flow.  The
\* caller got a flow iff the client has one then.
Acquired(t, c, b, registered, time) ==
  LET p == SlotOf(t, c)
      opened == Open(t, c, b, time)
      q == SlotOf(opened, c)
  IN IF p # NoSlot THEN Reuse(t, p, b, time)
     ELSE IF q = NoSlot \/ registered THEN opened
     ELSE RemoveSlot(opened, q)

\* One slot of qsr_flow_table_expire_incremental, and a scan of them all.
IdleAt(t, p, time) == Used(t, p) /\ time - t.flows[p].last_seen >= IdleTimeout
ExpireOne(t, time) ==
  LET p == t.expire_cursor
      kept == IF IdleAt(t, p, time) THEN RemoveSlot(t, p) ELSE t
  IN [kept EXCEPT !.expire_cursor = After(p)]
ExpireAll(t, time) ==
  LET scanned[n \in 0 .. Capacity] ==
        IF n = 0 THEN t ELSE ExpireOne(scanned[n - 1], time)
  IN scanned[Capacity]

\* qsr_flow_table_evict_if with a predicate on the backend, all slots in turn.
EvictBackends(t, doomed) ==
  LET walked[n \in 0 .. Capacity] ==
        IF n = 0 THEN t
        ELSE LET u == walked[n - 1]
             IN IF Used(u, n - 1) /\ u.flows[n - 1].backend \in doomed
                THEN RemoveSlot(u, n - 1) ELSE u
  IN walked[Capacity]
=============================================================================
