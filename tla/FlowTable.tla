------------------------------ MODULE FlowTable ------------------------------
(***************************************************************************)
(* The life of a flow table: acquires, traffic, the incremental idle       *)
(* sweep, the walk of a reload and the free at exit, in any order.         *)
(***************************************************************************)
EXTENDS FlowOps

CONSTANTS
  MaxTime, \* bound on the clock
  MaxId    \* bound on the generation ids

ASSUME BoundAssumption == MaxTime \in Nat /\ MaxId \in Nat

VARIABLES
  table, \* the flow table, and the descriptors its sockets have open
  call,  \* the sweep or walk in progress
  now    \* the caller's clock

vars == <<table, call, now>>

Idle == [op |-> "idle", i |-> 0, doomed |-> {}]
Calls == [op : {"idle", "expire", "evict_if"}, i : 0 .. Capacity,
          doomed : SUBSET Backends]

Init == table = Empty /\ call = Idle /\ now = 0

-----------------------------------------------------------------------------
(* The operations *)

\* Deviation: a client whose backend changed gets a second flow.
AcquireAnew(c, b, registered) ==
  LET p == SlotOf(table, c)
  IN /\ call.op = "idle"
     /\ table.next_id <= MaxId
     /\ table' = IF p # NoSlot /\ table.flows[p].backend = b
                 THEN Reuse(table, p, b, now)
                 ELSE Open(table, c, b, now)
     /\ UNCHANGED <<call, now>>

Acquire(c, b, registered) ==
  /\ call.op = "idle"
  /\ table.next_id <= MaxId
  /\ table' = Acquired(table, c, b, registered, now)
  /\ UNCHANGED <<call, now>>

\* A datagram on a flow: the fast path of handle_client_packet, or
\* handle_backend_packet.
Traffic(p) ==
  /\ call.op = "idle"
  /\ Used(table, p)
  /\ table' = [table EXCEPT !.flows[p].last_seen = now]
  /\ UNCHANGED <<call, now>>

\* qsr_flow_table_expire_incremental: i counts the slots left to scan.
StartExpire(scan_budget) ==
  /\ call.op = "idle"
  /\ call' = [Idle EXCEPT !.op = "expire",
                !.i = IF scan_budget < Capacity THEN scan_budget ELSE Capacity]
  /\ UNCHANGED <<table, now>>

IsIdle(t, p) == IdleAt(t, p, now)

\* Deviation: a removal keeps the cursor where it is.
ExpireScanStaying ==
  LET p == table.expire_cursor
  IN /\ call.op = "expire"
     /\ call.i > 0
     /\ call' = [call EXCEPT !.i = @ - 1]
     /\ table' = IF Used(table, p)
                 THEN IF IsIdle(table, p) THEN RemoveSlot(table, p) ELSE table
                 ELSE [table EXCEPT !.expire_cursor = After(p)]
     /\ UNCHANGED now

ExpireScan ==
  /\ call.op = "expire"
  /\ call.i > 0
  /\ call' = [call EXCEPT !.i = @ - 1]
  /\ table' = ExpireOne(table, now)
  /\ UNCHANGED now

\* qsr_flow_table_evict_if, with a predicate on the backend.
StartEvictIf(backends) ==
  /\ call.op = "idle"
  /\ call' = [Idle EXCEPT !.op = "evict_if", !.doomed = backends]
  /\ UNCHANGED <<table, now>>

EvictIfScan ==
  /\ call.op = "evict_if"
  /\ call.i < Capacity
  /\ call' = [call EXCEPT !.i = @ + 1]
  /\ table' = IF Used(table, call.i) /\ table.flows[call.i].backend \in call.doomed
              THEN RemoveSlot(table, call.i) ELSE table
  /\ UNCHANGED now

Return ==
  /\ \/ call.op = "expire" /\ call.i = 0
     \/ call.op = "evict_if" /\ call.i = Capacity
  /\ call' = Idle
  /\ UNCHANGED <<table, now>>

\* qsr_flow_table_free, and the qsr_flow_table_init of the next process.
FreeAndInit ==
  /\ call.op = "idle"
  /\ table' = Empty
  /\ UNCHANGED <<call, now>>

Tick ==
  /\ call.op = "idle"
  /\ now < MaxTime
  /\ now' = now + 1
  /\ UNCHANGED <<table, call>>

Sweep == \E scan_budget \in 1 .. Capacity : StartExpire(scan_budget)
Step == ExpireScan \/ EvictIfScan \/ Return

Next ==
  \/ \E c \in Clients, b \in Backends, registered \in BOOLEAN :
       Acquire(c, b, registered)
  \/ \E p \in Slots : Traffic(p)
  \/ \E backends \in SUBSET Backends : StartEvictIf(backends)
  \/ Sweep \/ Step \/ FreeAndInit \/ Tick

Spec == Init /\ [][Next]_vars
\* A sweep runs every second whatever else happens, and a call once begun runs.
FairSpec == Spec /\ SF_vars(Sweep) /\ WF_vars(Step)

-----------------------------------------------------------------------------
(* Properties *)

TypeOK == table \in Tables /\ call \in Calls /\ now \in Nat

\* The stack of free slots holds exactly the unused slots, each once, and
\* count is the number of the others: no slot is leaked, or handed out while
\* in use, by any order of puts, evictions, sweeps and failed registrations.
FreeStack ==
  /\ \A p \in Slots : Used(table, p)
       <=> p \notin {table.free_slots[i] : i \in DOMAIN table.free_slots}
  /\ \A i, j \in DOMAIN table.free_slots :
       table.free_slots[i] = table.free_slots[j] => i = j
  /\ table.count = Cardinality(UsedSlots(table))

\* "The table owns every stored fd" (flow_table.h): the open flow sockets are
\* those of the live flows, one each.  Nothing leaks, is closed twice, or is
\* left to a flow whose number the kernel gave to another.
FdsOwned ==
  /\ table.fds = {table.flows[p].fd : p \in UsedSlots(table)}
  /\ \A p, q \in UsedSlots(table) :
       table.flows[p].fd = table.flows[q].fd => p = q

\* A client tuple has one flow, so that the receiving descriptor identifies
\* the client and the lookup by tuple is unambiguous.
OneFlowPerClient ==
  \A p, q \in UsedSlots(table) :
    table.flows[p].client = table.flows[q].client => p = q

\* The reference (slot, id) a session entry holds never comes to denote
\* another client's flow: a slot that keeps an id keeps its client, and a flow
\* that appears gets an id no earlier flow of this process had.
GenerationStable ==
  [][table' # Empty =>
       \A p \in UsedSlots(table') :
         LET f == table'.flows[p]
         IN IF f.id < table.next_id
            THEN Used(table, p) /\ table.flows[p].id = f.id
                                /\ table.flows[p].client = f.client
            ELSE f.id < table'.next_id]_vars

\* An acquire costs at most one other client its flow: evicting for the
\* descriptor also makes room for the flow.
AcquireEvictsOne ==
  [][\A c \in Clients : \A b \in Backends, registered \in BOOLEAN :
       Acquire(c, b, registered) =>
         Cardinality({p \in UsedSlots(table) \ {SlotOf(table, c)} :
           SlotOf(table', table.flows[p].client) = NoSlot}) <= 1]_vars

\* The flow of a client that stays idle goes, whatever traffic the other
\* flows carry: the cursor gets around.
IdleFlowsExpire ==
  \A p \in Slots :
    IsIdle(table, p) ~> ~IsIdle(table, p)
=============================================================================
