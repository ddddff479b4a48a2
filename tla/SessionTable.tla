---------------------------- MODULE SessionTable ----------------------------
(***************************************************************************)
(* The alias table of src/src/session_table.c: a fixed array of sessions   *)
(* probed linearly from the hash of the key, with deletion by reinsertion  *)
(* of the probe cluster that follows, eviction of the oldest entry, an     *)
(* incremental expiry sweep, and the set of connection-ID lengths that     *)
(* short-header lookups are allowed to skip by.                            *)
(*                                                                         *)
(* The table is single-threaded.  A call of its API that deletes entries   *)
(* is a sequence of steps here, one per iteration of the C loop: `call'    *)
(* holds the arguments and locals of the API call in progress and `cursor' *)
(* those of table_delete_at, which always runs to its end before the call  *)
(* goes on.  Nothing else happens between the steps of a call.             *)
(***************************************************************************)
EXTENDS Integers, FiniteSets

CONSTANTS
  Keys,                \* tuple keys and connection-ID keys, all key_valid
  Backends,            \* backend addresses, all backend_valid
  Owners,              \* flow generations; 0 is "no owner"
  Capacity,            \* table->capacity
  Home,                \* key_hash: the slot where the probe of a key starts
  CidLen,              \* dcid_len of a key with CIDs, 0 for a tuple key
  Unused,              \* a zeroed slot
  IdleTimeout,         \* idle_timeout_seconds
  EvictScanBudget,     \* QSR_EVICT_SCAN_BUDGET
  PressureMinCapacity, \* QSR_PRESSURE_EVICT_MIN_CAPACITY
  PressureLoadPercent, \* QSR_PRESSURE_EVICT_LOAD_PERCENT
  MaxTime              \* bound on the clock

Slots == 0 .. Capacity - 1
Session == [key : Keys, backend : Backends, last_seen : Nat, owner : Owners]

ASSUME CapacityAssumption == Capacity \in Nat \ {0}
ASSUME KeyAssumption == Home \in [Keys -> Slots] /\ CidLen \in [Keys -> Nat]
ASSUME OwnerAssumption == 0 \in Owners
ASSUME UnusedAssumption == Unused \notin Session
ASSUME BudgetAssumption == EvictScanBudget \in Nat \ {0}
ASSUME LimitAssumption == /\ PressureMinCapacity \in Nat
                          /\ PressureLoadPercent \in Nat
                          /\ IdleTimeout \in Nat
                          /\ MaxTime \in Nat

VARIABLES
  sessions,             \* table->sessions
  count,                \* table->count
  expire_cursor,        \* table->expire_cursor
  evict_cursor,         \* table->evict_cursor
  cid_len_mask,         \* table->cid_len_mask, as the set of its bits
  cid_len_mask_pending, \* table->cid_len_mask_pending
  cursor,               \* table_delete_at's cursor, NoCursor outside it
  call,                 \* the API call in progress
  now                   \* the caller's clock

tvars == <<sessions, count, evict_cursor, cursor>>
mvars == <<cid_len_mask, cid_len_mask_pending>>
vars == <<sessions, count, expire_cursor, evict_cursor, cid_len_mask,
          cid_len_mask_pending, cursor, call, now>>

NoCursor == Capacity
NoSlot == Capacity

Ops == {"idle", "pressure", "retry", "expire", "expire_incremental", "evict_if"}

\* session: what a put stores; i: the loop index of a walk, or the scans an
\* incremental sweep has left; doomed: the backends evict_if's predicate
\* matches; deleted: whether a full expiry has deleted anything.
Calls == [op : Ops, session : Session \cup {Unused}, i : 0 .. Capacity,
          doomed : SUBSET Backends, deleted : BOOLEAN]
Idle == [op |-> "idle", session |-> Unused, i |-> 0, doomed |-> {},
         deleted |-> FALSE]

Used(tbl, p) == tbl[p] # Unused

\* The slot after p, and the number of probe steps from slot h to slot p.
AfterNoWrap(p) == p + 1
After(p) == IF p = Capacity - 1 THEN 0 ELSE p + 1
Dist(h, p) == IF p >= h THEN p - h ELSE p - h + Capacity

\* Where a probe for key k stops: the first slot from its home that is free
\* or holds k, NoSlot if there is none.
Stops(tbl, k) ==
  {p \in Slots : Used(tbl, p) => tbl[p].key = k}
Probe(tbl, k) ==
  IF Stops(tbl, k) = {}
  THEN NoSlot
  ELSE CHOOSE p \in Stops(tbl, k) :
         \A q \in Stops(tbl, k) : Dist(Home[k], p) <= Dist(Home[k], q)

\* qsr_session_table_get: the slot holding k, or NoSlot.
Get(tbl, k) ==
  LET p == Probe(tbl, k)
  IN IF p # NoSlot /\ Used(tbl, p) THEN p ELSE NoSlot

MinLearnedCidLen == 8    \* QSR_MIN_LEARNED_CID_LEN
MaxQuicCidLen == 20      \* QSR_MAX_QUIC_CID_LEN

\* The length bit of a key with CIDs: none for lengths lookups never try.
CidLenBit(k) ==
  IF MinLearnedCidLen <= CidLen[k] /\ CidLen[k] <= MaxQuicCidLen
  THEN {CidLen[k]}
  ELSE {}

Init ==
  /\ sessions = [p \in Slots |-> Unused]
  /\ count = 0
  /\ expire_cursor = 0
  /\ evict_cursor = 0
  /\ cid_len_mask = {}
  /\ cid_len_mask_pending = {}
  /\ cursor = NoCursor
  /\ call = Idle
  /\ now = 0

-----------------------------------------------------------------------------
(* table_delete_at *)

\* Deviations of the deletion: no reinsertion, no count.
ZeroOnly(p) ==
  /\ sessions' = [sessions EXCEPT ![p] = Unused]
  /\ count' = count - 1
  /\ UNCHANGED cursor
DeleteUncounted(p) ==
  /\ sessions' = [sessions EXCEPT ![p] = Unused]
  /\ UNCHANGED count
  /\ cursor' = After(p)

\* Zero the slot; the loop over the cluster behind it is Reinsert.
TableDeleteAt(p) ==
  /\ sessions' = [sessions EXCEPT ![p] = Unused]
  /\ count' = count - 1
  /\ cursor' = After(p)

\* Deviations of the loop: it does not advance, or it leaves the pending mask
\* alone.
ReinsertStuck ==
  LET saved == sessions[cursor]
      rest == [sessions EXCEPT ![cursor] = Unused]
  IN /\ cursor # NoCursor
     /\ Used(sessions, cursor)
     /\ sessions' = [rest EXCEPT ![Probe(rest, saved.key)] = saved]
     /\ UNCHANGED <<count, expire_cursor, evict_cursor, mvars, cursor, call, now>>
ReinsertLiveMaskOnly ==
  LET saved == sessions[cursor]
      rest == [sessions EXCEPT ![cursor] = Unused]
  IN /\ cursor # NoCursor
     /\ Used(sessions, cursor)
     /\ sessions' = [rest EXCEPT ![Probe(rest, saved.key)] = saved]
     /\ cid_len_mask' = cid_len_mask \cup CidLenBit(saved.key)
     /\ cursor' = After(cursor)
     /\ UNCHANGED <<count, expire_cursor, evict_cursor, cid_len_mask_pending,
                    call, now>>

\* Put one session of the cluster back where its probe now stops, as a put
\* without pressure eviction: the slot just zeroed guarantees a free one.
Reinsert ==
  LET saved == sessions[cursor]
      rest == [sessions EXCEPT ![cursor] = Unused]
  IN /\ cursor # NoCursor
     /\ Used(sessions, cursor)
     /\ sessions' = [rest EXCEPT ![Probe(rest, saved.key)] = saved]
     /\ cid_len_mask' = cid_len_mask \cup CidLenBit(saved.key)
     /\ cid_len_mask_pending' = cid_len_mask_pending \cup CidLenBit(saved.key)
     /\ cursor' = After(cursor)
     /\ UNCHANGED <<count, expire_cursor, evict_cursor, call, now>>

ReinsertDone ==
  /\ cursor # NoCursor
  /\ ~Used(sessions, cursor)
  /\ cursor' = NoCursor
  /\ UNCHANGED <<sessions, count, evict_cursor, expire_cursor, mvars, call, now>>

-----------------------------------------------------------------------------
(* evict_oldest and put *)

EvictScans == IF Capacity < EvictScanBudget THEN Capacity ELSE EvictScanBudget
EvictWindow ==
  {p \in Slots : Dist(evict_cursor, p) < EvictScans /\ Used(sessions, p)}

\* Deviation: the most recent session of the window.
IsNewest(v) ==
  /\ v \in EvictWindow
  /\ \A p \in EvictWindow : sessions[v].last_seen >= sessions[p].last_seen

\* The first of the sessions in the window with the smallest last_seen.
IsVictim(v) ==
  /\ v \in EvictWindow
  /\ \A p \in EvictWindow :
       \/ sessions[v].last_seen < sessions[p].last_seen
       \/ /\ sessions[v].last_seen = sessions[p].last_seen
          /\ Dist(evict_cursor, v) <= Dist(evict_cursor, p)

\* Deviation: the scan finds no victim.
EvictNothing ==
  /\ evict_cursor' = (evict_cursor + EvictScans) % Capacity
  /\ UNCHANGED <<sessions, count, cursor>>

EvictOldest ==
  /\ evict_cursor' = IF count = 0 THEN evict_cursor
                     ELSE (evict_cursor + EvictScans) % Capacity
  /\ IF count = 0 \/ EvictWindow = {}
     THEN UNCHANGED <<sessions, count, cursor>>
     ELSE \E v \in Slots : IsVictim(v) /\ TableDeleteAt(v)

\* Deviation: the load has to exceed the limit.
PressureLate ==
  /\ Capacity >= PressureMinCapacity
  /\ count * 100 > Capacity * PressureLoadPercent

PressureEvictNeeded ==
  /\ Capacity >= PressureMinCapacity
  /\ count * 100 >= Capacity * PressureLoadPercent

\* The two ways a walk that stopped at slot p ends a put of session s.
Insert(p, s) ==
  /\ sessions' = [sessions EXCEPT ![p] = s]
  /\ count' = count + 1
  /\ cid_len_mask' = cid_len_mask \cup CidLenBit(s.key)
  /\ cid_len_mask_pending' = cid_len_mask_pending \cup CidLenBit(s.key)
  /\ call' = Idle
  /\ UNCHANGED <<evict_cursor, cursor>>

Update(p, s) ==
  /\ sessions' = [sessions EXCEPT ![p] =
       [s EXCEPT !.owner = IF s.owner # 0 THEN s.owner ELSE sessions[p].owner]]
  /\ call' = Idle
  /\ UNCHANGED <<count, evict_cursor, cursor, mvars>>

EvictFor(s, op) ==
  /\ EvictOldest
  /\ call' = [Idle EXCEPT !.op = op, !.session = s]
  /\ UNCHANGED mvars

\* First walk.  Under pressure a free slot is not taken: the walk breaks off
\* after an eviction, and the retry's own eviction follows (PutPressure).
Put(k, b, o) ==
  LET s == [key |-> k, backend |-> b, last_seen |-> now, owner |-> o]
      p == Probe(sessions, k)
  IN /\ call.op = "idle"
     /\ IF p = NoSlot
        THEN EvictFor(s, "retry")
        ELSE IF Used(sessions, p)
        THEN Update(p, s)
        ELSE IF PressureEvictNeeded
        THEN EvictFor(s, "pressure")
        ELSE Insert(p, s)
     /\ UNCHANGED <<expire_cursor, now>>

\* The eviction every first walk that did not return falls through to.
PutPressure ==
  /\ call.op = "pressure"
  /\ cursor = NoCursor
  /\ EvictFor(call.session, "retry")
  /\ UNCHANGED <<expire_cursor, now>>

\* Second walk: no pressure check; QSR_ERR_FULL if it finds no slot.
SecondWalk(s) ==
  LET p == Probe(sessions, s.key)
  IN /\ call.op = "retry"
     /\ cursor = NoCursor
     /\ IF p = NoSlot
        THEN call' = Idle /\ UNCHANGED <<tvars, mvars>>
        ELSE IF Used(sessions, p)
        THEN Update(p, s)
        ELSE Insert(p, s)
     /\ UNCHANGED <<expire_cursor, now>>
PutRetry == SecondWalk(call.session)

-----------------------------------------------------------------------------
(* expiry and eviction by predicate *)

IsIdle(p) == Used(sessions, p) /\ now - sessions[p].last_seen >= IdleTimeout

\* qsr_session_table_expire_incremental, called with a scan budget.
StartExpireIncremental(scan_budget) ==
  /\ call.op = "idle"
  /\ call' = [Idle EXCEPT !.op = "expire_incremental",
                !.i = IF scan_budget < Capacity THEN scan_budget ELSE Capacity]
  /\ UNCHANGED <<tvars, expire_cursor, mvars, now>>

\* Move past the slot under the sweep, which survives with the sessions tbl.
\* A completed cycle retires the length bits no survivor has.
Advance(tbl) ==
  LET pending == IF Used(tbl, expire_cursor)
                 THEN cid_len_mask_pending
                        \cup CidLenBit(tbl[expire_cursor].key)
                 ELSE cid_len_mask_pending
      wrapped == After(expire_cursor) = 0
  IN /\ expire_cursor' = After(expire_cursor)
     /\ cid_len_mask' = IF wrapped THEN pending ELSE cid_len_mask
     /\ cid_len_mask_pending' = IF wrapped THEN {} ELSE pending

\* One iteration.  keep is the answer of the keepalive callback.
ExpireScan(keep) ==
  LET kept == [sessions EXCEPT ![expire_cursor].last_seen = now]
  IN /\ call.op = "expire_incremental"
     /\ cursor = NoCursor
     /\ call.i > 0
     /\ call' = [call EXCEPT !.i = @ - 1]
     /\ CASE IsIdle(expire_cursor) /\ ~keep ->
               /\ TableDeleteAt(expire_cursor)
               /\ UNCHANGED <<expire_cursor, mvars>>
          [] IsIdle(expire_cursor) /\ keep ->
               /\ sessions' = kept
               /\ Advance(kept)
               /\ UNCHANGED <<count, cursor>>
          [] ~IsIdle(expire_cursor) ->
               /\ Advance(sessions)
               /\ UNCHANGED <<sessions, count, cursor>>
     /\ UNCHANGED <<evict_cursor, now>>

\* qsr_session_table_expire: the full walk that rebuilds the mask.
StartExpire ==
  /\ call.op = "idle"
  /\ call' = [Idle EXCEPT !.op = "expire"]
  /\ UNCHANGED <<tvars, expire_cursor, mvars, now>>

\* qsr_session_table_evict_if, with a predicate on the backend.
StartEvictIf(backends) ==
  /\ call.op = "idle"
  /\ call' = [Idle EXCEPT !.op = "evict_if", !.doomed = backends]
  /\ UNCHANGED <<tvars, expire_cursor, mvars, now>>

Matches(p) ==
  \/ call.op = "expire" /\ IsIdle(p)
  \/ call.op = "evict_if" /\ Used(sessions, p)
                          /\ sessions[p].backend \in call.doomed

\* Deviation: the walk advances past the slot it has deleted at.
WalkScanAdvancing ==
  /\ call.op \in {"expire", "evict_if"}
  /\ cursor = NoCursor
  /\ call.i < Capacity
  /\ call' = [call EXCEPT !.i = @ + 1, !.deleted = @ \/ Matches(call.i)]
  /\ IF Matches(call.i)
     THEN TableDeleteAt(call.i)
     ELSE UNCHANGED <<sessions, count, cursor>>
  /\ UNCHANGED <<expire_cursor, evict_cursor, mvars, now>>

\* One iteration of either walk: delete and look at the slot again, or go on.
WalkScan ==
  /\ call.op \in {"expire", "evict_if"}
  /\ cursor = NoCursor
  /\ call.i < Capacity
  /\ IF Matches(call.i)
     THEN /\ TableDeleteAt(call.i)
          /\ call' = [call EXCEPT !.deleted = TRUE]
     ELSE /\ call' = [call EXCEPT !.i = @ + 1]
          /\ UNCHANGED <<sessions, count, cursor>>
  /\ UNCHANGED <<expire_cursor, evict_cursor, mvars, now>>

\* rebuild_cid_len_mask: the length bits of the live sessions.
LiveCidLens ==
  UNION {CidLenBit(sessions[p].key) : p \in {q \in Slots : Used(sessions, q)}}

\* The end of a sweep or a walk.
Return ==
  /\ cursor = NoCursor
  /\ \/ call.op = "expire_incremental" /\ call.i = 0
     \/ call.op \in {"expire", "evict_if"} /\ call.i = Capacity
  /\ call' = Idle
  /\ IF call.op = "expire" /\ call.deleted
     THEN cid_len_mask' = LiveCidLens /\ cid_len_mask_pending' = LiveCidLens
     ELSE UNCHANGED mvars
  /\ UNCHANGED <<tvars, expire_cursor, now>>

Tick ==
  /\ call.op = "idle"
  /\ now < MaxTime
  /\ now' = now + 1
  /\ UNCHANGED <<tvars, expire_cursor, mvars, call>>

\* The steps of the call in progress, and the calls that may be made.
Step ==
  \/ Reinsert \/ ReinsertDone
  \/ PutPressure \/ PutRetry
  \/ \E keep \in BOOLEAN : ExpireScan(keep)
  \/ WalkScan \/ Return

Call ==
  \/ \E k \in Keys, b \in Backends, o \in Owners : Put(k, b, o)
  \/ \E scan_budget \in 1 .. Capacity : StartExpireIncremental(scan_budget)
  \/ StartExpire
  \/ \E backends \in SUBSET Backends : StartEvictIf(backends)
  \/ Tick

Next == Step \/ Call

Spec == Init /\ [][Next]_vars
\* A call, once made, runs: the code has no blocking step inside one.
FairSpec == Spec /\ WF_vars(Step)
-----------------------------------------------------------------------------
(* Properties *)

TypeOK ==
  /\ sessions \in [Slots -> Session \cup {Unused}]
  /\ count \in Int
  /\ expire_cursor \in Slots
  /\ evict_cursor \in Slots
  /\ cid_len_mask \in SUBSET Nat
  /\ cid_len_mask_pending \in SUBSET Nat
  /\ cursor \in 0 .. Capacity
  /\ call \in Calls
  /\ call.op \in {"pressure", "retry"} => call.session \in Session
  /\ now \in Nat

Live == {sessions[p] : p \in {q \in Slots : Used(sessions, q)}}

\* Whatever was deleted, evicted or relocated, qsr_session_table_get finds
\* every stored session, at the slot that holds it (so no key is stored
\* twice): table_delete_at's reinsertion never orphans a key whose probe
\* crossed the deleted slot.
ProbeIntegrity ==
  cursor = NoCursor =>
    \A p \in Slots :
      Used(sessions, p) => Get(sessions, sessions[p].key) = p

\* table->count is the number of used slots, through every relocation; the
\* pressure check and evict_oldest's early return rely on it.
CountMatches ==
  count = Cardinality({p \in Slots : Used(sessions, p)})

\* "100% occupancy, which only tables below QSR_PRESSURE_EVICT_MIN_CAPACITY
\* can reach": the pressure eviction keeps a slot free in every larger table,
\* although its scan may find nothing to evict.  table_delete_at's worst case
\* rests on it.
PressureKeepsRoom == Capacity >= PressureMinCapacity => count < Capacity

\* No short-header lookup misses a live alias because its length bit was
\* retired: at every point of the sweep's cycle cid_len_mask holds the length
\* bit of every stored connection ID.
MaskCoversLive == LiveCidLens \subseteq cid_len_mask

\* When evict_if or the full expiry reaches the end of the array, no session
\* it should have deleted is left, although deletions relocate sessions,
\* across the end of the array too.
WalkComplete ==
  call.op \in {"expire", "evict_if"} /\ cursor = NoCursor /\ call.i = Capacity
    => \A p \in Slots : ~Matches(p)

\* The second walk of a put finds a slot: an eviction has always made room
\* and QSR_ERR_FULL is never returned.
RetryFindsSlot ==
  call.op = "retry" /\ cursor = NoCursor
    => Probe(sessions, call.session.key) # NoSlot

\* Reinsertion stops, even in a full table where the cluster is the whole
\* array, and with it every call returns.
CallsReturn == call.op # "idle" ~> call.op = "idle"

\* The table implements the dictionary: relocation is invisible, and each
\* session leaves for one of the reasons AliasMap gives.
Map == INSTANCE AliasMap WITH entries <- Live, doomed <- call.doomed
ImplementsMap == Map!Spec
=============================================================================
