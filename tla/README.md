# Verification of quic-sni-router

quic-sni-router forwards QUIC datagrams to backends by the server name (SNI) in
the ClientHello, without terminating the connections. This directory holds TLA+
models of its state and control, TLC runs that check them on small instances,
and TLAPS proofs of the safety properties that matter most for every size. `PROJECT.json` maps
each definition to the source lines it stands for, and lists components, runs,
mutants, hazards, findings and theorems.

    tlc -workers 2 -config SessionTableMap.cfg MCSessionTable
    tlapm SessionTableProofs.tla

## The system

The router is one thread around an epoll loop (`src/src/udp.c`).

| Part | State | Operations |
|---|---|---|
| session table (`session_table.c`) | open-addressed array from tuple keys and CID keys to backends; `count`, two cursors, two masks of CID lengths | put (owned or not), get, expire, expire_incremental with a keepalive callback, evict_if, evict_oldest |
| flow table (`flow_table.c`) | slots of flows (client, backend, fd, generation id, last_seen), free stack, tuple index, cursors | get, put, remove, evict_oldest, expire_incremental, evict_if, free |
| flow acquisition (`udp.c`) | the process's descriptors | flow_socket_open (evicts at EMFILE), flow_acquire (re-aims, opens, registers with epoll) |
| receive loop (`udp.c`) | receive buffers, send queue of borrowed pointers, pending Initials | drain_socket, sender_enqueue, sender_flush, pending_initial_get/append/remove/expire |
| reassembly (`quic_frames.c`, `tls_client_hello.c`) | the CRYPTO stream of each pending Initial | extract, merge, contiguous length; the SNI of a prefix |
| routing (`udp.c`) | the tables above | handle_client_packet, handle_backend_packet, learning of aliases, run_expiry_sweeps |
| configuration (`config.c`, `route_table.c`) | settings, routes, two open-addressed indexes, the server ids | load, add, resolve, and lookup by name, address and server id |
| process (`udp.c`, `runtime.c`) | what is held, the epoll set, the watch on the file | the stages of qsr_udp_run and their error paths, the loop, qsr_runtime_poll (reload), the signal |
| header parser, crypto, codec, hash | none that lasts | pure functions |

A client datagram is looked up, in order, by the flow of its tuple (short
headers, without encoded CIDs), by an encoded CID, by the DCID+SCID pair and the
DCID (Initials), by the tuple and then the DCID (others); a fresh Initial is
routed by its SNI once its ClientHello is whole. The backend found gets the
datagram through the flow's own socket, so a reply identifies its client by the
descriptor it arrives on. Client long headers and backend long headers are
learned as aliases, owned by their flow as (slot, generation id). A sweep
expires what is idle, unless the owning flow is active. A reload evicts what
leads to a removed backend.

What is hard: deletion in open-addressed tables, with sweeps in progress over
them; pointers and descriptor numbers that are kept across calls that evict;
eviction in the middle of a packet; tuples, slots and descriptors that are
reused; datagrams and frames that arrive in another order; aliases that outlive
or do not outlive their connection; a file that is edited while it is read; a
flood on one socket while others wait. `PROJECT.json` lists these hazards line
by line with the properties that cover them.

## Modules

| Module | Models | Level |
|---|---|---|
| `SessionTable` | `session_table.c` | one step per loop iteration; `call` and `cursor` hold the locals of the call in progress |
| `AliasMap` | what the session table promises: a dictionary | abstract specification, refined by `SessionTable` |
| `FlowOps` | `flow_table.c`, `flow_socket_open`, `flow_acquire` | operators on a table record, shared by the modules below |
| `FlowTable` | the life of a flow table | one action per call; sweeps and walks step by step |
| `FlowIndex` | the tuple index of `flow_table.c` | one step per loop iteration |
| `CryptoStream` | `quic_frames.c` | operators on a stream: the frame walk, the interval of received bytes, the merge |
| `ClientHello` | `tls_client_hello.c` | what the first n bytes of a hello yield, by the lengths of its fields |
| `ReceiveLoop` | receive buffers, send queue, pending Initials, over `CryptoStream`, `ClientHello` and `FlowOps` | one action per datagram handled |
| `LearnAliases` | the tail of `handle_client_packet` over the concrete `SessionTable` | the session pointer is explicit |
| `Dataplane` | routing, learning, sweeps, reload | one action per datagram, with QUIC connections around the router |
| `RouteTable` | `route_table.c` | operators on a table record: add, resolve, the three lookups |
| `ConfigFile` | `config.c` over `RouteTable` | what a document, whole or cut off, loads as |
| `EventLoop` | the process: start-up, epoll loop, reload, shutdown, over `ConfigFile` and `FlowOps` | one action per stage, event and receive round, with the operator, the clients, the backends and the kernel's epoll set around it |
| `FlowLaws` | what the modules over `FlowOps` may assume of it | the inductive invariant of a table (`Sound`), a law per operation, and the principles of induction, as formulas |
| `SessionTableProofs`, `FlowTableProofs`, `FlowIndexProofs`, `ReceiveLoopProofs`, `DataplaneProofs`, `EventLoopProofs` | the theorems | |
| `DataplaneInvProofs`, `DataplaneRouteProofs` | the lemmas below `DataplaneProofs` | |
| `MC*` | small instances for TLC | |

Names follow the source: `TableDeleteAt` is `table_delete_at`, `Reinsert` one
turn of its loop, `cid_len_mask` the mask (as a set of lengths). `After(p)` is
`(p + 1) % capacity`; `Dist(h, p)` the number of probe steps from `h` to `p`, so
that "the first slot from the hash" is a minimum of `Dist`. The hash is a
constant function. Definitions whose comment begins with "Deviation" are wrong
on purpose: each is the replacement of a definition by which a property is shown
to fail when the code is changed that way; no specification uses them.

`FlowOps` uses the abstract lookup `SlotOf`; `FlowIndex` shows that the index
gives that lookup. `Dataplane` uses the session table as a dictionary;
`SessionTable` implements it (`ImplementsMap`), below the pressure threshold.
`ReceiveLoop` keeps of the session table only which clients are known, and
`EventLoop` of a datagram only the flow it opens or refreshes.

## Runs

| Run | Shows |
|---|---|
| `session_table` | above the pressure threshold: the live length mask covers every stored CID at each point of a sweep; `count` is exact; the table never fills up |
| `session_map` | every stored session is found; walks that delete miss nothing; the second walk of a put finds a slot; every call returns; the table implements `AliasMap` |
| `flow_table` | free stack exact; descriptors owned one to one; one flow per client; (slot, id) references never change their meaning; an acquire evicts at most one; an idle flow goes or has traffic again |
| `flow_index` | the index finds exactly the flow of a client and keeps nothing of a removed one |
| `learn_aliases` (violation) | the session pointer is stale after the first alias put |
| `receive_loop` | what is sent is what was enqueued; no stale pending entry; an entry's stream has the bytes of its packets and of its client only; a whole ClientHello waits only for a flow, and every byte of it is forwarded |
| `receive_fds` (violation) | a queued datagram leaves through a reused descriptor number |
| `dataplane` | aliases and flows lead to configured backends; packets reach the issuer of their CID, or the backend of their own name before that, across reload, rebinding and the switch to encoded CIDs |
| `dataplane_lifetime` | with expiry and the reuse of tuples and slots: packets reach their issuer, an active connection keeps its server-CID alias, no stranger keeps an alias alive |
| `dataplane_early` (violation) | 0-RTT before the Initial on a used tuple |
| `dataplane_rebind` (violation) | the alias of a rebound connection expires |
| `event_loop` | every exit has freed what was held; the routes in force are exact; a reload spares the flows of backends that stay; an edit of the file comes into force; a flood starves no reply; a signal ends the process |

A violation run states what a comment or a document of the repository says, and
TLC's trace shows the code doing otherwise; `PROJECT.json` quotes the line.

### What the passing runs leave out

Some circumstances are excluded from passing runs because the property fails in
them. TLC gives a trace for each when the exclusion is lifted:

| Excluded | Where | Lifted, this fails |
|---|---|---|
| 0-RTT before the Initial | `EarlyZeroRtt = FALSE` | `NameReached` (run `dataplane_early`) |
| a rebound connection's expiry | `MaxRebinds = 0` in `DataplaneLifetime.cfg` | `ActiveKeepsAlias` (run `dataplane_rebind`) |
| a long-header reply that arrives after its flow was re-aimed (`udp.c:1137`) | `LateReplies = FALSE` in `Dataplane.cfg` | `IssuerReached`: the server's ID is aliased to the flow's new backend |
| a third Initial that repeats part of the first (`udp.c:521`, `1089-1091`) | two packets per client and `MaxPackets = 2` in `MCReceiveLoop`; lifted with a third packet | `WholeHelloForwarded`: the packet that completes the ClientHello is past the limit and is not stored |
| a reload that reads a file in the middle of a rewrite in place | `file.written = Len(file.doc)` in `SurvivorsKeepFlow` | `SurvivorsKeepFlow`: the beginning of a file loads, and an empty one gives the defaults, so flows of backends further down are closed |
| an edit between the first load and the watch | `EditsAtStart = FALSE` | `FileApplied`: the edit is seen with the next one |
| rebinding to a tuple that still has an alias or a flow, without an encoded CID | the guard of `Rebind` | `NameReached` |
| a reload that removes a backend while encoded CIDs are on | the configurations of `MCDataplane`; lifted with a third one | `IssuerReached`: a connection that rebound to a used tuple, relying on its encoded ID, follows the other connection's tuple alias when its server is removed before its first packet there |
| a reload that turns encoded CIDs off | the guard of `Reload` in `Next` | `IssuerReached` and `NameReached`: issued IDs decode no more |

The first two are runs of their own. The last two are guards, assumptions about
the environment rather than about the code. The rewrite in place does happen in
`event_loop`: `RoutesExact`, `FileApplied` and the rest hold with it.

A put above the pressure threshold may remove two entries, by the pressure
eviction (`session_table.c:271`) and again by the retry (`301-304`).
`SessionTable` models both; `AliasMap` allows one removal per put, so the
refinement is checked and proved below the threshold only.

### Bounds

- Session table: 3 or 4 slots and one key more than slots, with hashes that
  collide in the last slots, so clusters wrap, the table fills up and evictions
  happen. A budget below the capacity makes the eviction window partial. The
  pressure threshold is scaled so that a table of 4 reaches it.
- Flow table: 3 slots, 3 clients, 2 descriptors: descriptors run out before the
  slots, so acquires meet EMFILE. `MaxId` 5 lets slots be recycled. In
  `receive_loop` (one slot, two descriptors) and `flow_index` the slots run out
  first; the same properties hold with `Fds = {0, 1, 2}` and `Capacity = 2`, and
  the proofs cover both.
- Flow index: 3 slots, 6 positions, 5 clients of which three share a hash.
- Receive loop: a queue, a pending table and a flow table of one, so that each
  second datagram flushes, displaces or evicts; three clients, one without a
  route; rounds of two datagrams. Each client's hello comes in two packets:
  frames out of order with a hole between them, an SNI in the second extension
  with more behind it, a frame that ends at the size limit and one past it.
- Dataplane: two connections and names, two backends, two client tuples, three
  configurations: the first, one that moves a route and removes the other (so
  that a backend goes too), and one with encoded CIDs. `dataplane_lifetime` has
  a clock up to the idle timeout, which moves by one while nothing closes, or by
  the timeout with a connection that closes, so that the other takes its tuple
  (`Paces`); `dataplane_rebind` one connection and twice the timeout.
- Event loop: two clients, one flow slot and one descriptor, so that each
  displaces the other; three buckets in which all names and all addresses
  collide and wrap; three documents: both backends, the second one only (twice,
  under two host names, with other settings), and one that does not load as a
  whole although its beginning does, which is also written in place. One event
  per epoll_wait, one receive round per event and queues of one, so that a tag
  that is ready is left for later. The process ends, so deadlock is not checked.
- `MaxTime` bounds the clock at a little above the idle timeout: the code only
  compares ages with the timeout. `MaxId` bounds the flows ever opened.
- Client tuples are symmetric in the `Dataplane` safety runs. The runs with
  liveness properties use no symmetry.

### Fairness

`CallsReturn` assumes weak fairness of the steps of a call in progress: the
process runs and nothing in a call blocks. `IdleFlowsExpire` assumes, besides,
strong fairness of starting a sweep: the loop sweeps every second whatever else
happens, while in the model other calls may come between. `EventLoop` assumes
weak fairness of the start-up and of the loop's steps (the process is scheduled,
`epoll_wait` returns within a second, `getaddrinfo` returns), among them the
receive rounds on the main socket. There is no fairness of traffic, of the
operator or of the signal.

### Environment of the Dataplane runs

One open connection per client tuple; no packets of closed connections; a
ClientHello in one datagram (several are `ReceiveLoop`'s subject); room in the
session table for every alias; a server CID never collides with another; the
idle timeout does not change in a reload. `Connect`, `Close`, `Rebind`, `Sends`
and the connection records are external to the repository.

## Proofs

Each theorem holds for every value of the constants that satisfies the named
ASSUMEs of its module: a positive capacity, hashes into the array, descriptors
that are natural numbers, positive budgets and sizes, a zeroed slot that is not
a session, a flow or an entry, configurations that route names to backends,
documents that are sequences of entries, ClientHellos that are lists of fields
with their lengths. TLC evaluates them in the runs. A theorem that needs more
says so in an ASSUME of its own; each of those holds in the runs that check the
property.

`SessionTableProofs`, for every capacity, key set, hash, budget and threshold:

- `TypeCorrect`: `TypeOK`.
- `MaskTheorem`: `MaskCoversLive`. The mask is only replaced when the cursor has
  gone around, by the pending mask. The inductive invariant says that the
  pending mask covers every session in a slot the cursor has passed in this
  cycle; a relocated session re-enters through the reinsertion, which adds its
  length to both masks.
- `ProbeTheorem`: `ProbeIntegrity`. During a deletion the invariant is weaker: a
  key's probe path may cross one hole, and only for sessions at or behind the
  cursor in the same cluster. Each `Reinsert` shortens that stretch, and at an
  empty slot it is empty. That a probe stops at all is the least-number principle
  applied to `Dist`.
- `CountTheorem`: `CountMatches`; a reinsertion fills a free slot for the one it
  empties, because no key is stored twice.
- `RetryTheorem`: `RetryFindsSlot`. Between the walks of a put a slot is free: in
  a full table the window holds a victim, and relocations keep the number.
- `PressureTheorem`: `PressureKeepsRoom`, if the scan covers two slots and the
  percentage leaves one: an eviction that finds nothing has seen two free slots,
  so the put that follows leaves one.
- `WalkTheorem`: `WalkComplete`. A deletion may go around a full table more than
  once, so "sessions only move back towards the walk's slot" needs an order that
  does not wrap. The invariant gives one: some slot is a cut, passed by no probe
  (a free slot, or the slot filled last), and read from behind it the holes that
  probes pass begin at the walk's slot. Hence no session the walk has still to
  see goes to a slot it has passed.
- `MapTheorem`: `ImplementsMap`, for capacities below the pressure eviction's.
  The map is the set of stored sessions: deletion removes one entry, a
  reinsertion is a stuttering step, a full table's eviction removes the oldest
  of its window.

`FlowTableProofs`, for every capacity, descriptor set and number of clients:
`FlowTypes`, `FreeStackTheorem`, `FdsTheorem`, `OneFlowTheorem`,
`GenerationTheorem`, `AcquireEvictsOneTheorem`. None of these is inductive alone:
that a put takes an unused slot needs the free stack, that closing a flow's
descriptor closes no other's needs `FdsOwned`. The inductive invariant is their
conjunction with "every id is below `next_id` and belongs to one flow", as a
predicate on a table and the descriptors a caller holds besides (`Sound`). An
acquire that has evicted for a descriptor finds the victim's slot free, so the
put does not evict again. One lemma per operator of `FlowOps` lets composed calls
(an acquire that evicts, opens and fails to register) follow from their parts.

The modules over the flow table use it through `FlowLaws`, which states as
formulas what its operations guarantee: `FlowLaws` (the sound tables stay sound;
which flows an acquire, a sweep or an eviction keeps, opens or re-aims), `RoomLaws`
(what holds with room for all clients) and `NumberLaws` (induction). They are
theorems of `FlowTableProofs` (`FlowLawsTheorem`, `RoomLawsTheorem`,
`NumberLawsTheorem`). A client module proves its lemmas with the laws it needs as
hypotheses and then takes `FlowTableProofs` as an instance; `FlowLawsHold` shows
operator by operator that the instance's table is the module's own, so that no
theorem keeps a law as a hypothesis.

`FlowIndexProofs`, for every capacity, hash and number of clients:
`TypeOKTheorem`, `GetFindsFlowTheorem`, `NoLeftoversTheorem`. The positions in
use and the flows correspond one to one, except for the flow that is being
removed. A position's probe is clear of holes, unless it lies in the run that
starts at the deletion's cursor and so is still to be put back. A removal that
meets an empty position ends that run, and the index has twice as many
positions as there are slots, so there is one.

`ReceiveLoopProofs`, for every batch, queue and pending table, every cut of a
ClientHello into frames and packets and every order of arrival:

- `TypeOKTheorem`, `SendsWhatArrivedTheorem`, `NoStaleEntryTheorem`,
  `StreamExactTheorem`. Between two datagrams the queue borrows only from receive
  buffers already handled in this round: what is flushed out of a pending entry
  is sent before the entry is removed. Each entry's stream holds the bytes of its
  packets, and those of its client only. The interval that `CryptoStream` keeps
  around the received bytes contains them all, so that merging by the interval
  loses none.
- `WholeWaitsForFlowTheorem`. What the parser finds in a prefix of a hello it
  finds in every longer one, and it finds the name as soon as the SNI extension
  (or the TLS record around the hello) is there to its end; the stream has the
  bytes of the packets. So an entry that is whole was kept because the acquire
  failed, and its client gets a flow in no other way (`WaitInv`).
- `WholeHelloForwardedTheorem`, if no client's hello comes in more packets than
  an entry stores (`AllFit`; what happens beyond is in the table above). Then
  every byte of the stream is one of a stored packet (`StoreInv`), and the flush
  sends all of these.

`DataplaneProofs`, for all connections, tuples, configurations and reloads:

- `TypeOKTheorem`, `BackendsConfiguredTheorem`, `NoStrangerKeepsAliasTheorem`. The
  invariant says of every flow and alias that its backend is configured, and of
  every generation id in an alias or a connection that it has been given out and
  that the flow which has it, if it still lives, is on a tuple of that connection.
- `ActiveKeepsAliasTheorem`: while a connection's traffic is within the timeout,
  the flow of its last packet is in the table, no older than that packet, and
  owns the alias (`KeepInv`). Its hypotheses: a slot and a descriptor for every
  client (`Roomy`; otherwise another client's acquire may evict the flow), no
  rebinding (`dataplane_rebind` shows why), a positive timeout, and no reload
  that removes a backend.

- `IssuerReachedTheorem` and `NameReachedTheorem`, the two properties for which the
  router exists. For every open connection, each thing by which its next packet may
  be looked up leads where its last one went: the aliases of the ID in use, the
  tuple's alias unless the ID decodes, the flow of the tuple once short headers may
  take the fast path (`RouteInv`). A step of another connection disturbs none of
  these, since no two open connections are at one tuple and a key names its
  connection. Hypotheses: `LateReplies` is FALSE, no reload removes a backend while
  IDs are encoded (`EncodedStay`), and for `NameReached` `EarlyZeroRtt` is FALSE;
  the table above says what happens otherwise.

The invariant's lemmas are in `DataplaneInvProofs`, those of `RouteInv` and the name
in `DataplaneRouteProofs`, those of `KeepInv` with the theorems.

`EventLoopProofs`: `LoadedIndexesExact`, for every document, hash and number of
buckets. By induction over the entries, every table on the way to a loaded one
has an index by name without holes before its keys; after resolution the same
holds of the index by address, and each server id leads to the route that has it.
On it rest `RoutesExactTheorem` (as the table goes from built to resolved to
used) and `SurvivorsKeepFlowTheorem` (the eviction looks addresses up in an exact
index). `FreesEverything`: at each stage, what the earlier ones have acquired is
held, and nothing its error path does not free. `TypeOKTheorem`: with the types,
that the ready list and the events taken from it hold tags of the epoll set only
and no queue or receive round passes its limit.

Induction: `FlowTableProofs` begins with it, in a form the provers can use, on a set
of numbers instead of a predicate, and with it that a recursive function over the
entries of a file, the slots of a table or the extensions of a hello has values of
the right kind. The walks over sequences (`Among`, `ExtensionEnd`) are recursive
functions for that reason.

Only model-checked: the liveness properties (`CallsReturn`, `IdleFlowsExpire`,
`FileApplied`, `RepliesServed`, `StopExits`) and everything about ENABLED, which
the provers do not reach. Every other property of a passing run has its theorem.

## Not modelled

- `quic_crypto.c`, the cipher of `cid_codec.c`, `hash.c`: library calls and an
  arbitrary function. No finite model tells a right ciphertext from a wrong one.
- `quic_initial.c`: a parser of one header, without state or recursion. The
  packet types and connection IDs it tells apart are those of the models; its
  bounds checks are a matter of single inputs.
- Varints and the scalar parsers of `config.c`, the characters `valid_hostname`
  accepts, hellos whose inner lengths contradict each other: an entry or a name
  is accepted or not. libyaml and getaddrinfo are external.
- The `poll()` loop, which a Linux build leaves out, socket options and the
  descriptor limit.
- The connection log, `log_route_diff` and `metrics.c`: nothing reads them.
- How many entries a put above the pressure threshold may remove.
