----------------------------- MODULE ReceiveLoop -----------------------------
(***************************************************************************)
(* The datagrams' way through src/src/udp.c: drain_socket receives a round *)
(* into a shared set of buffers, each datagram is handled in turn, and the *)
(* ones to forward wait in the send queue as borrowed pointers, into the   *)
(* receive buffers or into a pending-Initial entry, until sender_flush.    *)
(* Initials without a known session collect in pending entries until the   *)
(* ClientHello is whole.                                                   *)
(*                                                                         *)
(* The session table is reduced to `known', the clients whose tuple and    *)
(* CID-pair aliases are in it.  A client has one connection, whose         *)
(* ClientHello comes in the CRYPTO frames of one or more Initials          *)
(* (CryptoStream) and is read as far as it is contiguous (ClientHello).  A *)
(* GRO burst is so many datagrams of the round.                            *)
(***************************************************************************)
EXTENDS FlowOps, CryptoStream, ClientHello

CONSTANTS
  Routes,     \* the backend of a name, Unused when no route matches
  HelloOf,    \* a client's ClientHello
  SniEnd,     \* ... and where its SNI extension ends
  PacketsOf,  \* the frames of each Initial packet a client may send
  Segments,   \* bound on the datagrams of a recvmmsg round
  QueueSize,  \* QSR_UDP_BATCH_SIZE, the length of the send queue
  MaxPending, \* QSR_PENDING_INITIAL_CAPACITY
  MaxPackets, \* QSR_PENDING_INITIAL_MAX_PACKETS
  PendingIdle,\* QSR_PENDING_INITIAL_IDLE_SECONDS
  MainFd,     \* the listen socket
  MaxTime, MaxId \* bounds on the clock and on the flows ever opened

ASSUME LoopAssumption ==
  /\ \A c \in Clients : PacketsOf[c] \in Seq(Seq(Frames))
  /\ \A name \in DOMAIN Routes : Routes[name] \in Backends \cup {Unused}
  /\ {Segments, QueueSize, MaxPending, MaxPackets} \subseteq Nat \ {0}
  /\ {PendingIdle, MaxTime, MaxId} \subseteq Nat
  /\ MainFd \in Nat \ Fds
ASSUME HelloAssumption ==
  \A c \in Clients :
    /\ HelloOf[c] \in Hellos(DOMAIN Routes)
    /\ Snis(HelloOf[c].extensions) # {} => SniEnd[c] = SniEndOf(HelloOf[c])

VARIABLES
  table,      \* runtime->flows
  known,
  pending,    \* pending_initials->entries
  next_evict, \* the same table's cursor, modulo the capacity as it is used
  recv,       \* the receive buffers
  round,      \* the datagrams of this round not handled yet
  queue,      \* sender->items
  sent,       \* what the last step handed to sendmmsg
  now

vars == <<table, known, pending, next_evict, recv, round, queue, sent, now>>

Datagrams == [kind : {"initial", "short", "reply"}, client : Clients,
              part : Nat]
Initials(c) == {[kind |-> "initial", client |-> c, part |-> part] : part \in DOMAIN PacketsOf[c]}
FromClients ==
  (UNION {Initials(c) : c \in Clients})
  \cup {[kind |-> "short", client |-> c, part |-> 0] : c \in Clients}
Reply(c) == [kind |-> "reply", client |-> c, part |-> 0]
FramesOf(d) == PacketsOf[d.client][d.part]

Entry == [client : Clients, packets : Seq(Datagrams), crypto : Streams, last_seen : Nat]
ASSUME EntryAssumption == Unused \notin Entry
Entries == 1 .. MaxPending
Buffers == 1 .. Segments
\* A queued item borrows receive buffer i (entry = 0) or packet i of a pending
\* entry; `of' is the datagram that was there when it was enqueued.
Items == [fd : Fds \cup {MainFd}, entry : 0 .. MaxPending, i : Nat, of : Datagrams]
Outputs == [fd : Fds \cup {MainFd}, of : Datagrams, bytes : Datagrams \cup {Unused}]

Idle == [next |-> 1, last |-> 0]

Init ==
  /\ table = Empty /\ known = {}
  /\ pending = [e \in Entries |-> Unused] /\ next_evict = 0
  /\ recv = [i \in Buffers |-> Unused] /\ round = Idle
  /\ queue = <<>> /\ sent = <<>> /\ now = 0

-----------------------------------------------------------------------------
(* The send queue *)

\* What an item's pointer shows, given the pending entries at that moment.
Bytes(item, entries) ==
  IF item.entry = 0 THEN recv[item.i]
  ELSE IF entries[item.entry] = Unused THEN Unused
  ELSE entries[item.entry].packets[item.i]

\* sender_flush: the items go to sendmmsg in their order.
Flushed(items, entries) ==
  [n \in 1 .. Len(items) |->
     [fd |-> items[n].fd, of |-> items[n].of, bytes |-> Bytes(items[n], entries)]]

\* Deviation: the limit is not looked at.
EnqueueUnchecked(item) == queue' = Append(queue, item) /\ sent' = <<>>

\* sender_enqueue: a full queue is flushed first.
Enqueue(item) ==
  LET full == Len(queue) >= QueueSize
  IN /\ queue' = IF full THEN <<item>> ELSE Append(queue, item)
     /\ sent' = IF full THEN Flushed(queue, pending) ELSE <<>>

-----------------------------------------------------------------------------
(* drain_socket *)

\* recvmmsg overwrites the first buffers.
Receive(datagrams) ==
  /\ round = Idle
  /\ recv' = [i \in Buffers |-> IF i \in DOMAIN datagrams THEN datagrams[i] ELSE recv[i]]
  /\ round' = [next |-> 1, last |-> Len(datagrams)]
  /\ sent' = <<>>
  /\ UNCHANGED <<table, known, pending, next_evict, queue, now>>

ReceiveClients(n) ==
  /\ table.next_id + n <= MaxId + 1
  /\ \E datagrams \in [1 .. n -> FromClients] : Receive(datagrams)
ReceiveFlow(n, p) ==
  /\ Used(table, p)
  /\ Receive([i \in 1 .. n |-> Reply(table.flows[p].client)])

\* Deviation: the queue is left to the next round.
EndRoundQueued ==
  /\ round # Idle /\ round.next > round.last
  /\ round' = Idle
  /\ sent' = <<>>
  /\ UNCHANGED <<table, known, pending, next_evict, recv, queue, now>>

EndRound ==
  /\ round # Idle /\ round.next > round.last
  /\ round' = Idle
  /\ sent' = Flushed(queue, pending)
  /\ queue' = <<>>
  /\ UNCHANGED <<table, known, pending, next_evict, recv, now>>

Datagram == recv[round.next]
Advance == /\ round.next <= round.last
           /\ round' = [round EXCEPT !.next = @ + 1]
           /\ UNCHANGED <<recv, now>>
Borrow(fd) == [fd |-> fd, entry |-> 0, i |-> round.next, of |-> Datagram]

-----------------------------------------------------------------------------
(* handle_client_packet and handle_backend_packet *)

\* The fast path: a short header on a tuple that has a flow.
FastPath ==
  LET p == SlotOf(table, Datagram.client)
  IN /\ Advance
     /\ Datagram.kind = "short" /\ p # NoSlot
     /\ table' = [table EXCEPT !.flows[p].last_seen = now]
     /\ Enqueue(Borrow(table.flows[p].fd))
     /\ UNCHANGED <<known, pending, next_evict>>

\* The lookups fail and the datagram cannot be routed by SNI.
DropUnroutable ==
  /\ Advance
  /\ Datagram.kind = "short"
  /\ SlotOf(table, Datagram.client) = NoSlot /\ Datagram.client \notin known
  /\ sent' = <<>>
  /\ UNCHANGED <<table, known, pending, next_evict, queue>>

\* The backend of client c when n bytes of its ClientHello can be read, Unused
\* if there is none (the end of route_crypto_stream); a session has that of
\* all of them.
RouteOf(c, n) ==
  LET sni == Sni(HelloOf[c], n)
  IN IF sni = NoName THEN Unused ELSE Routes[sni]
BackendOf(c) == RouteOf(c, MaxHello)

\* A session is found: by the tuple for a short header, by the DCID+SCID pair
\* for an Initial.
KnownSession(registered) ==
  LET c == Datagram.client
      acquired == Acquired(table, c, BackendOf(c), registered, now)
      p == SlotOf(acquired, c)
  IN /\ Advance
     /\ c \in known
     /\ \/ Datagram.kind = "initial"
        \/ Datagram.kind = "short" /\ SlotOf(table, c) = NoSlot
     /\ table' = acquired
     /\ IF p # NoSlot THEN Enqueue(Borrow(acquired.flows[p].fd))
        ELSE sent' = <<>> /\ UNCHANGED queue
     /\ UNCHANGED <<known, pending, next_evict>>

\* pending_initial_get: the client's entry, an unused one, or the next victim.
EntryOf(c) ==
  LET mine == {e \in Entries : pending[e] # Unused /\ pending[e].client = c}
      free == {e \in Entries : pending[e] = Unused}
      First(E) == CHOOSE e \in E : \A other \in E : e <= other
  IN IF mine # {} THEN First(mine)
     ELSE IF free # {} THEN First(free)
     ELSE next_evict + 1
Displaces(e, c) == pending[e] # Unused /\ pending[e].client # c
NextEvict(e, c) ==
  IF Displaces(e, c) THEN (next_evict + 1) % MaxPending ELSE next_evict

\* Deviation: only the first packet is stored.
StoredOnce(packets, d) == IF packets = <<>> THEN <<d>> ELSE packets

\* pending_initial_append_packet: a packet seen before, or past the limit, is
\* not stored.
Stored(packets, d) ==
  IF Len(packets) >= MaxPackets \/ \E i \in DOMAIN packets : packets[i] = d
  THEN packets ELSE Append(packets, d)

\* The entry with the packet's CRYPTO data merged, stored or not.
Merged(e, d) ==
  LET fresh == pending[e] = Unused \/ Displaces(e, d.client)
  IN [client |-> d.client, last_seen |-> now,
      packets |-> Stored(IF fresh THEN <<>> ELSE pending[e].packets, d),
      crypto |-> Merge(IF fresh THEN NewStream ELSE pending[e].crypto,
                       Extract(FramesOf(d)))]

\* pending_initial_remove, and the deviation that forgets it.
RemovedNothing(entries, e) == entries
Removed(entries, e) == [entries EXCEPT ![e] = Unused]

\* route_crypto_stream finds a backend.
Whole(entry) == RouteOf(entry.client, ContiguousLen(entry.crypto)) # Unused
Entered(e, d) == [pending EXCEPT ![e] = Merged(e, d)]

\* An Initial without a session is dropped when its frames cannot be read, ...
DropInitial ==
  /\ Advance
  /\ Datagram.kind = "initial" /\ Datagram.client \notin known
  /\ ~Extracts(FramesOf(Datagram))
  /\ sent' = <<>>
  /\ UNCHANGED <<table, known, pending, next_evict, queue>>

\* ... buffered while route_crypto_stream has no backend for it, ...
BufferInitial ==
  LET e == EntryOf(Datagram.client)
  IN /\ Advance
     /\ Datagram.kind = "initial" /\ Datagram.client \notin known
     /\ Extracts(FramesOf(Datagram))
     /\ ~Whole(Merged(e, Datagram))
     /\ pending' = Entered(e, Datagram)
     /\ next_evict' = NextEvict(e, Datagram.client)
     /\ sent' = <<>>
     /\ UNCHANGED <<table, known, queue>>

\* ... and the fresh connection: flow and aliases are made, the entry's packets
\* enqueued, the whole queue flushed, and only then the entry zeroed.
FreshConnection(registered) ==
  LET c == Datagram.client
      e == EntryOf(c)
      acquired == Acquired(table, c, BackendOf(c), registered, now)
      p == SlotOf(acquired, c)
      entered == Entered(e, Datagram)
      packets == entered[e].packets
      borrowed == [i \in DOMAIN packets |-> [fd |-> acquired.flows[p].fd,
                     entry |-> e, i |-> i, of |-> packets[i]]]
  IN /\ Advance
     /\ Datagram.kind = "initial" /\ c \notin known
     /\ Extracts(FramesOf(Datagram))
     /\ Whole(entered[e])
     /\ next_evict' = NextEvict(e, c)
     /\ table' = acquired
     /\ IF p = NoSlot
        THEN /\ pending' = entered
             /\ sent' = <<>>
             /\ UNCHANGED <<known, queue>>
        ELSE /\ known' = known \cup {c}
             /\ sent' = Flushed(queue \o borrowed, entered)
             /\ queue' = <<>>
             /\ pending' = Removed(entered, e)

\* handle_backend_packet: the reply leaves from the listen socket.
RelayReply ==
  LET p == SlotOf(table, Datagram.client)
  IN /\ Advance
     /\ Datagram.kind = "reply"
     /\ table' = [table EXCEPT !.flows[p].last_seen = now]
     /\ Enqueue(Borrow(MainFd))
     /\ UNCHANGED <<known, pending, next_evict>>

-----------------------------------------------------------------------------
(* The main loop between rounds *)

\* run_expiry_sweeps.  The aliases of a client go when the session table
\* expires or evicts them.
Sweep ==
  /\ round = Idle
  /\ \E gone \in SUBSET known : known' = known \ gone
  /\ table' = ExpireAll(table, now)
  /\ pending' = [e \in Entries |->
       IF pending[e] # Unused /\ now - pending[e].last_seen >= PendingIdle
       THEN Unused ELSE pending[e]]
  /\ sent' = <<>>
  /\ UNCHANGED <<next_evict, recv, round, queue, now>>

Tick ==
  /\ round = Idle
  /\ now < MaxTime
  /\ now' = now + 1
  /\ sent' = <<>>
  /\ UNCHANGED <<table, known, pending, next_evict, recv, round, queue>>

Handle ==
  \/ FastPath \/ DropUnroutable \/ DropInitial \/ BufferInitial \/ RelayReply
  \/ \E registered \in BOOLEAN : KnownSession(registered) \/ FreshConnection(registered)

Next ==
  \/ \E n \in Buffers : ReceiveClients(n)
  \/ \E n \in Buffers, p \in Slots : ReceiveFlow(n, p)
  \/ Handle \/ EndRound \/ Sweep \/ Tick

Spec == Init /\ [][Next]_vars

-----------------------------------------------------------------------------
(* Properties *)

TypeOK ==
  /\ table \in Tables /\ known \subseteq Clients
  /\ pending \in [Entries -> Entry \cup {Unused}] /\ next_evict \in 0 .. MaxPending - 1
  /\ recv \in [Buffers -> Datagrams \cup {Unused}]
  /\ round \in [next : 1 .. Segments + 1, last : 0 .. Segments]
  /\ queue \in Seq(Items) /\ Len(queue) <= QueueSize
  /\ sent \in Seq(Outputs) /\ now \in 0 .. MaxTime

\* "The payload is a borrowed pointer into buffers that stay valid until the
\* next flush point": what reaches the kernel is the datagram that was
\* enqueued, whatever the rounds, the early flushes and the removals of
\* pending entries in between.
SendsWhatArrived == \A n \in DOMAIN sent : sent[n].bytes = sent[n].of

\* A client with a session has no pending entry left: it holds none of the few
\* entries, and when its aliases are gone later its Initials do not meet the
\* packets and the CRYPTO stream of the time before.
NoStaleEntry ==
  \A e \in Entries : pending[e] # Unused => pending[e].client \notin known

\* The bytes of the ClientHello that the Initials among datagrams ds carry.
Carries(d) ==
  UNION {Span(FramesOf(d)[i]) : i \in {j \in DOMAIN FramesOf(d) : IsCrypto(FramesOf(d)[j])}}
Carried(ds) == UNION {Carries(d) : d \in {e \in ds : e.kind = "initial"}}
PacketsIn(entry) == {entry.packets[i] : i \in DOMAIN entry.packets}

\* An entry's CRYPTO stream has every byte that its packets carry, in whatever
\* order their frames came, and none that its client did not send: an entry
\* taken over from another client starts with an empty stream.
StreamExact ==
  \A e \in Entries : pending[e] # Unused =>
    /\ Carried(PacketsIn(pending[e])) \subseteq pending[e].crypto.received
    /\ pending[e].crypto.received \subseteq Carried(Initials(pending[e].client))

\* A ClientHello that has arrived up to its SNI, and whose name has a route,
\* waits in its entry for one reason only, that no flow could be opened.
WholeWaitsForFlow ==
  \A e \in Entries : pending[e] # Unused =>
    \/ ~ 0 .. SniEnd[pending[e].client] - 1 \subseteq Carried(PacketsIn(pending[e]))
    \/ BackendOf(pending[e].client) = Unused
    \/ SlotOf(table, pending[e].client) = NoSlot

\* "flushing the entry forwards it along with any earlier fragments of a
\* multi-datagram ClientHello": a fresh connection's backend is sent every
\* byte of the ClientHello that routed it.
WholeHelloForwarded ==
  [][\A c \in known' \ known :
       0 .. SniEnd[c] - 1 \subseteq
         Carried({sent'[n].of : n \in {m \in DOMAIN sent' : sent'[m].of.client = c}})]_vars

\* A flow's socket is "used exclusively for one client tuple's traffic toward
\* its backend": no datagram leaves through another client's flow.
OwnSocketOnly ==
  \A n \in DOMAIN sent : \A p \in UsedSlots(table) :
    table.flows[p].fd = sent[n].fd => table.flows[p].client = sent[n].of.client
=============================================================================
