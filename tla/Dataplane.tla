------------------------------ MODULE Dataplane ------------------------------
(***************************************************************************)
(* The routing decisions of src/src/udp.c and src/src/runtime.c: how       *)
(* handle_client_packet finds the backend of a datagram in the flows, the  *)
(* session aliases and the routes, what it and handle_backend_packet       *)
(* learn, the expiry sweeps and the hot reload.                            *)
(*                                                                         *)
(* The session table is the map it implements (AliasMap), with room for    *)
(* every alias.  ClientHellos come in one datagram.  Around the router are *)
(* QUIC connections: each is at a client tuple, asks for a name, and puts  *)
(* the connection ID it chose, or one its backend issued, in its packets.  *)
(***************************************************************************)
EXTENDS FlowOps

CONSTANTS
  Conns,        \* connections, each with one SNI
  Names, NameOf,\* the SNIs, and the one of each connection
  Configs,      \* the configurations the operator may load
  Chosen,       \* the DCID a client chooses for its first Initial
  EarlyZeroRtt, \* a 0-RTT packet may overtake the connection's first Initial
  LateReplies,  \* a server's long header may come on a flow that has been aimed
                \* at another backend since
  Paces,        \* how far the clock moves at once, and how many connections
                \* close: [step : Nat, closes : Nat]
  MaxRebinds, MaxTime, MaxId \* bounds

ASSUME ConfigsAssumption ==
  /\ Configs \subseteq [routes : [Names -> Backends \cup {Unused}], encoded : BOOLEAN]
  /\ NameOf \in [Conns -> Names] /\ Unused \notin Backends /\ Chosen \notin Backends
ASSUME PacesAssumption == \A way \in Paces : way.step \in Nat

VARIABLES
  table,   \* runtime->flows
  aliases, \* runtime->sessions
  config,  \* runtime->config
  conn,    \* the connections
  now, pace

vars == <<table, aliases, config, conn, now, pace>>

-----------------------------------------------------------------------------
(* The aliases and their keys *)

\* A server's connection ID is named by the backend that issued it.
Dcids == Backends \cup {Chosen}
TupleKey(c) == <<"tuple", c>>
CidKey(x, dcid) == <<"cid", x, dcid>>
PairKey(x, dcid) == <<"pair", x, dcid>>
Keys == ({"tuple"} \X Clients) \cup ({"cid", "pair"} \X Conns \X Dcids)
NoKey == <<"none">>

\* (slot, id) is the owning flow, id 0 for none.
Alias == [backend : Backends, last_seen : Nat, slot : Slots, id : Nat]
ASSUME AliasAssumption == Unused \notin Alias

\* Deviation: an alias that is there keeps its backend.
PutKeepingBackend(a, k, b, slot, id) ==
  LET owned == id # 0 \/ a[k] = Unused
  IN [a EXCEPT ![k] = [backend |-> IF a[k] = Unused THEN b ELSE a[k].backend,
                       last_seen |-> now,
                       slot |-> IF owned THEN slot ELSE a[k].slot,
                       id |-> IF owned THEN id ELSE a[k].id]]

\* qsr_session_table_put_owned; an unowned put keeps the owner there is.
Put(a, k, b, slot, id) ==
  LET owned == id # 0 \/ a[k] = Unused
  IN [a EXCEPT ![k] = [backend |-> b, last_seen |-> now,
                       slot |-> IF owned THEN slot ELSE a[k].slot,
                       id |-> IF owned THEN id ELSE a[k].id]]
\* bind_client_tuple.
Bind(a, c, b) == Put(a, TupleKey(c), b, 0, 0)

\* learn_client_long_header_cids.
Learn(a, x, dcid, b, slot, id) ==
  Put(Put(a, CidKey(x, dcid), b, slot, id), PairKey(x, dcid), b, slot, id)

\* qsr_route_table_has_backend; the SNI lookup is config.routes[name].
BackendsOf(cfg) == {cfg.routes[n] : n \in Names} \ {Unused}
Configured(b) == b \in BackendsOf(config)

\* lookup_encoded_cid: a CID that a configured backend issued decodes to it.
Decodes(dcid) == config.encoded /\ dcid \in Backends /\ Configured(dcid)

-----------------------------------------------------------------------------
(* The connections *)

\* via: the flow and the backend of the connection's last forwarded datagram.
NoPath == [backend |-> Unused, id |-> 0, dcid |-> Chosen, final |-> FALSE]
\* phase: "chosen" before the server answers, "retry" after a Retry, "server"
\* from the server's first handshake packet on.  home: the backend its name
\* was last routed to.  tuples: where it has been.  seen: when it last had
\* traffic; lapsed: it was idle for the timeout at some time.
New == [life |-> "new", at |-> Unused, dcid |-> Chosen, phase |-> "chosen",
        via |-> NoPath, home |-> Unused, tuples |-> {}, seen |-> 0,
        lapsed |-> FALSE]

Init ==
  /\ table = Empty
  /\ aliases = [k \in Keys |-> Unused]
  /\ config \in Configs
  /\ conn = [x \in Conns |-> New]
  /\ now = 0
  /\ pace \in Paces

Vacant(c) == \A x \in Conns : ~(conn[x].life = "open" /\ conn[x].at = c)

Connect(x, c) ==
  /\ conn[x].life = "new" /\ Vacant(c)
  /\ conn' = [conn EXCEPT ![x].life = "open", ![x].at = c, ![x].tuples = {c},
                       ![x].seen = now]
  /\ UNCHANGED <<table, aliases, config, now, pace>>

Close(x) ==
  /\ conn[x].life = "open"
  /\ Cardinality({y \in Conns : conn[y].life = "closed"}) < pace.closes
  /\ conn' = [conn EXCEPT ![x].life = "closed"]
  /\ UNCHANGED <<table, aliases, config, now, pace>>

\* The client's address changes under it, to one the router knows nothing of,
\* or to any when its packets carry an encoded connection ID.
Rebind(x, c) ==
  /\ conn[x].life = "open" /\ Vacant(c)
  /\ Cardinality(conn[x].tuples) <= MaxRebinds
  /\ Decodes(conn[x].dcid) \/ (aliases[TupleKey(c)] = Unused /\ SlotOf(table, c) = NoSlot)
  /\ conn' = [conn EXCEPT ![x].at = c, ![x].tuples = @ \cup {c}]
  /\ UNCHANGED <<table, aliases, config, now, pace>>

\* The packets a client may send: an Initial, another long header (0-RTT, and
\* Handshake once the server answered), a short header.
Sends(x, type) ==
  /\ conn[x].life = "open"
  /\ table.next_id <= MaxId
  /\ CASE type = "initial" -> TRUE
       [] type = "long" -> conn[x].phase = "server" \/ EarlyZeroRtt
                             \/ conn[x].home # Unused
       [] type = "short" -> conn[x].phase = "server"

Forwarded(x, b, id) ==
  [conn EXCEPT ![x].via = [backend |-> b, id |-> id, dcid |-> conn[x].dcid,
                           final |-> conn[x].phase = "server"],
               ![x].seen = now]

-----------------------------------------------------------------------------
(* handle_client_packet *)

\* Deviation: the fast path is taken with encoded CIDs, too.
FastAlways(x, type) == type = "short" /\ SlotOf(table, conn[x].at) # NoSlot

\* The fast path: a short header on a tuple that has a flow.
Fast(x, type) ==
  type = "short" /\ ~config.encoded /\ SlotOf(table, conn[x].at) # NoSlot
FastPath(x, type) ==
  LET p == SlotOf(table, conn[x].at)
  IN /\ Sends(x, type) /\ Fast(x, type)
     /\ table' = [table EXCEPT !.flows[p].last_seen = now]
     /\ conn' = Forwarded(x, table.flows[p].backend, table.flows[p].id)
     /\ UNCHANGED <<aliases, config, now, pace>>

\* Deviation: an Initial may match the bare tuple.
LookupTupleFirst(x, type) ==
  LET c == conn[x].at
      cid == CidKey(x, conn[x].dcid)
  IN IF aliases[TupleKey(c)] # Unused
     THEN [a |-> aliases, key |-> TupleKey(c)]
     ELSE IF aliases[cid] # Unused
     THEN [a |-> Bind(aliases, c, aliases[cid].backend), key |-> TupleKey(c)]
     ELSE [a |-> aliases, key |-> NoKey]

\* The lookups in their order: the key of the session found, and the aliases
\* with what the lookups bound.
Lookup(x, type) ==
  LET c == conn[x].at
      dcid == conn[x].dcid
      decoded == IF Decodes(dcid) THEN Bind(aliases, c, dcid) ELSE aliases
      pair == PairKey(x, dcid)
      cid == CidKey(x, dcid)
      CidHit == decoded[cid] # Unused
      Trusted == Configured(decoded[cid].backend)
  IN IF type = "initial"
     THEN [a |-> decoded,
           key |-> IF decoded[pair] # Unused THEN pair
                   ELSE IF CidHit /\ Trusted THEN cid ELSE NoKey]
     ELSE IF decoded[TupleKey(c)] # Unused
     THEN [a |-> decoded, key |-> TupleKey(c)]
     ELSE IF CidHit /\ (type = "short" \/ Trusted)
     THEN [a |-> Bind(decoded, c, decoded[cid].backend), key |-> TupleKey(c)]
     ELSE [a |-> decoded, key |-> NoKey]

\* A session is found: it is touched, its flow acquired, a long header's CIDs
\* learned, and the datagram sent to its backend.
KnownSession(x, type, registered) ==
  LET found == Lookup(x, type)
      b == found.a[found.key].backend
      touched == [found.a EXCEPT ![found.key].last_seen = now]
      acquired == Acquired(table, conn[x].at, b, registered, now)
      p == SlotOf(acquired, conn[x].at)
      id == acquired.flows[p].id
  IN /\ Sends(x, type) /\ ~Fast(x, type)
     /\ found.key # NoKey
     /\ table' = acquired
     /\ aliases' = IF p = NoSlot \/ type = "short" THEN touched
                   ELSE Learn(touched, x, conn[x].dcid, b, p, id)
     /\ conn' = IF p = NoSlot THEN conn ELSE Forwarded(x, b, id)
     /\ UNCHANGED <<config, now, pace>>

\* The ClientHello can be read, as long as the server has not set up keys of
\* its own, and its name has a route.
Routable(x, type) ==
  /\ type = "initial" /\ conn[x].phase # "server"
  /\ config.routes[NameOf[x]] # Unused

FreshInitial(x, type, registered) ==
  LET found == Lookup(x, type)
      c == conn[x].at
      b == config.routes[NameOf[x]]
      acquired == Acquired(table, c, b, registered, now)
      p == SlotOf(acquired, c)
      id == acquired.flows[p].id
  IN /\ Sends(x, type)
     /\ found.key = NoKey /\ Routable(x, type)
     /\ table' = acquired
     /\ aliases' = IF p = NoSlot THEN found.a
                   ELSE Learn(Put(found.a, TupleKey(c), b, p, id),
                              x, conn[x].dcid, b, p, id)
     /\ conn' = IF p = NoSlot THEN conn
                ELSE [Forwarded(x, b, id) EXCEPT ![x].home = b]
     /\ UNCHANGED <<config, now, pace>>

DropPacket(x, type) ==
  LET found == Lookup(x, type)
  IN /\ Sends(x, type) /\ ~Fast(x, type)
     /\ found.key = NoKey /\ ~Routable(x, type)
     /\ aliases' = found.a
     /\ UNCHANGED <<table, config, conn, now, pace>>

-----------------------------------------------------------------------------
(* handle_backend_packet *)

\* The server of x answers on the flow its last datagram came from.
ReplySlot(x, p) == Used(table, p) /\ table.flows[p].id = conn[x].via.id

\* A long header (phase: what it tells the client): its SCID is learned as an
\* alias of the flow's backend, and the client takes it as its DCID.
LongReply(x, p, phase) ==
  LET f == table.flows[p]
      b == conn[x].via.backend
      arrives == conn[x].life = "open" /\ conn[x].at = f.client
  IN /\ ReplySlot(x, p)
     /\ phase = "retry" => conn[x].phase = "chosen"
     /\ f.backend = b \/ LateReplies
     /\ table' = [table EXCEPT !.flows[p].last_seen = now]
     /\ aliases' = Put(aliases, CidKey(x, b), f.backend, p, f.id)
     /\ conn' = IF ~arrives THEN conn
                ELSE IF conn[x].phase = "server" THEN [conn EXCEPT ![x].seen = now]
                ELSE [conn EXCEPT ![x].dcid = b, ![x].phase = phase, ![x].seen = now]
     /\ UNCHANGED <<config, now, pace>>

ShortReply(x, p) ==
  /\ ReplySlot(x, p) /\ conn[x].phase = "server"
  /\ conn[x].life = "open" /\ conn[x].at = table.flows[p].client
  /\ table' = [table EXCEPT !.flows[p].last_seen = now]
  /\ conn' = [conn EXCEPT ![x].seen = now]
  /\ UNCHANGED <<aliases, config, now, pace>>

-----------------------------------------------------------------------------
(* run_expiry_sweeps *)

Active(p) == Used(table, p) /\ now - table.flows[p].last_seen < IdleTimeout
IdleAlias(k) == aliases[k] # Unused /\ now - aliases[k].last_seen >= IdleTimeout

\* Deviation: whatever flow is in the owner's slot keeps the alias.
KeepaliveAnyFlow(k) ==
  IF aliases[k].id # 0 THEN Active(aliases[k].slot)
  ELSE k[1] = "tuple" /\ \E p \in Slots : Active(p) /\ table.flows[p].client = k[2]

\* Deviation: owners are not looked at.
KeepaliveTupleOnly(k) ==
  k[1] = "tuple" /\ \E p \in Slots : Active(p) /\ table.flows[p].client = k[2]

\* qsr_runtime_session_keepalive.
Keepalive(k) ==
  IF aliases[k].id # 0
  THEN Active(aliases[k].slot) /\ table.flows[aliases[k].slot].id = aliases[k].id
  ELSE k[1] = "tuple" /\ \E p \in Slots : Active(p) /\ table.flows[p].client = k[2]

\* The session sweep reaches one idle alias or none, and the flow sweep follows
\* it.  Sweeps that reach more come to the same as several of these: the flows
\* that the flow sweep removes are not Active, so they keep no alias.
Sweep ==
  /\ \/ UNCHANGED aliases
     \/ \E k \in Keys :
          /\ IdleAlias(k)
          /\ aliases' = [aliases EXCEPT ![k] =
               IF Keepalive(k) THEN [@ EXCEPT !.last_seen = now] ELSE Unused]
  /\ table' = ExpireAll(table, now)
  /\ UNCHANGED <<config, conn, now, pace>>

-----------------------------------------------------------------------------
(* reload_from_path *)

\* Deviation: the flows of removed backends stay.
ReloadKeepingFlows(cfg) ==
  LET doomed == BackendsOf(config) \ BackendsOf(cfg)
  IN /\ config' = cfg
     /\ aliases' = [k \in Keys |->
          IF aliases[k] # Unused /\ aliases[k].backend \in doomed
          THEN Unused ELSE aliases[k]]
     /\ UNCHANGED <<table, conn, now, pace>>

\* A configuration that parses and resolves; any other changes nothing.
Reload(cfg) ==
  LET doomed == BackendsOf(config) \ BackendsOf(cfg)
  IN /\ config' = cfg
     /\ aliases' = [k \in Keys |->
          IF aliases[k] # Unused /\ aliases[k].backend \in doomed
          THEN Unused ELSE aliases[k]]
     /\ table' = EvictBackends(table, doomed)
     /\ UNCHANGED <<conn, now, pace>>

Tick ==
  /\ now + pace.step <= MaxTime
  /\ now' = now + pace.step
  /\ conn' = [x \in Conns |->
       [conn[x] EXCEPT !.lapsed = @ \/ now' - conn[x].seen >= IdleTimeout]]
  /\ UNCHANGED <<table, aliases, config, pace>>

-----------------------------------------------------------------------------

Types == {"initial", "long", "short"}
ClientPacket(x, type) ==
  \/ FastPath(x, type) \/ DropPacket(x, type)
  \/ \E registered \in BOOLEAN :
       KnownSession(x, type, registered) \/ FreshInitial(x, type, registered)
BackendPacket(x, p) ==
  \/ \E phase \in {"retry", "server"} : LongReply(x, p, phase)
  \/ ShortReply(x, p)

\* Encoded connection IDs are turned on, not off.
Next ==
  \/ \E x \in Conns, c \in Clients : Connect(x, c) \/ Rebind(x, c)
  \/ \E x \in Conns : Close(x)
  \/ \E x \in Conns, type \in Types : ClientPacket(x, type)
  \/ \E x \in Conns, p \in Slots : BackendPacket(x, p)
  \/ \E cfg \in Configs : (config.encoded => cfg.encoded) /\ Reload(cfg)
  \/ Sweep \/ Tick

Spec == Init /\ [][Next]_vars

-----------------------------------------------------------------------------
(* Properties *)

Conn == [life : {"new", "open", "closed"}, at : Clients \cup {Unused}, dcid : Dcids,
         phase : {"chosen", "retry", "server"},
         via : [backend : Backends \cup {Unused}, id : Nat, dcid : Dcids,
                final : BOOLEAN],
         home : Backends \cup {Unused}, tuples : SUBSET Clients,
         seen : Nat, lapsed : BOOLEAN]

TypeOK ==
  /\ table \in Tables
  /\ aliases \in [Keys -> Alias \cup {Unused}]
  /\ config \in Configs
  /\ conn \in [Conns -> Conn]
  /\ now \in Nat
  /\ pace \in Paces

\* "Every session entry's backend_addr points at one of the OLD configured
\* backends" (runtime.c): at any time every alias and every flow leads to a
\* backend of the configuration in force, so that the removal of a backend
\* ends its traffic.
BackendsConfigured ==
  /\ \A k \in Keys : aliases[k] # Unused => Configured(aliases[k].backend)
  /\ \A p \in UsedSlots(table) : Configured(table.flows[p].backend)

\* A packet with a connection ID that a server issued reaches that server,
\* whoever used the tuple before, and through rebinding, eviction, expiry and
\* reload.
IssuerReached ==
  \A x \in Conns : conn[x].life = "open" /\ conn[x].via.final =>
    conn[x].via.backend = conn[x].via.dcid

\* Until then a connection's packets reach the backend its own name was routed
\* to, or the one that sent it a Retry: "a bare tuple match would misroute a
\* fresh Initial" on a tuple that another connection used before.
NameReached ==
  \A x \in Conns : LET via == conn[x].via IN
    conn[x].life = "open" /\ via # NoPath /\ ~via.final =>
      via.backend \in {conn[x].home, via.dcid}

\* "Generation ids prevent a recycled flow slot from keeping a stranger's
\* alias alive": a sweep that refreshes an idle alias of a connection found
\* traffic on a tuple of that connection.
NoStrangerKeepsAlias ==
  [][\A x \in Conns, dcid \in Dcids : \A k \in {CidKey(x, dcid), PairKey(x, dcid)} :
       /\ aliases'[k] # aliases[k] /\ aliases'[k] # Unused
       /\ ~\E p \in Slots : Active(p) /\ table.flows[p].client \in conn[x].tuples
       => ~Sweep]_vars

\* "Session aliases no longer expire under an active connection": one that
\* has had traffic within every idle timeout keeps the alias of its server's
\* connection ID, by which it survives a NAT rebinding.
ActiveKeepsAlias ==
  \A x \in Conns :
    conn[x].life = "open" /\ conn[x].phase = "server" /\ ~conn[x].lapsed =>
      aliases[CidKey(x, conn[x].dcid)] # Unused
=============================================================================
