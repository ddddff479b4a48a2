------------------------- MODULE DataplaneInvProofs -------------------------
(***************************************************************************)
(* The routing, for every number of connections, clients, backends, flow   *)
(* slots and configurations.  Inv says of every flow and alias that its    *)
(* backend is configured, and of every generation id in an alias or a      *)
(* connection that it was given out and is on a tuple of the connection.   *)
(* This module shows that the steps preserve it, given the laws of the     *)
(* flow table (FlowLaws), and what the parts of a step change;             *)
(* DataplaneRouteProofs and DataplaneProofs build on both.                 *)
(***************************************************************************)
EXTENDS Dataplane, FlowLaws, TLAPS

\* The limit of a leaf counts the time in which other leaves are prepared.
USE SMTT(30), Zenon

-----------------------------------------------------------------------------
(* The invariant *)

\* A generation id that a connection may refer to: given out already, and the
\* flow that has it, if it is still there, is on a tuple of the connection.
Known(t, id, tuples) ==
  id # 0 => /\ id < t.next_id
            /\ \A p \in UsedSlots(t) : t.flows[p].id = id => t.flows[p].client \in tuples

FlowsFine(t, cfg) ==
  /\ Sound(t, {}) /\ t.next_id # 0
  /\ \A p \in UsedSlots(t) : t.flows[p].id # 0 /\ t.flows[p].backend \in BackendsOf(cfg)

AliasMaps == [Keys -> Alias \cup {Unused}]
AliasFine(k, s, t, cfg, cn) ==
  /\ s.backend \in BackendsOf(cfg)
  /\ k[1] # "tuple" => Known(t, s.id, cn[k[2]].tuples)
AliasesFine(a, t, cfg, cn) ==
  /\ a \in AliasMaps
  /\ \A k \in Keys : a[k] # Unused => AliasFine(k, a[k], t, cfg, cn)

PeerFine(p, t) ==
  /\ p.life = "new" => p.tuples = {}
  /\ p.life = "open" => p.at \in p.tuples
  /\ p.via.id # 0 => p.via.backend \in Backends
  /\ Known(t, p.via.id, p.tuples)
PeersFine(cn, t) ==
  /\ cn \in [Conns -> Conn]
  /\ \A x \in Conns : PeerFine(cn[x], t)

Inv ==
  /\ config \in Configs /\ now \in Nat /\ pace \in Paces
  /\ FlowsFine(table, config)
  /\ AliasesFine(aliases, table, config, conn)
  /\ PeersFine(conn, table)

-----------------------------------------------------------------------------
(* Keys and backends *)

LEMMA KeyFacts ==
  /\ \A c \in Clients : TupleKey(c) \in Keys /\ TupleKey(c)[1] = "tuple"
  /\ \A x \in Conns, dcid \in Dcids :
       /\ CidKey(x, dcid) \in Keys /\ CidKey(x, dcid)[1] # "tuple" /\ CidKey(x, dcid)[2] = x
       /\ PairKey(x, dcid) \in Keys /\ PairKey(x, dcid)[1] # "tuple" /\ PairKey(x, dcid)[2] = x
  /\ NoKey \notin Keys
<1>1. \A c \in Clients : TupleKey(c) \in Keys /\ TupleKey(c)[1] = "tuple"
  BY Zenon DEF TupleKey, Keys
<1>2. \A x \in Conns, dcid \in Dcids :
        CidKey(x, dcid) \in Keys /\ CidKey(x, dcid)[1] # "tuple" /\ CidKey(x, dcid)[2] = x
  BY Zenon DEF CidKey, Keys
<1>3. \A x \in Conns, dcid \in Dcids :
        PairKey(x, dcid) \in Keys /\ PairKey(x, dcid)[1] # "tuple" /\ PairKey(x, dcid)[2] = x
  BY Zenon DEF PairKey, Keys
<1>4. NoKey \notin Keys
  <2>1. \A k \in Keys : k[1] # "none"
    BY Zenon DEF Keys
  <2> QED
    BY <2>1, Zenon DEF NoKey
<1> QED
  BY <1>1, <1>2, <1>3, <1>4, Zenon

LEMMA RoutesLead ==
  ASSUME NEW cfg \in Configs
  PROVE  /\ BackendsOf(cfg) \subseteq Backends
         /\ \A x \in Conns : cfg.routes[NameOf[x]] # Unused =>
              cfg.routes[NameOf[x]] \in BackendsOf(cfg)
BY ConfigsAssumption, Zenon DEF BackendsOf

-----------------------------------------------------------------------------
(* What a step does to the ids *)

\* The flows of u are flows of t, or have an id that t has not given out.
Follows(t, u) ==
  /\ t.next_id <= u.next_id
  /\ \A q \in UsedSlots(u) :
       \/ /\ q \in UsedSlots(t) /\ u.flows[q].id = t.flows[q].id
          /\ u.flows[q].client = t.flows[q].client
       \/ u.flows[q].id = t.next_id

LEMMA KnownLater ==
  ASSUME NEW t, NEW u, t.next_id \in Nat, u.next_id \in Nat, Follows(t, u),
         NEW id \in Nat, NEW S, NEW R, S \subseteq R, Known(t, id, S)
  PROVE  Known(u, id, R)
BY DEF Known, Follows

LEMMA AliasesLater ==
  ASSUME NEW t, NEW u, t.next_id \in Nat, u.next_id \in Nat, Follows(t, u),
         NEW cfg, NEW cn, NEW dn, \A x \in Conns : cn[x].tuples \subseteq dn[x].tuples,
         NEW a, AliasesFine(a, t, cfg, cn)
  PROVE  AliasesFine(a, u, cfg, dn)
<1> SUFFICES ASSUME NEW k \in Keys, a[k] # Unused
             PROVE  AliasFine(k, a[k], u, cfg, dn)
  BY Zenon DEF AliasesFine
<1>1. a[k] \in Alias /\ AliasFine(k, a[k], t, cfg, cn)
  BY Zenon DEF AliasesFine, AliasMaps
<1>2. CASE k[1] # "tuple"
  <2>1. k[2] \in Conns
    BY <1>2, Zenon DEF Keys
  <2>2. a[k].id \in Nat
    BY <1>1, Zenon DEF Alias
  <2>3. Known(u, a[k].id, dn[k[2]].tuples)
    BY <1>1, <1>2, <2>1, <2>2, KnownLater DEF AliasFine
  <2> QED
    BY <1>1, <2>3, Zenon DEF AliasFine
<1>3. CASE k[1] = "tuple"
  BY <1>1, <1>3, Zenon DEF AliasFine
<1> QED
  BY <1>2, <1>3, Zenon

LEMMA PeersLater ==
  ASSUME NEW t, NEW u, t.next_id \in Nat, u.next_id \in Nat, Follows(t, u),
         NEW cn, PeersFine(cn, t)
  PROVE  PeersFine(cn, u)
<1> SUFFICES ASSUME NEW x \in Conns PROVE PeerFine(cn[x], u)
  BY Zenon DEF PeersFine
<1>1. PeerFine(cn[x], t) /\ cn[x].via.id \in Nat
  BY Zenon DEF PeersFine, Conn
<1>2. Known(u, cn[x].via.id, cn[x].tuples)
  BY <1>1, KnownLater DEF PeerFine
<1> QED
  BY <1>1, <1>2, Zenon DEF PeerFine

LEMMA KeptFollows ==
  ASSUME NEW t, NEW u, NEW cfg, FlowsFine(t, cfg), Sound(u, {}), Kept(t, u)
  PROVE  Follows(t, u) /\ FlowsFine(u, cfg) /\ t.next_id \in Nat /\ u.next_id \in Nat
<1>1. t.next_id \in Nat /\ u.next_id \in Nat
  BY Zenon DEF FlowsFine, Sound, Tables
<1> QED
  BY <1>1 DEF FlowsFine, Kept, Follows

\* A packet on the flow in slot p refreshes it.
LEMMA RefreshFollows ==
  ASSUME FlowLaws, NEW t, NEW cfg, FlowsFine(t, cfg), NEW p \in UsedSlots(t), NEW time \in Nat,
         NEW u, u = [t EXCEPT !.flows[p].last_seen = time]
  PROVE  Follows(t, u) /\ FlowsFine(u, cfg) /\ t.next_id \in Nat /\ u.next_id \in Nat
<1> DEFINE f == [t.flows[p] EXCEPT !.last_seen = time]
<1>1. t \in Tables /\ t.flows \in [Slots -> Flow \cup {Unused}] /\ p \in Slots
  BY Zenon DEF FlowsFine, Sound, Tables, UsedSlots
<1>2. t.flows[p] \in Flow
  BY <1>1, Zenon DEF UsedSlots, Used
<1>3. /\ f \in Flow /\ f.client = t.flows[p].client /\ f.fd = t.flows[p].fd
      /\ f.id = t.flows[p].id /\ f.backend = t.flows[p].backend
  BY <1>2, Zenon DEF Flow
<1>4. u = [t EXCEPT !.flows = [t.flows EXCEPT ![p] = f]]
  BY <1>1, <1>2, Zenon DEF Tables
<1> HIDE DEF f
<1>5. Sound(u, {})
  BY <1>3, <1>4, Zenon DEF FlowLaws, RefreshLaw, FlowsFine
<1>6. u.next_id = t.next_id /\ t.next_id \in Nat /\ u.flows = [t.flows EXCEPT ![p] = f]
  BY <1>1, <1>4, Zenon DEF Tables
<1>7. \A q \in UsedSlots(u) :
        /\ q \in UsedSlots(t) /\ u.flows[q].id = t.flows[q].id
        /\ u.flows[q].client = t.flows[q].client /\ u.flows[q].backend = t.flows[q].backend
  BY <1>1, <1>3, <1>6, Zenon DEF UsedSlots, Used
<1> QED
  BY <1>5, <1>6, <1>7 DEF Follows, FlowsFine

\* flow_acquire, and what a caller that gets a flow may do with its id.
LEMMA AcquireFollows ==
  ASSUME FlowLaws, NEW t, NEW cfg, FlowsFine(t, cfg), NEW time \in Nat, NEW c \in Clients,
         NEW b \in BackendsOf(cfg), b \in Backends,
         NEW registered, NEW u, u = Acquired(t, c, b, registered, time),
         NEW p, p = SlotOf(u, c)
  PROVE  /\ Follows(t, u) /\ FlowsFine(u, cfg) /\ t.next_id \in Nat /\ u.next_id \in Nat
         /\ p # NoSlot => /\ p \in Slots /\ u.flows[p].id \in Nat \ {0}
                          /\ \A S : c \in S => Known(u, u.flows[p].id, S)
<1>1. /\ Sound(u, {}) /\ Aimed(t, u, c, b, time)
      /\ Opened(t, u) \/ (SlotOf(t, c) # NoSlot /\ u = Reuse(t, SlotOf(t, c), b, time))
  BY Zenon DEF FlowLaws, AcquireLaw, FlowsFine
<1>2. t \in Tables /\ t.next_id \in Nat /\ u.next_id \in Nat /\ t.next_id # 0
  BY <1>1, Zenon DEF FlowsFine, Sound, Tables
<1>3. /\ Follows(t, u)
      /\ \A q \in UsedSlots(u) : u.flows[q].id # 0
  <2>1. CASE Opened(t, u)
    BY <1>2, <2>1, Zenon DEF Opened, Follows, FlowsFine
  <2>2. CASE SlotOf(t, c) # NoSlot /\ u = Reuse(t, SlotOf(t, c), b, time)
    <3> DEFINE r == SlotOf(t, c)
    <3>1. r \in UsedSlots(t) /\ u = Reuse(t, r, b, time)
      BY <2>2, Zenon DEF FlowLaws, SlotLaw
    <3> HIDE DEF r
    <3>2. r \in Slots /\ t.flows \in [Slots -> Flow \cup {Unused}] /\ t.flows[r] \in Flow
      BY <1>2, <3>1, Zenon DEF Tables, UsedSlots, Used
    <3>3. /\ u.next_id = t.next_id
          /\ \A q \in Slots : q # r => u.flows[q] = t.flows[q]
          /\ u.flows[r].id = t.flows[r].id /\ u.flows[r].client = t.flows[r].client
      BY <1>2, <3>1, <3>2 DEF Reuse, Tables, Flow
    <3>4. \A q \in UsedSlots(u) : q \in Slots /\ q \in UsedSlots(t)
      BY <3>1, <3>3, Zenon DEF UsedSlots, Used
    <3> QED
      BY <1>2, <3>1, <3>3, <3>4 DEF Follows, FlowsFine
  <2> QED
    BY <1>1, <2>1, <2>2, Zenon
<1>4. FlowsFine(u, cfg)
  <2>1. \A q \in UsedSlots(u) : u.flows[q].backend \in BackendsOf(cfg)
    BY <1>1, Zenon DEF Aimed, FlowsFine
  <2>2. u.next_id # 0
    BY <1>2, <1>3 DEF Follows
  <2> QED
    BY <1>1, <1>3, <2>1, <2>2, Zenon DEF FlowsFine
<1>5. ASSUME p # NoSlot
      PROVE  /\ p \in Slots /\ u.flows[p].id \in Nat \ {0}
             /\ \A S : c \in S => Known(u, u.flows[p].id, S)
  <2>1. p \in UsedSlots(u) /\ u.flows[p].client = c /\ p \in Slots
    BY <1>5, Zenon DEF FlowLaws, SlotLaw, UsedSlots
  <2>2. u.flows \in [Slots -> Flow \cup {Unused}]
    BY <1>1, Zenon DEF Sound, Tables
  <2>3. u.flows[p] \in Flow
    BY <2>1, <2>2, Zenon DEF UsedSlots, Used
  <2>4. u.flows[p].id \in Nat \ {0}
    BY <1>3, <2>1, <2>3, Zenon DEF Flow
  <2>5. /\ u.flows[p].id < u.next_id
        /\ \A q \in UsedSlots(u) : u.flows[q].id = u.flows[p].id => q = p
    BY <1>1, <2>1, Zenon DEF Sound, Dated
  <2> QED
    BY <2>1, <2>4, <2>5, Zenon DEF Known
<1> QED
  BY <1>2, <1>3, <1>4, <1>5, Zenon

-----------------------------------------------------------------------------
(* The aliases *)

LEMMA PutFine ==
  ASSUME NEW a, NEW t, NEW cfg, NEW cn, AliasesFine(a, t, cfg, cn), now \in Nat,
         NEW k \in Keys, NEW b \in BackendsOf(cfg), b \in Backends,
         NEW slot \in Slots, NEW id \in Nat,
         k[1] # "tuple" => Known(t, id, cn[k[2]].tuples)
  PROVE  /\ AliasesFine(Put(a, k, b, slot, id), t, cfg, cn)
         /\ Put(a, k, b, slot, id)[k] \in Alias
         /\ Put(a, k, b, slot, id)[k].backend = b
<1> DEFINE owned == id # 0 \/ a[k] = Unused
           s == [backend |-> b, last_seen |-> now,
                 slot |-> IF owned THEN slot ELSE a[k].slot,
                 id |-> IF owned THEN id ELSE a[k].id]
           u == Put(a, k, b, slot, id)
<1>1. a \in AliasMaps /\ (a[k] # Unused => a[k] \in Alias /\ AliasFine(k, a[k], t, cfg, cn))
  BY Zenon DEF AliasesFine, AliasMaps
<1>2. u = [a EXCEPT ![k] = s]
  BY Zenon DEF Put
<1>3. s \in Alias
  BY <1>1, Zenon DEF Alias
<1>4. AliasFine(k, s, t, cfg, cn)
  <2>1. s.backend = b /\ (s.id = id \/ (a[k] # Unused /\ s.id = a[k].id))
    BY Zenon
  <2> HIDE DEF s
  <2> QED
    BY <1>1, <2>1, Zenon DEF AliasFine
<1>5. s.backend = b
  BY Zenon
<1> HIDE DEF s, u
<1>6. u \in AliasMaps /\ u[k] = s /\ \A j \in Keys : j # k => u[j] = a[j]
  BY <1>1, <1>2, <1>3, Zenon DEF AliasMaps
<1>7. AliasesFine(u, t, cfg, cn)
  BY <1>4, <1>6, Zenon DEF AliasesFine
<1> QED
  BY <1>3, <1>5, <1>6, <1>7, Zenon DEF u

LEMMA BindFine ==
  ASSUME NEW a, NEW t, NEW cfg, NEW cn, AliasesFine(a, t, cfg, cn), now \in Nat,
         NEW c \in Clients, NEW b \in BackendsOf(cfg), b \in Backends
  PROVE  /\ AliasesFine(Bind(a, c, b), t, cfg, cn)
         /\ Bind(a, c, b)[TupleKey(c)] \in Alias
         /\ Bind(a, c, b)[TupleKey(c)].backend = b
<1>1. 0 \in Slots /\ 0 \in Nat
  BY CapacityAssumption DEF Slots
<1>2. TupleKey(c) \in Keys /\ TupleKey(c)[1] = "tuple"
  BY KeyFacts, Zenon
<1> QED
  BY <1>1, <1>2, PutFine DEF Bind

LEMMA LearnFine ==
  ASSUME NEW a, NEW t, NEW cfg, NEW cn, AliasesFine(a, t, cfg, cn), now \in Nat,
         NEW x \in Conns, NEW dcid \in Dcids, NEW b \in BackendsOf(cfg), b \in Backends,
         NEW slot \in Slots, NEW id \in Nat, Known(t, id, cn[x].tuples)
  PROVE  AliasesFine(Learn(a, x, dcid, b, slot, id), t, cfg, cn)
<1> DEFINE u == Put(a, CidKey(x, dcid), b, slot, id)
<1>1. AliasesFine(u, t, cfg, cn)
  BY KeyFacts, PutFine
<1> HIDE DEF u
<1>2. AliasesFine(Put(u, PairKey(x, dcid), b, slot, id), t, cfg, cn)
  BY <1>1, KeyFacts, PutFine
<1> QED
  BY <1>2, Zenon DEF Learn, u

\* The lookups bind only to backends in force, and find a session of one.
LEMMA LookupFine ==
  ASSUME Inv, NEW x \in Conns, conn[x].at \in Clients, NEW type,
         NEW found, found = Lookup(x, type)
  PROVE  /\ AliasesFine(found.a, table, config, conn)
         /\ found.key # NoKey =>
              /\ found.key \in Keys /\ found.a[found.key] \in Alias
              /\ AliasFine(found.key, found.a[found.key], table, config, conn)
<1> DEFINE c == conn[x].at
           dcid == conn[x].dcid
           decoded == IF Decodes(dcid) THEN Bind(aliases, c, dcid) ELSE aliases
           pair == PairKey(x, dcid)
           cid == CidKey(x, dcid)
           tuple == TupleKey(c)
           bound == Bind(decoded, c, decoded[cid].backend)
           Trusted == Configured(decoded[cid].backend)
<1>1. config \in Configs /\ now \in Nat /\ dcid \in Dcids /\ BackendsOf(config) \subseteq Backends
  BY RoutesLead, Zenon DEF Inv, PeersFine, Conn
<1>2. pair \in Keys /\ cid \in Keys /\ tuple \in Keys
  BY <1>1, KeyFacts, Zenon
<1>3. AliasesFine(decoded, table, config, conn)
  <2>1. CASE Decodes(dcid)
    BY <1>1, <2>1, BindFine, Zenon DEF Decodes, Configured, Inv
  <2>2. CASE ~Decodes(dcid)
    BY <2>2, Zenon DEF Inv
  <2> QED
    BY <2>1, <2>2, Zenon
<1>4. found = IF type = "initial"
              THEN [a |-> decoded,
                    key |-> IF decoded[pair] # Unused THEN pair
                            ELSE IF decoded[cid] # Unused /\ Trusted THEN cid ELSE NoKey]
              ELSE IF decoded[tuple] # Unused
              THEN [a |-> decoded, key |-> tuple]
              ELSE IF decoded[cid] # Unused /\ (type = "short" \/ Trusted)
              THEN [a |-> bound, key |-> tuple]
              ELSE [a |-> decoded, key |-> NoKey]
  BY Zenon DEF Lookup
<1> HIDE DEF decoded, pair, cid, tuple, Trusted, bound
<1>5. \A k \in Keys : decoded[k] # Unused =>
        decoded[k] \in Alias /\ AliasFine(k, decoded[k], table, config, conn)
  BY <1>3, Zenon DEF AliasesFine, AliasMaps
<1> DEFINE Rebinds == /\ type # "initial" /\ decoded[tuple] = Unused
                      /\ decoded[cid] # Unused /\ (type = "short" \/ Trusted)
<1>6. CASE Rebinds
  <2>1. found.a = bound /\ found.key = tuple
    BY <1>4, <1>6
  <2>2. decoded[cid].backend \in BackendsOf(config)
    BY <1>2, <1>5, <1>6, Zenon DEF AliasFine
  <2>3. /\ AliasesFine(bound, table, config, conn)
        /\ bound[tuple] \in Alias /\ bound[tuple].backend = decoded[cid].backend
    BY <1>1, <1>3, <2>2, BindFine DEF bound, tuple
  <2>4. tuple[1] = "tuple"
    BY KeyFacts, Zenon DEF tuple
  <2> QED
    BY <1>2, <2>1, <2>2, <2>3, <2>4, Zenon DEF AliasFine
<1>7. CASE ~Rebinds
  <2>1. /\ found.a = decoded /\ found.key \in {pair, cid, tuple, NoKey}
        /\ found.key # NoKey => decoded[found.key] # Unused
    BY <1>4, <1>7
  <2> QED
    BY <1>2, <1>3, <1>5, <2>1, Zenon
<1> QED
  BY <1>6, <1>7, Zenon

\* The session that is found is touched.
LEMMA TouchFine ==
  ASSUME NEW a, NEW t, NEW cfg, NEW cn, AliasesFine(a, t, cfg, cn), now \in Nat,
         NEW k \in Keys, a[k] \in Alias, AliasFine(k, a[k], t, cfg, cn)
  PROVE  AliasesFine([a EXCEPT ![k].last_seen = now], t, cfg, cn)
<1> DEFINE s == [a[k] EXCEPT !.last_seen = now]
           u == [a EXCEPT ![k] = s]
<1>1. s \in Alias /\ s.backend = a[k].backend /\ s.id = a[k].id
  BY Zenon DEF Alias
<1>2. a \in AliasMaps
  BY Zenon DEF AliasesFine
<1>3. AliasFine(k, s, t, cfg, cn)
  BY <1>1, <1>2, Zenon DEF AliasFine
<1> HIDE DEF s
<1>4. u \in AliasMaps /\ u[k] = s /\ \A j \in Keys : j # k => u[j] = a[j]
  BY <1>1, <1>2, Zenon DEF AliasMaps
<1> HIDE DEF u
<1>5. AliasesFine(u, t, cfg, cn)
  BY <1>3, <1>4, Zenon DEF AliasesFine
<1>6. [a EXCEPT ![k].last_seen = now] = [a EXCEPT ![k] = [a[k] EXCEPT !.last_seen = now]]
  BY Zenon
<1> QED
  BY <1>5, <1>6, Zenon DEF u, s

LEMMA ForwardedFine ==
  ASSUME NEW t, PeersFine(conn, t), now \in Nat, NEW x \in Conns, NEW b \in Backends,
         NEW id \in Nat, Known(t, id, conn[x].tuples)
  PROVE  /\ PeersFine(Forwarded(x, b, id), t)
         /\ \A y \in Conns : Forwarded(x, b, id)[y].tuples = conn[y].tuples
<1> DEFINE via == [backend |-> b, id |-> id, dcid |-> conn[x].dcid,
                   final |-> conn[x].phase = "server"]
           new == [conn[x] EXCEPT !.via = via, !.seen = now]
           cn == Forwarded(x, b, id)
<1>1. conn \in [Conns -> Conn] /\ conn[x] \in Conn /\ PeerFine(conn[x], t)
  BY Zenon DEF PeersFine
<1>2. via \in [backend : Backends \cup {Unused}, id : Nat, dcid : Dcids, final : BOOLEAN]
      /\ via.id = id /\ via.backend = b
  BY <1>1, Zenon DEF Conn
<1>3. cn = [conn EXCEPT ![x] = new]
  BY <1>1, Zenon DEF Forwarded
<1> HIDE DEF via, cn
<1>4. /\ new \in Conn /\ new.via = via /\ new.tuples = conn[x].tuples
      /\ new.life = conn[x].life /\ new.at = conn[x].at
  BY <1>1, <1>2, Zenon DEF Conn
<1> HIDE DEF new
<1>5. PeerFine(new, t)
  BY <1>1, <1>2, <1>4, Zenon DEF PeerFine
<1>6. cn \in [Conns -> Conn] /\ cn[x] = new /\ \A y \in Conns : y # x => cn[y] = conn[y]
  BY <1>1, <1>3, <1>4, Zenon
<1>7. PeersFine(cn, t)
  BY <1>5, <1>6, Zenon DEF PeersFine
<1> QED
  BY <1>4, <1>6, <1>7, Zenon DEF cn

-----------------------------------------------------------------------------
(* handle_client_packet *)

\* What the actions of the client's packets have in common.
LEMMA SenderFacts ==
  ASSUME Inv, NEW x \in Conns, NEW type, Sends(x, type)
  PROVE  /\ conn[x].at \in Clients /\ conn[x].at \in conn[x].tuples
         /\ conn[x].dcid \in Dcids /\ config \in Configs /\ now \in Nat
         /\ BackendsOf(config) \subseteq Backends
         /\ PeersFine(conn, table) /\ FlowsFine(table, config)
<1>1. conn[x] \in Conn /\ PeerFine(conn[x], table) /\ conn[x].life = "open"
  BY Zenon DEF Inv, PeersFine, Sends
<1>2. conn[x].tuples \subseteq Clients /\ conn[x].dcid \in Dcids
  BY <1>1, Zenon DEF Conn
<1> QED
  BY <1>1, <1>2, RoutesLead, Zenon DEF PeerFine, Inv

LEMMA FastStep ==
  ASSUME FlowLaws, Inv, NEW x \in Conns, NEW type, FastPath(x, type)
  PROVE  Inv'
<1> DEFINE p == SlotOf(table, conn[x].at)
           f == table.flows[p]
<1>1. /\ Sends(x, type) /\ p # NoSlot
      /\ table' = [table EXCEPT !.flows[p].last_seen = now]
      /\ conn' = Forwarded(x, f.backend, f.id)
      /\ UNCHANGED <<aliases, config, now, pace>>
  BY Zenon DEF FastPath, Fast
<1>2. /\ conn[x].at \in Clients /\ conn[x].at \in conn[x].tuples /\ now \in Nat
      /\ BackendsOf(config) \subseteq Backends
      /\ PeersFine(conn, table) /\ FlowsFine(table, config)
  BY <1>1, SenderFacts, Zenon
<1>3. p \in UsedSlots(table) /\ f.client = conn[x].at
  BY <1>1, Zenon DEF FlowLaws, SlotLaw
<1>4. f \in Flow
  <2>1. table.flows \in [Slots -> Flow \cup {Unused}]
    BY <1>2, Zenon DEF FlowsFine, Sound, Tables
  <2> QED
    BY <1>3, <2>1, Zenon DEF UsedSlots, Used
<1>5. f.id \in Nat /\ f.backend \in Backends
  BY <1>4, Zenon DEF Flow
<1>6. Known(table, f.id, conn[x].tuples)
  <2>1. /\ f.id < table.next_id
        /\ \A q \in UsedSlots(table) : table.flows[q].id = f.id => q = p
    BY <1>2, <1>3, Zenon DEF FlowsFine, Sound, Dated
  <2> QED
    BY <1>2, <1>3, <2>1, Zenon DEF Known
<1> HIDE DEF p
<1>7. /\ Follows(table, table') /\ FlowsFine(table', config)
      /\ table.next_id \in Nat /\ table'.next_id \in Nat
  BY <1>1, <1>2, <1>3, RefreshFollows, Zenon
<1>8. PeersFine(conn', table) /\ \A y \in Conns : conn'[y].tuples = conn[y].tuples
  BY <1>1, <1>2, <1>5, <1>6, ForwardedFine, Zenon
<1>9. PeersFine(conn', table')
  BY <1>7, <1>8, PeersLater, Zenon
<1>10. AliasesFine(aliases, table', config, conn')
  <2>1. \A y \in Conns : conn[y].tuples \subseteq conn'[y].tuples
    BY <1>8, Zenon
  <2>2. AliasesFine(aliases, table, config, conn)
    BY Zenon DEF Inv
  <2> QED
    BY <1>7, <2>1, <2>2, AliasesLater, Zenon
<1> QED
  BY <1>1, <1>7, <1>9, <1>10, Zenon DEF Inv

LEMMA KnownStep ==
  ASSUME FlowLaws, Inv, NEW x \in Conns, NEW type, NEW registered, KnownSession(x, type, registered)
  PROVE  Inv'
<1> DEFINE found == Lookup(x, type)
           c == conn[x].at
           b == found.a[found.key].backend
           touched == [found.a EXCEPT ![found.key].last_seen = now]
           p == SlotOf(table', c)
           id == table'.flows[p].id
<1>1. /\ Sends(x, type) /\ found.key # NoKey
      /\ table' = Acquired(table, c, b, registered, now)
      /\ aliases' = IF p = NoSlot \/ type = "short" THEN touched
                    ELSE Learn(touched, x, conn[x].dcid, b, p, id)
      /\ conn' = IF p = NoSlot THEN conn ELSE Forwarded(x, b, id)
      /\ UNCHANGED <<config, now, pace>>
  BY Zenon DEF KnownSession
<1>2. /\ c \in Clients /\ c \in conn[x].tuples /\ conn[x].dcid \in Dcids /\ now \in Nat
      /\ BackendsOf(config) \subseteq Backends
      /\ PeersFine(conn, table) /\ FlowsFine(table, config)
  BY <1>1, SenderFacts, Zenon
<1>3. /\ AliasesFine(found.a, table, config, conn)
      /\ found.key \in Keys /\ found.a[found.key] \in Alias
      /\ AliasFine(found.key, found.a[found.key], table, config, conn)
  BY <1>1, <1>2, LookupFine, Zenon
<1>4. b \in BackendsOf(config) /\ b \in Backends
  BY <1>2, <1>3, Zenon DEF AliasFine
<1> HIDE DEF found
<1>5. AliasesFine(touched, table, config, conn)
  BY <1>2, <1>3, TouchFine, Zenon
<1> HIDE DEF touched, b, c
<1>6. /\ Follows(table, table') /\ FlowsFine(table', config)
      /\ table.next_id \in Nat /\ table'.next_id \in Nat
      /\ p # NoSlot => p \in Slots /\ id \in Nat \ {0} /\ Known(table', id, conn[x].tuples)
  BY <1>1, <1>2, <1>4, AcquireFollows, Zenon
<1> HIDE DEF p, id
<1>7. AliasesFine(touched, table', config, conn) /\ PeersFine(conn, table')
  BY <1>2, <1>5, <1>6, AliasesLater, PeersLater, Zenon
<1>8. AliasesFine(aliases', table', config, conn)
  <2>1. CASE p = NoSlot \/ type = "short"
    BY <1>1, <1>7, <2>1, Zenon
  <2>2. CASE ~(p = NoSlot \/ type = "short")
    BY <1>1, <1>2, <1>4, <1>6, <1>7, <2>2, LearnFine, Zenon
  <2> QED
    BY <2>1, <2>2, Zenon
<1>9. PeersFine(conn', table') /\ \A y \in Conns : conn[y].tuples \subseteq conn'[y].tuples
  <2>1. CASE p = NoSlot
    BY <1>1, <1>7, <2>1, Zenon
  <2>2. CASE p # NoSlot
    <3>1. id \in Nat /\ Known(table', id, conn[x].tuples)
      BY <1>6, <2>2, Zenon
    <3>2. now \in Nat /\ b \in Backends /\ PeersFine(conn, table')
      BY <1>2, <1>4, <1>7, Zenon
    <3>3. /\ PeersFine(Forwarded(x, b, id), table')
          /\ \A y \in Conns : Forwarded(x, b, id)[y].tuples = conn[y].tuples
      BY ONLY <3>1, <3>2, x \in Conns, ForwardedFine, Zenon
    <3> QED
      BY <1>1, <2>2, <3>3, Zenon
  <2> QED
    BY <2>1, <2>2, Zenon
<1>10. AliasesFine(aliases', table', config, conn')
  <2>1. Follows(table', table')
    BY <1>6 DEF Follows
  <2> QED
    BY <1>6, <1>8, <1>9, <2>1, AliasesLater, Zenon
<1> QED
  BY <1>1, <1>6, <1>9, <1>10, Zenon DEF Inv

LEMMA FreshStep ==
  ASSUME FlowLaws, Inv, NEW x \in Conns, NEW type, NEW registered, FreshInitial(x, type, registered)
  PROVE  Inv'
<1> DEFINE found == Lookup(x, type)
           c == conn[x].at
           b == config.routes[NameOf[x]]
           p == SlotOf(table', c)
           id == table'.flows[p].id
           put == Put(found.a, TupleKey(c), b, p, id)
           sent == Forwarded(x, b, id)
<1>1. /\ Sends(x, type) /\ b # Unused
      /\ table' = Acquired(table, c, b, registered, now)
      /\ aliases' = IF p = NoSlot THEN found.a ELSE Learn(put, x, conn[x].dcid, b, p, id)
      /\ conn' = IF p = NoSlot THEN conn ELSE [sent EXCEPT ![x].home = b]
      /\ UNCHANGED <<config, now, pace>>
  BY Zenon DEF FreshInitial, Routable
<1>2. /\ c \in Clients /\ c \in conn[x].tuples /\ conn[x].dcid \in Dcids /\ now \in Nat
      /\ BackendsOf(config) \subseteq Backends
      /\ PeersFine(conn, table) /\ FlowsFine(table, config)
  BY <1>1, SenderFacts, Zenon
<1>3. AliasesFine(found.a, table, config, conn)
  BY <1>2, LookupFine, Zenon
<1>4. b \in BackendsOf(config) /\ b \in Backends
  BY <1>1, <1>2, RoutesLead, Zenon DEF Inv
<1> HIDE DEF found, b, c
<1>5. /\ Follows(table, table') /\ FlowsFine(table', config)
      /\ table.next_id \in Nat /\ table'.next_id \in Nat
      /\ p # NoSlot => p \in Slots /\ id \in Nat \ {0} /\ Known(table', id, conn[x].tuples)
  BY <1>1, <1>2, <1>4, AcquireFollows, Zenon
<1> HIDE DEF p, id
<1>6. AliasesFine(found.a, table', config, conn) /\ PeersFine(conn, table')
  BY <1>2, <1>3, <1>5, AliasesLater, PeersLater, Zenon
<1>7. CASE p = NoSlot
  BY <1>1, <1>5, <1>6, <1>7, Zenon DEF Inv
<1>8. CASE p # NoSlot
  <2>1. AliasesFine(put, table', config, conn)
    <3>1. TupleKey(c) \in Keys /\ TupleKey(c)[1] = "tuple"
      BY <1>2, KeyFacts, Zenon
    <3> QED
      BY <1>2, <1>4, <1>5, <1>6, <1>8, <3>1, PutFine, Zenon
  <2> HIDE DEF put
  <2>2. AliasesFine(aliases', table', config, conn)
    BY <1>1, <1>2, <1>4, <1>5, <1>8, <2>1, LearnFine, Zenon
  <2>3. PeersFine(sent, table') /\ \A y \in Conns : sent[y].tuples = conn[y].tuples
    <3>1. id \in Nat /\ Known(table', id, conn[x].tuples)
      BY <1>5, <1>8, Zenon
    <3>2. now \in Nat /\ b \in Backends /\ PeersFine(conn, table')
      BY <1>2, <1>4, <1>6, Zenon
    <3> QED
      BY ONLY <3>1, <3>2, x \in Conns, ForwardedFine, Zenon DEF sent
  <2> HIDE DEF sent
  <2> DEFINE new == [sent[x] EXCEPT !.home = b]
  <2>4. /\ new \in Conn /\ new.via = sent[x].via /\ new.tuples = sent[x].tuples
        /\ new.life = sent[x].life /\ new.at = sent[x].at
    BY <1>4, <2>3, Zenon DEF PeersFine, Conn
  <2>5. PeerFine(new, table')
    BY <2>3, <2>4, Zenon DEF PeersFine, PeerFine
  <2>6. conn' = [sent EXCEPT ![x] = new]
    BY <1>1, <1>8, Zenon
  <2> HIDE DEF new
  <2>7. /\ conn' \in [Conns -> Conn] /\ conn'[x] = new
        /\ \A y \in Conns : y # x => conn'[y] = sent[y]
    BY <2>3, <2>4, <2>6, Zenon DEF PeersFine
  <2>8. PeersFine(conn', table') /\ \A y \in Conns : conn[y].tuples \subseteq conn'[y].tuples
    BY <2>3, <2>4, <2>5, <2>7, Zenon DEF PeersFine
  <2>9. AliasesFine(aliases', table', config, conn')
    <3>1. Follows(table', table')
      BY <1>5 DEF Follows
    <3> QED
      BY <1>5, <2>2, <2>8, <3>1, AliasesLater, Zenon
  <2> QED
    BY <1>1, <1>5, <2>8, <2>9, Zenon DEF Inv
<1> QED
  BY <1>7, <1>8, Zenon

LEMMA DropStep ==
  ASSUME Inv, NEW x \in Conns, NEW type, DropPacket(x, type)
  PROVE  Inv'
<1>1. /\ Sends(x, type) /\ aliases' = Lookup(x, type).a
      /\ UNCHANGED <<table, config, conn, now, pace>>
  BY Zenon DEF DropPacket
<1>2. AliasesFine(aliases', table, config, conn)
  BY <1>1, SenderFacts, LookupFine, Zenon
<1> QED
  BY <1>1, <1>2, Zenon DEF Inv

-----------------------------------------------------------------------------
(* handle_backend_packet *)

LEMMA LongStep ==
  ASSUME FlowLaws, Inv, NEW x \in Conns, NEW p \in Slots, NEW phase \in {"retry", "server"},
         LongReply(x, p, phase)
  PROVE  Inv'
<1> DEFINE f == table.flows[p]
           b == conn[x].via.backend
           new == IF conn[x].phase = "server" THEN [conn[x] EXCEPT !.seen = now]
                  ELSE [conn[x] EXCEPT !.dcid = b, !.phase = phase, !.seen = now]
<1>1. /\ Used(table, p) /\ f.id = conn[x].via.id
      /\ table' = [table EXCEPT !.flows[p].last_seen = now]
      /\ aliases' = Put(aliases, CidKey(x, b), f.backend, p, f.id)
      /\ conn' = conn \/ conn' = [conn EXCEPT ![x] = new]
      /\ UNCHANGED <<config, now, pace>>
  BY Zenon DEF LongReply, ReplySlot
<1>2. /\ now \in Nat /\ config \in Configs /\ BackendsOf(config) \subseteq Backends
      /\ PeersFine(conn, table) /\ FlowsFine(table, config) /\ p \in UsedSlots(table)
      /\ AliasesFine(aliases, table, config, conn)
  BY <1>1, RoutesLead, Zenon DEF Inv, UsedSlots
<1>3. f.id # 0 /\ f.backend \in BackendsOf(config) /\ f.backend \in Backends
  BY <1>2, Zenon DEF FlowsFine
<1>4. f.id \in Nat /\ conn[x] \in Conn /\ PeerFine(conn[x], table)
  <2>1. conn[x] \in Conn /\ PeerFine(conn[x], table)
    BY <1>2, Zenon DEF PeersFine
  <2> QED
    BY <1>1, <2>1, Zenon DEF Conn
<1>5. b \in Backends /\ Known(table, f.id, conn[x].tuples)
  BY <1>1, <1>3, <1>4, Zenon DEF PeerFine
<1>6. b \in Dcids /\ CidKey(x, b) \in Keys /\ CidKey(x, b)[2] = x
  <2>1. b \in Dcids
    BY <1>5, Zenon DEF Dcids
  <2> QED
    BY <2>1, KeyFacts, Zenon
<1> HIDE DEF f, b
<1>7. AliasesFine(aliases', table, config, conn)
  BY <1>1, <1>2, <1>3, <1>4, <1>5, <1>6, PutFine, Zenon
<1>8. /\ Follows(table, table') /\ FlowsFine(table', config)
      /\ table.next_id \in Nat /\ table'.next_id \in Nat
  BY <1>1, <1>2, RefreshFollows, Zenon
<1>9. /\ new \in Conn /\ new.via = conn[x].via /\ new.tuples = conn[x].tuples
      /\ new.life = conn[x].life /\ new.at = conn[x].at
  BY <1>2, <1>4, <1>6, Zenon DEF Conn
<1> HIDE DEF new
<1>10. PeersFine(conn', table) /\ \A y \in Conns : conn[y].tuples \subseteq conn'[y].tuples
  <2>1. CASE conn' = conn
    BY <1>2, <2>1, Zenon
  <2>2. CASE conn' = [conn EXCEPT ![x] = new]
    <3>1. PeerFine(new, table)
      BY <1>4, <1>9, Zenon DEF PeerFine
    <3>2. /\ conn' \in [Conns -> Conn] /\ conn'[x] = new
          /\ \A y \in Conns : y # x => conn'[y] = conn[y]
      BY <1>2, <1>9, <2>2, Zenon DEF PeersFine
    <3> QED
      BY <1>2, <1>9, <3>1, <3>2, Zenon DEF PeersFine
  <2> QED
    BY <1>1, <2>1, <2>2, Zenon
<1>11. PeersFine(conn', table') /\ AliasesFine(aliases', table', config, conn')
  BY <1>7, <1>8, <1>10, PeersLater, AliasesLater, Zenon
<1> QED
  BY <1>1, <1>8, <1>11, Zenon DEF Inv

LEMMA ShortStep ==
  ASSUME FlowLaws, Inv, NEW x \in Conns, NEW p \in Slots, ShortReply(x, p)
  PROVE  Inv'
<1> DEFINE new == [conn[x] EXCEPT !.seen = now]
<1>1. /\ Used(table, p) /\ table' = [table EXCEPT !.flows[p].last_seen = now]
      /\ conn' = [conn EXCEPT ![x] = new]
      /\ UNCHANGED <<aliases, config, now, pace>>
  BY Zenon DEF ShortReply, ReplySlot
<1>2. /\ now \in Nat /\ PeersFine(conn, table) /\ FlowsFine(table, config)
      /\ p \in UsedSlots(table) /\ AliasesFine(aliases, table, config, conn)
  BY <1>1, Zenon DEF Inv, UsedSlots
<1>3. conn[x] \in Conn /\ PeerFine(conn[x], table)
  BY <1>2, Zenon DEF PeersFine
<1>4. /\ new \in Conn /\ new.via = conn[x].via /\ new.tuples = conn[x].tuples
      /\ new.life = conn[x].life /\ new.at = conn[x].at
  BY <1>2, <1>3, Zenon DEF Conn
<1> HIDE DEF new
<1>5. /\ Follows(table, table') /\ FlowsFine(table', config)
      /\ table.next_id \in Nat /\ table'.next_id \in Nat
  BY <1>1, <1>2, RefreshFollows, Zenon
<1>6. PeerFine(new, table)
  BY <1>3, <1>4, Zenon DEF PeerFine
<1>7. /\ conn' \in [Conns -> Conn] /\ conn'[x] = new
      /\ \A y \in Conns : y # x => conn'[y] = conn[y]
  BY <1>1, <1>2, <1>4, Zenon DEF PeersFine
<1>8. PeersFine(conn', table) /\ \A y \in Conns : conn[y].tuples \subseteq conn'[y].tuples
  BY <1>2, <1>4, <1>6, <1>7, Zenon DEF PeersFine
<1>9. PeersFine(conn', table') /\ AliasesFine(aliases, table', config, conn')
  BY <1>2, <1>5, <1>8, PeersLater, AliasesLater, Zenon
<1> QED
  BY <1>1, <1>5, <1>9, Zenon DEF Inv

-----------------------------------------------------------------------------
(* The sweeps, the reload and the world *)

LEMMA SweepStep ==
  ASSUME FlowLaws, Inv, Sweep
  PROVE  Inv'
<1>1. table' = ExpireAll(table, now) /\ UNCHANGED <<config, conn, now, pace>>
  BY Zenon DEF Sweep
<1>2. /\ now \in Nat /\ PeersFine(conn, table) /\ FlowsFine(table, config)
      /\ AliasesFine(aliases, table, config, conn)
  BY Zenon DEF Inv
<1>3. /\ Follows(table, table') /\ FlowsFine(table', config)
      /\ table.next_id \in Nat /\ table'.next_id \in Nat
  <2>1. Sound(table', {}) /\ Kept(table, table')
    BY <1>1, <1>2, Zenon DEF FlowLaws, ExpireLaw, FlowsFine
  <2> QED
    BY <1>2, <2>1, KeptFollows, Zenon
<1>4. AliasesFine(aliases', table, config, conn)
  <2>1. CASE UNCHANGED aliases
    BY <1>2, <2>1, Zenon
  <2>2. CASE \E k \in Keys :
          /\ IdleAlias(k)
          /\ aliases' = [aliases EXCEPT ![k] =
               IF Keepalive(k) THEN [aliases[k] EXCEPT !.last_seen = now] ELSE Unused]
    <3>1. PICK k \in Keys :
          /\ IdleAlias(k)
          /\ aliases' = [aliases EXCEPT ![k] =
               IF Keepalive(k) THEN [aliases[k] EXCEPT !.last_seen = now] ELSE Unused]
      BY <2>2, Zenon
    <3>2. /\ aliases \in AliasMaps /\ aliases[k] \in Alias
          /\ AliasFine(k, aliases[k], table, config, conn)
      BY <1>2, <3>1, Zenon DEF IdleAlias, AliasesFine, AliasMaps
    <3>3. CASE Keepalive(k)
      <4>1. aliases' = [aliases EXCEPT ![k].last_seen = now]
        BY <3>1, <3>3, Zenon
      <4> QED
        BY <1>2, <3>2, <4>1, TouchFine, Zenon
    <3>4. CASE ~Keepalive(k)
      <4>1. aliases' = [aliases EXCEPT ![k] = Unused]
        BY <3>1, <3>4, Zenon
      <4>2. /\ aliases' \in AliasMaps /\ aliases'[k] = Unused
            /\ \A j \in Keys : j # k => aliases'[j] = aliases[j]
        BY <3>2, <4>1, Zenon DEF AliasMaps
      <4> QED
        BY <1>2, <4>2, Zenon DEF AliasesFine
    <3> QED
      BY <3>3, <3>4, Zenon
  <2> QED
    BY <2>1, <2>2, Zenon DEF Sweep
<1>5. PeersFine(conn, table') /\ AliasesFine(aliases', table', config, conn)
  BY <1>2, <1>3, <1>4, PeersLater, AliasesLater, Zenon
<1> QED
  BY <1>1, <1>3, <1>5, Zenon DEF Inv

\* What is left leads to backends that the old and the new configuration have.
LEMMA ReloadStep ==
  ASSUME FlowLaws, Inv, NEW cfg \in Configs, Reload(cfg)
  PROVE  Inv'
<1> DEFINE doomed == BackendsOf(config) \ BackendsOf(cfg)
<1>1. /\ config' = cfg /\ table' = EvictBackends(table, doomed)
      /\ aliases' = [k \in Keys |-> IF aliases[k] # Unused /\ aliases[k].backend \in doomed
                                    THEN Unused ELSE aliases[k]]
      /\ UNCHANGED <<conn, now, pace>>
  BY Zenon DEF Reload
<1>2. /\ now \in Nat /\ PeersFine(conn, table) /\ FlowsFine(table, config)
      /\ AliasesFine(aliases, table, config, conn)
  BY Zenon DEF Inv
<1>3. \A b \in BackendsOf(config) : b \notin doomed => b \in BackendsOf(cfg)
  BY Zenon
<1> HIDE DEF doomed
<1>4. /\ Sound(table', {}) /\ Kept(table, table')
      /\ \A p \in UsedSlots(table') : table'.flows[p].backend \notin doomed
  BY <1>1, <1>2, Zenon DEF FlowLaws, EvictLaw, FlowsFine
<1>5. /\ Follows(table, table') /\ FlowsFine(table', config)
      /\ table.next_id \in Nat /\ table'.next_id \in Nat
  BY <1>2, <1>4, KeptFollows, Zenon
<1>6. FlowsFine(table', cfg)
  BY <1>3, <1>4, <1>5, Zenon DEF FlowsFine
<1>7. AliasesFine(aliases, table', config, conn) /\ PeersFine(conn, table')
  BY <1>2, <1>5, PeersLater, AliasesLater, Zenon
<1>8. AliasesFine(aliases', table', cfg, conn)
  <2>1. aliases' \in AliasMaps
    BY <1>1, <1>2, Zenon DEF AliasesFine, AliasMaps
  <2>2. ASSUME NEW k \in Keys, aliases'[k] # Unused
        PROVE  AliasFine(k, aliases'[k], table', cfg, conn)
    <3>1. aliases'[k] = aliases[k] /\ aliases[k] # Unused /\ aliases[k].backend \notin doomed
      BY <1>1, <2>2, Zenon
    <3>2. AliasFine(k, aliases[k], table', config, conn)
      BY <1>7, <3>1, Zenon DEF AliasesFine
    <3> QED
      BY <1>3, <3>1, <3>2, Zenon DEF AliasFine
  <2> QED
    BY <2>1, <2>2, Zenon DEF AliasesFine
<1> QED
  BY <1>1, <1>6, <1>7, <1>8, Zenon DEF Inv

\* A connection that changes, and keeps its path and its tuples.
LEMMA PeerChanges ==
  ASSUME Inv, UNCHANGED <<table, aliases, config, now, pace>>, NEW x \in Conns, NEW new \in Conn,
         conn' = [conn EXCEPT ![x] = new], new.via = conn[x].via,
         conn[x].tuples \subseteq new.tuples, new.life # "new",
         new.life = "open" => new.at \in new.tuples
  PROVE  Inv'
<1>1. /\ PeersFine(conn, table) /\ FlowsFine(table, config)
      /\ AliasesFine(aliases, table, config, conn)
  BY Zenon DEF Inv
<1>2. /\ conn' \in [Conns -> Conn] /\ conn'[x] = new
      /\ \A y \in Conns : y # x => conn'[y] = conn[y]
  BY <1>1, Zenon DEF PeersFine
<1>3. table.next_id \in Nat /\ Follows(table, table)
  <2>1. table.next_id \in Nat
    BY <1>1, Zenon DEF FlowsFine, Sound, Tables
  <2> QED
    BY <2>1 DEF Follows
<1>4. PeerFine(conn[x], table) /\ conn[x].via.id \in Nat
  BY <1>1, Zenon DEF PeersFine, Conn
<1>5. Known(table, new.via.id, new.tuples)
  BY <1>3, <1>4, KnownLater, Zenon DEF PeerFine
<1>6. PeersFine(conn', table)
  BY <1>1, <1>2, <1>4, <1>5, Zenon DEF PeersFine, PeerFine
<1>7. \A y \in Conns : conn[y].tuples \subseteq conn'[y].tuples
  BY <1>2, Zenon
<1>8. AliasesFine(aliases, table, config, conn')
  BY <1>1, <1>3, <1>7, AliasesLater, Zenon
<1> QED
  BY <1>6, <1>8, Zenon DEF Inv

LEMMA ConnectStep ==
  ASSUME Inv, NEW x \in Conns, NEW c \in Clients, Connect(x, c)
  PROVE  Inv'
<1> DEFINE new == [conn[x] EXCEPT !.life = "open", !.at = c, !.tuples = {c}, !.seen = now]
<1>1. conn[x] \in Conn /\ now \in Nat /\ conn[x].tuples = {}
  BY Zenon DEF Inv, PeersFine, PeerFine, Connect
<1>2. /\ new \in Conn /\ new.via = conn[x].via /\ new.tuples = {c} /\ new.at = c
      /\ new.life # "new"
  BY <1>1, Zenon DEF Conn
<1>3. conn' = [conn EXCEPT ![x] = new] /\ UNCHANGED <<table, aliases, config, now, pace>>
  BY Zenon DEF Connect
<1> HIDE DEF new
<1> QED
  BY <1>1, <1>2, <1>3, PeerChanges, Zenon

LEMMA CloseStep ==
  ASSUME Inv, NEW x \in Conns, Close(x)
  PROVE  Inv'
<1> DEFINE new == [conn[x] EXCEPT !.life = "closed"]
<1>1. conn[x] \in Conn
  BY Zenon DEF Inv, PeersFine
<1>2. /\ new \in Conn /\ new.via = conn[x].via /\ new.tuples = conn[x].tuples
      /\ new.life # "open" /\ new.life # "new"
  BY <1>1, Zenon DEF Conn
<1>3. conn' = [conn EXCEPT ![x] = new] /\ UNCHANGED <<table, aliases, config, now, pace>>
  BY Zenon DEF Close
<1> HIDE DEF new
<1> QED
  BY <1>2, <1>3, PeerChanges, Zenon

LEMMA RebindStep ==
  ASSUME Inv, NEW x \in Conns, NEW c \in Clients, Rebind(x, c)
  PROVE  Inv'
<1> DEFINE new == [conn[x] EXCEPT !.at = c, !.tuples = conn[x].tuples \cup {c}]
<1>1. conn[x] \in Conn /\ conn[x].life = "open"
  BY Zenon DEF Inv, PeersFine, Rebind
<1>2. /\ new \in Conn /\ new.via = conn[x].via /\ new.tuples = conn[x].tuples \cup {c}
      /\ new.at = c /\ new.life # "new"
  BY <1>1, Zenon DEF Conn
<1>3. conn' = [conn EXCEPT ![x] = new] /\ UNCHANGED <<table, aliases, config, now, pace>>
  BY Zenon DEF Rebind
<1> HIDE DEF new
<1> QED
  BY <1>2, <1>3, PeerChanges, Zenon

LEMMA TickStep ==
  ASSUME Inv, Tick
  PROVE  Inv'
<1> DEFINE lapse(x) == conn[x].lapsed \/ now' - conn[x].seen >= IdleTimeout
<1>1. /\ now' = now + pace.step /\ UNCHANGED <<table, aliases, config, pace>>
      /\ conn' = [x \in Conns |-> [conn[x] EXCEPT !.lapsed = lapse(x)]]
  BY Zenon DEF Tick
<1>2. now' \in Nat
  BY <1>1, PacesAssumption DEF Inv
<1>3. conn \in [Conns -> Conn] /\ \A x \in Conns : PeerFine(conn[x], table)
  BY Zenon DEF Inv, PeersFine
<1>4. \A x \in Conns : lapse(x) \in BOOLEAN
  BY <1>3, Zenon DEF Conn
<1> HIDE DEF lapse
<1>5. ASSUME NEW x \in Conns
      PROVE  /\ conn'[x] \in Conn /\ conn'[x].tuples = conn[x].tuples
             /\ PeerFine(conn'[x], table)
  <2>1. conn'[x] = [conn[x] EXCEPT !.lapsed = lapse(x)] /\ conn[x] \in Conn
    BY <1>1, <1>3, Zenon
  <2>2. /\ conn'[x] \in Conn /\ conn'[x].tuples = conn[x].tuples
        /\ conn'[x].via = conn[x].via /\ conn'[x].at = conn[x].at
        /\ conn'[x].life = conn[x].life
    BY <1>4, <2>1, Zenon DEF Conn
  <2> QED
    BY <1>3, <2>2, Zenon DEF PeerFine
<1>6. PeersFine(conn', table)
  <2>1. conn' \in [Conns -> Conn]
    BY <1>1, <1>5, Zenon
  <2> QED
    BY <1>5, <2>1, Zenon DEF PeersFine
<1>7. AliasesFine(aliases, table, config, conn')
  <2>1. \A x \in Conns : conn[x].tuples \subseteq conn'[x].tuples
    BY <1>5, Zenon
  <2>2. table.next_id \in Nat
    BY Zenon DEF Inv, FlowsFine, Sound, Tables
  <2>3. Follows(table, table)
    BY <2>2 DEF Follows
  <2>4. AliasesFine(aliases, table, config, conn)
    BY Zenon DEF Inv
  <2> QED
    BY <2>1, <2>2, <2>3, <2>4, AliasesLater, Zenon
<1> QED
  BY <1>1, <1>2, <1>6, <1>7, Zenon DEF Inv

LEMMA InvInit ==
  ASSUME FlowLaws, Init
  PROVE  Inv
<1>1. /\ config \in Configs /\ now = 0 /\ pace \in Paces /\ table = Empty
      /\ aliases = [k \in Keys |-> Unused] /\ conn = [x \in Conns |-> New]
  BY Zenon DEF Init
<1>2. FlowsFine(table, config)
  <2>1. UsedSlots(Empty) = {} /\ Empty.next_id = 1
    BY Zenon DEF Empty, UsedSlots, Used
  <2> QED
    BY <1>1, <2>1 DEF FlowLaws, EmptyLaw, FlowsFine
<1>3. AliasesFine(aliases, table, config, conn)
  BY <1>1, Zenon DEF AliasesFine, AliasMaps
<1>4. New \in Conn
  BY Zenon DEF New, Conn, NoPath, Dcids
<1>5. PeerFine(New, table)
  BY Zenon DEF New, NoPath, PeerFine, Known
<1>6. PeersFine(conn, table)
  BY <1>1, <1>4, <1>5, Zenon DEF PeersFine
<1> QED
  BY <1>1, <1>2, <1>3, <1>6, Zenon DEF Inv

LEMMA InvStep ==
  ASSUME FlowLaws, Inv, [Next]_vars
  PROVE  Inv'
<1>1. ASSUME NEW x \in Conns, NEW c \in Clients, Connect(x, c) \/ Rebind(x, c) PROVE Inv'
  BY <1>1, ConnectStep, RebindStep, Zenon
<1>2. ASSUME NEW x \in Conns, Close(x) PROVE Inv'
  BY <1>2, CloseStep, Zenon
<1>3. ASSUME NEW x \in Conns, NEW type \in Types, ClientPacket(x, type) PROVE Inv'
  BY <1>3, FastStep, DropStep, KnownStep, FreshStep, Zenon DEF ClientPacket
<1>4. ASSUME NEW x \in Conns, NEW p \in Slots, BackendPacket(x, p) PROVE Inv'
  BY <1>4, LongStep, ShortStep, Zenon DEF BackendPacket
<1>5. ASSUME NEW cfg \in Configs, Reload(cfg) PROVE Inv'
  BY <1>5, ReloadStep, Zenon
<1>6. CASE Sweep \/ Tick
  BY <1>6, SweepStep, TickStep, Zenon
<1>7. CASE UNCHANGED vars
  BY <1>7, Zenon DEF vars, Inv
<1> QED
  BY <1>1, <1>2, <1>3, <1>4, <1>5, <1>6, <1>7, Zenon DEF Next

-----------------------------------------------------------------------------
(* What the parts of a step change *)

\* The flows of client c in u were in t, with the backends they have.
FlowsKeep(t, u, c) ==
  \A q \in UsedSlots(u) : u.flows[q].client = c =>
    q \in UsedSlots(t) /\ t.flows[q].client = c /\ t.flows[q].backend = u.flows[q].backend

LEMMA KeysDiffer ==
  /\ \A c, e \in Clients : c # e => TupleKey(c) # TupleKey(e)
  /\ \A c \in Clients, x \in Conns, d \in Dcids :
       TupleKey(c) # CidKey(x, d) /\ TupleKey(c) # PairKey(x, d)
  /\ \A x, y \in Conns, d, e \in Dcids :
       /\ CidKey(x, d) # PairKey(y, e)
       /\ x # y \/ d # e => CidKey(x, d) # CidKey(y, e) /\ PairKey(x, d) # PairKey(y, e)
<1>1. \A c, e : c # e => TupleKey(c) # TupleKey(e)
  BY Zenon DEF TupleKey
<1>2. \A c, x, d : TupleKey(c) # CidKey(x, d) /\ TupleKey(c) # PairKey(x, d)
  <2>1. \A c, x, d : /\ TupleKey(c)[1] = "tuple" /\ CidKey(x, d)[1] = "cid"
                     /\ PairKey(x, d)[1] = "pair"
    BY Zenon DEF TupleKey, CidKey, PairKey
  <2> QED
    BY <2>1, Zenon
<1>3. \A x, y, d, e : CidKey(x, d) # PairKey(y, e)
  BY Zenon DEF CidKey, PairKey
<1>4. \A x, y, d, e : x # y \/ d # e =>
        CidKey(x, d) # CidKey(y, e) /\ PairKey(x, d) # PairKey(y, e)
  BY Zenon DEF CidKey, PairKey
<1> QED
  BY <1>1, <1>2, <1>3, <1>4, Zenon

LEMMA PutChanges ==
  ASSUME NEW a \in AliasMaps, NEW k \in Keys, NEW b, NEW slot, NEW id
  PROVE  /\ Put(a, k, b, slot, id)[k].backend = b
         /\ id # 0 => Put(a, k, b, slot, id)[k].slot = slot /\ Put(a, k, b, slot, id)[k].id = id
         /\ \A j \in Keys : j # k => Put(a, k, b, slot, id)[j] = a[j]
BY Zenon DEF Put, AliasMaps

LEMMA LookupLeads ==
  ASSUME Inv, NEW x \in Conns, NEW type, NEW found, found = Lookup(x, type),
         NEW c \in Clients, c = conn[x].at, NEW dcid, dcid = conn[x].dcid
  PROVE  /\ \A k \in Keys : k # TupleKey(c) => found.a[k] = aliases[k]
         /\ found.key = NoKey \/ type = "initial" =>
              found.a[TupleKey(c)] = aliases[TupleKey(c)] \/ Decodes(dcid)
         /\ found.key # NoKey /\ type = "initial" =>
              found.key \in {PairKey(x, dcid), CidKey(x, dcid)} /\ aliases[found.key] # Unused
         /\ found.key # NoKey /\ type # "initial" =>
              /\ found.key = TupleKey(c)
              /\ \/ Decodes(dcid) /\ found.a[TupleKey(c)].backend = dcid
                 \/ ~Decodes(dcid) /\ aliases[TupleKey(c)] # Unused /\ found.a = aliases
                 \/ /\ ~Decodes(dcid) /\ aliases[CidKey(x, dcid)] # Unused
                    /\ found.a[TupleKey(c)].backend = aliases[CidKey(x, dcid)].backend
<1> DEFINE decoded == IF Decodes(dcid) THEN Bind(aliases, c, dcid) ELSE aliases
           pair == PairKey(x, dcid)
           cid == CidKey(x, dcid)
           tuple == TupleKey(c)
           bound == Bind(decoded, c, decoded[cid].backend)
           Trusted == Configured(decoded[cid].backend)
<1>1. /\ aliases \in AliasMaps /\ AliasesFine(aliases, table, config, conn)
      /\ dcid \in Dcids /\ now \in Nat /\ BackendsOf(config) \subseteq Backends
  BY RoutesLead, Zenon DEF Inv, AliasesFine, PeersFine, Conn
<1>2. /\ pair \in Keys /\ cid \in Keys /\ tuple \in Keys
      /\ pair # tuple /\ cid # tuple
  BY <1>1, KeyFacts, KeysDiffer, ZenonT(30)
<1>3. /\ decoded \in AliasMaps /\ \A k \in Keys : k # tuple => decoded[k] = aliases[k]
      /\ ~Decodes(dcid) => decoded = aliases
      /\ Decodes(dcid) => decoded[tuple] # Unused /\ decoded[tuple].backend = dcid
  <2>1. CASE Decodes(dcid)
    <3>1. decoded = Bind(aliases, c, dcid) /\ dcid \in BackendsOf(config)
      BY <2>1, Zenon DEF Decodes, Configured
    <3>2. /\ AliasesFine(decoded, table, config, conn)
          /\ decoded[tuple] \in Alias /\ decoded[tuple].backend = dcid
      <4>1. tuple = TupleKey(c) /\ dcid \in Backends
        BY <1>1, <3>1, Zenon
      <4> HIDE DEF decoded, tuple
      <4> QED
        BY ONLY c \in Clients, <1>1, <3>1, <4>1, BindFine, SMTT(30), Zenon
    <3>3. \A k \in Keys : k # tuple => decoded[k] = aliases[k]
      <4>1. decoded = Put(aliases, tuple, dcid, 0, 0)
        BY <3>1, Zenon DEF Bind
      <4> HIDE DEF decoded, tuple
      <4> QED
        BY ONLY <1>1, <1>2, <4>1, PutChanges, SMTT(30), Zenon
    <3> QED
      BY <2>1, <3>2, <3>3, AliasAssumption, Zenon DEF AliasesFine
  <2>2. CASE ~Decodes(dcid)
    BY <1>1, <2>2, Zenon
  <2> QED
    BY <2>1, <2>2, Zenon
<1>4. found = IF type = "initial"
              THEN [a |-> decoded,
                    key |-> IF decoded[pair] # Unused THEN pair
                            ELSE IF decoded[cid] # Unused /\ Trusted THEN cid ELSE NoKey]
              ELSE IF decoded[tuple] # Unused
              THEN [a |-> decoded, key |-> tuple]
              ELSE IF decoded[cid] # Unused /\ (type = "short" \/ Trusted)
              THEN [a |-> bound, key |-> tuple]
              ELSE [a |-> decoded, key |-> NoKey]
  BY Zenon DEF Lookup
<1>5. bound[tuple].backend = decoded[cid].backend
      /\ \A k \in Keys : k # tuple => bound[k] = decoded[k]
  <2> DEFINE b == decoded[cid].backend
  <2>1. bound = Put(decoded, tuple, b, 0, 0) /\ decoded \in AliasMaps /\ tuple \in Keys
    BY <1>2, <1>3, Zenon DEF Bind
  <2> HIDE DEF b, bound, decoded, tuple
  <2>2. bound[tuple].backend = b /\ \A k \in Keys : k # tuple => bound[k] = decoded[k]
    BY ONLY <2>1, PutChanges, SMTT(30), Zenon
  <2> QED
    BY <2>2, Zenon DEF b
<1>6. tuple # NoKey /\ cid # NoKey /\ pair # NoKey
  BY <1>2, KeyFacts, Zenon
<1> HIDE DEF decoded, pair, cid, tuple, Trusted, bound
<1>7. CASE type = "initial"
  <2>1. /\ found.a = decoded /\ found.key \in {pair, cid, NoKey}
        /\ found.key # NoKey => decoded[found.key] # Unused
    BY <1>4, <1>7
  <2> QED
    BY <1>2, <1>3, <1>7, <2>1, Zenon DEF pair, cid, tuple
<1>8. CASE type # "initial" /\ decoded[tuple] # Unused
  <2>1. found.a = decoded /\ found.key = tuple
    BY <1>4, <1>8
  <2> QED
    BY <1>2, <1>3, <1>6, <1>8, <2>1, Zenon DEF pair, cid, tuple
<1>9. CASE /\ type # "initial" /\ decoded[tuple] = Unused
           /\ decoded[cid] # Unused /\ (type = "short" \/ Trusted)
  <2>1. found.a = bound /\ found.key = tuple
    BY <1>4, <1>9
  <2>2. ~Decodes(dcid) /\ aliases[cid] # Unused /\ bound[tuple].backend = aliases[cid].backend
    BY <1>2, <1>3, <1>5, <1>9
  <2>3. \A k \in Keys : k # tuple => found.a[k] = aliases[k]
    BY <1>3, <1>5, <2>1, Zenon
  <2> QED
    BY <1>6, <1>9, <2>1, <2>2, <2>3, Zenon DEF pair, cid, tuple
<1>10. CASE /\ type # "initial" /\ decoded[tuple] = Unused
            /\ ~(decoded[cid] # Unused /\ (type = "short" \/ Trusted))
  <2>1. found.a = decoded /\ found.key = NoKey
    BY <1>4, <1>10
  <2> QED
    BY <1>2, <1>3, <1>10, <2>1, Zenon DEF pair, cid, tuple
<1> QED
  BY <1>7, <1>8, <1>9, <1>10, Zenon

LEMMA LearnChanges ==
  ASSUME NEW a \in AliasMaps, NEW x \in Conns, NEW dcid \in Dcids, NEW b \in Backends,
         NEW slot \in Slots, NEW id \in Nat, now \in Nat
  PROVE  LET e == Learn(a, x, dcid, b, slot, id)
             cid == CidKey(x, dcid)
             pair == PairKey(x, dcid)
         IN /\ e[cid].backend = b /\ e[pair].backend = b
            /\ id # 0 => e[cid].slot = slot /\ e[cid].id = id
            /\ \A k \in Keys : k \notin {cid, pair} => e[k] = a[k]
<1> DEFINE cid == CidKey(x, dcid)
           pair == PairKey(x, dcid)
           m == Put(a, cid, b, slot, id)
           e == Put(m, pair, b, slot, id)
<1>1. cid \in Keys /\ pair \in Keys /\ cid # pair
  BY KeyFacts, KeysDiffer, Zenon
<1>2. m \in AliasMaps
  BY <1>1, Zenon DEF Put, AliasMaps, Alias
<1>3. /\ m[cid].backend = b /\ \A k \in Keys : k # cid => m[k] = a[k]
      /\ id # 0 => m[cid].slot = slot /\ m[cid].id = id
  BY <1>1, PutChanges
<1> HIDE DEF m, cid, pair
<1>4. e[pair].backend = b /\ \A k \in Keys : k # pair => e[k] = m[k]
  BY <1>1, <1>2, PutChanges
<1>5. e = Learn(a, x, dcid, b, slot, id)
  BY Zenon DEF Learn, m, cid, pair
<1> HIDE DEF e
<1> QED
  BY <1>1, <1>3, <1>4, <1>5, Zenon DEF cid, pair

LEMMA RefreshKeeps ==
  ASSUME NEW t, NEW cfg, FlowsFine(t, cfg), NEW p \in UsedSlots(t), NEW time \in Nat,
         NEW u, u = [t EXCEPT !.flows[p].last_seen = time]
  PROVE  /\ \A c : FlowsKeep(t, u, c)
         /\ UsedSlots(u) = UsedSlots(t) /\ u.flows[p].last_seen = time
         /\ \A q \in UsedSlots(t) :
              /\ u.flows[q].client = t.flows[q].client /\ u.flows[q].id = t.flows[q].id
              /\ q # p => u.flows[q] = t.flows[q]
<1> DEFINE f == [t.flows[p] EXCEPT !.last_seen = time]
<1>1. t \in Tables /\ t.flows \in [Slots -> Flow \cup {Unused}] /\ p \in Slots
  BY Zenon DEF FlowsFine, Sound, Tables, UsedSlots
<1>2. t.flows[p] \in Flow
  BY <1>1, Zenon DEF UsedSlots, Used
<1>3. /\ f \in Flow /\ f.client = t.flows[p].client /\ f.backend = t.flows[p].backend
      /\ f.id = t.flows[p].id /\ f.last_seen = time
  BY <1>2, Zenon DEF Flow
<1>4. u.flows = [t.flows EXCEPT ![p] = f]
  BY <1>1, <1>2, Zenon DEF Tables
<1> HIDE DEF f
<1>5. \A q \in Slots : u.flows[q] = IF q = p THEN f ELSE t.flows[q]
  BY <1>1, <1>4, Zenon
<1>6. UsedSlots(u) = UsedSlots(t)
  BY <1>2, <1>3, <1>5, UnusedAssumption, Zenon DEF UsedSlots, Used
<1> QED
  BY <1>1, <1>3, <1>5, <1>6, Zenon DEF FlowsKeep, UsedSlots

Touched(a, k, time) == [a EXCEPT ![k].last_seen = time]

LEMMA TouchChanges ==
  ASSUME NEW a \in AliasMaps, NEW k \in Keys, a[k] \in Alias, NEW time \in Nat
  PROVE  /\ Touched(a, k, time) \in AliasMaps /\ Touched(a, k, time)[k] \in Alias
         /\ Touched(a, k, time)[k].backend = a[k].backend
         /\ Touched(a, k, time)[k].slot = a[k].slot
         /\ Touched(a, k, time)[k].id = a[k].id
         /\ \A j \in Keys : j # k => Touched(a, k, time)[j] = a[j]
<1> DEFINE s == [a[k] EXCEPT !.last_seen = time]
           e == Touched(a, k, time)
<1>1. s \in Alias /\ s.backend = a[k].backend /\ s.slot = a[k].slot /\ s.id = a[k].id
  BY Zenon DEF Alias
<1>2. e = [a EXCEPT ![k] = s]
  BY Zenon DEF Touched
<1> HIDE DEF s, e
<1>3. e \in AliasMaps /\ e[k] = s /\ \A j \in Keys : j # k => e[j] = a[j]
  BY <1>1, <1>2, Zenon DEF AliasMaps
<1>4. /\ e \in AliasMaps /\ e[k] \in Alias
      /\ e[k].backend = a[k].backend /\ e[k].slot = a[k].slot /\ e[k].id = a[k].id
      /\ \A j \in Keys : j # k => e[j] = a[j]
  BY <1>1, <1>3, Zenon
<1> QED
  BY <1>4, Zenon DEF e

LEMMA ForwardedPath ==
  ASSUME conn \in [Conns -> Conn], now \in Nat, NEW x \in Conns, NEW b \in Backends,
         NEW id \in Nat
  PROVE  \E new \in Conn :
           /\ Forwarded(x, b, id) = [conn EXCEPT ![x] = new]
           /\ new.life = conn[x].life /\ new.at = conn[x].at /\ new.dcid = conn[x].dcid
           /\ new.phase = conn[x].phase /\ new.home = conn[x].home
           /\ new.tuples = conn[x].tuples /\ new.lapsed = conn[x].lapsed /\ new.seen = now
           /\ new.via.backend = b /\ new.via.id = id /\ new.via.dcid = conn[x].dcid
           /\ new.via.final <=> conn[x].phase = "server"
<1> DEFINE via == [backend |-> b, id |-> id, dcid |-> conn[x].dcid,
                   final |-> conn[x].phase = "server"]
           new == [conn[x] EXCEPT !.via = via, !.seen = now]
<1>1. conn[x] \in Conn
  BY Zenon
<1>2. /\ via \in [backend : Backends \cup {Unused}, id : Nat, dcid : Dcids, final : BOOLEAN]
      /\ via.id = id /\ via.backend = b /\ via.dcid = conn[x].dcid
      /\ via.final <=> conn[x].phase = "server"
  BY <1>1, Zenon DEF Conn
<1>3. Forwarded(x, b, id) = [conn EXCEPT ![x] = new]
  BY Zenon DEF Forwarded
<1> HIDE DEF via
<1>4. /\ new \in Conn /\ new.via = via /\ new.tuples = conn[x].tuples
      /\ new.life = conn[x].life /\ new.at = conn[x].at /\ new.dcid = conn[x].dcid
      /\ new.phase = conn[x].phase /\ new.home = conn[x].home
      /\ new.lapsed = conn[x].lapsed /\ new.seen = now
  BY <1>1, <1>2, Zenon DEF Conn
<1> HIDE DEF new
<1> QED
  BY <1>2, <1>3, <1>4, Zenon

\* The same in one word: what a connection is after a packet to b.
SentBy(x, b, id, new) ==
  /\ Forwarded(x, b, id) = [conn EXCEPT ![x] = new]
  /\ new.life = conn[x].life /\ new.at = conn[x].at /\ new.dcid = conn[x].dcid
  /\ new.phase = conn[x].phase /\ new.home = conn[x].home
  /\ new.via.backend = b /\ new.via.id = id /\ new.via.dcid = conn[x].dcid
  /\ new.via.final <=> conn[x].phase = "server"

LEMMA ForwardedSent ==
  ASSUME conn \in [Conns -> Conn], now \in Nat, NEW x \in Conns, NEW b \in Backends,
         NEW id \in Nat
  PROVE  \E new \in Conn : SentBy(x, b, id, new)
BY ForwardedPath DEF SentBy
=============================================================================
