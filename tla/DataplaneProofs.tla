-------------------------- MODULE DataplaneProofs --------------------------
(***************************************************************************)
(* What the routing guarantees, for every number of connections, clients,  *)
(* backends, flow slots and configurations: the types, that the aliases    *)
(* and the flows lead to backends of the configuration in force, that the  *)
(* generation ids keep an alias from being held by a stranger's flow, that *)
(* a packet reaches the server that issued its connection ID or serves its *)
(* name, and that an active connection keeps the alias of its server's     *)
(* connection ID.  KeepInv is for the last: the flow of a connection's     *)
(* latest packet is there and owns the alias.                              *)
(***************************************************************************)
EXTENDS DataplaneRouteProofs

\* The limit of a leaf counts the time in which other leaves are prepared.
USE SMTT(30), Zenon

-----------------------------------------------------------------------------
(* The alias of an active connection *)

\* The alias k is there and owned by the flow (q, id).
Owner(a, k, q, id) == a[k] # Unused /\ a[k].slot = q /\ a[k].id = id

\* The flow of the connection's last packet is there, at least as recent as the
\* connection's traffic, and owns the alias of the server's ID.
Held(x, p, a, t) ==
  \E q \in UsedSlots(t) :
    /\ t.flows[q].client = p.at /\ t.flows[q].id = p.via.id /\ t.flows[q].last_seen >= p.seen
    /\ p.phase = "server" => Owner(a, CidKey(x, p.dcid), q, p.via.id)

\* The connection's traffic is within the timeout unless it has lapsed, it is
\* on its first tuple, and once it has sent a packet its flow holds the alias.
Keeps(x, p, a, t, time) ==
  /\ p.seen <= time
  /\ p.life = "new" => p.via.id = 0
  /\ p.life # "new" => p.tuples = {p.at}
  /\ p.phase = "server" => p.via.id # 0
  /\ p.life = "open" /\ ~p.lapsed => time - p.seen < IdleTimeout
  /\ p.life = "open" /\ ~p.lapsed /\ p.via.id # 0 => Held(x, p, a, t)
KeepInv == \A x \in Conns : Keeps(x, conn[x], aliases, table, now)

\* An alias keeps its owner from a to e: any owner; one that is not idle.
Retains(a, e, k) == \A q, id : Owner(a, k, q, id) => Owner(e, k, q, id)
RetainsBusy(a, e, k, t, time) ==
  \A q \in UsedSlots(t) : time - t.flows[q].last_seen < IdleTimeout =>
    (Owner(a, k, q, t.flows[q].id) => Owner(e, k, q, t.flows[q].id))

\* The flows that are not idle are there in u, as they were or refreshed.
HoldsBusy(t, u, time) ==
  \A q \in UsedSlots(t) : time - t.flows[q].last_seen < IdleTimeout =>
    /\ q \in UsedSlots(u)
    /\ u.flows[q].client = t.flows[q].client /\ u.flows[q].id = t.flows[q].id
    /\ u.flows[q].last_seen \in {t.flows[q].last_seen, time}

LEMMA SeenTypes ==
  ASSUME NEW t, NEW cfg, FlowsFine(t, cfg)
  PROVE  \A q \in UsedSlots(t) : q \in Slots /\ t.flows[q] \in Flow /\ t.flows[q].last_seen \in Nat
<1>1. t.flows \in [Slots -> Flow \cup {Unused}]
  BY Zenon DEF FlowsFine, Sound, Tables
<1>2. \A q \in UsedSlots(t) : q \in Slots /\ t.flows[q] \in Flow
  BY <1>1, Zenon DEF UsedSlots, Used
<1> QED
  BY <1>2, Zenon DEF Flow

LEMMA KeepsLater ==
  ASSUME NEW x, NEW p \in Conn, NEW a, NEW e, NEW t, NEW u, NEW cfg, FlowsFine(t, cfg),
         NEW time \in Nat, Keeps(x, p, a, t, time), HoldsBusy(t, u, time),
         RetainsBusy(a, e, CidKey(x, p.dcid), t, time)
  PROVE  Keeps(x, p, e, u, time)
<1> SUFFICES ASSUME p.life = "open" /\ ~p.lapsed /\ p.via.id # 0
             PROVE  Held(x, p, e, u)
  BY Zenon DEF Keeps
<1>1. time - p.seen < IdleTimeout /\ p.seen <= time /\ Held(x, p, a, t)
  BY Zenon DEF Keeps
<1>2. p.seen \in Nat
  BY Zenon DEF Conn
<1>3. PICK q \in UsedSlots(t) :
        /\ t.flows[q].client = p.at /\ t.flows[q].id = p.via.id /\ t.flows[q].last_seen >= p.seen
        /\ p.phase = "server" => Owner(a, CidKey(x, p.dcid), q, p.via.id)
  BY <1>1, Zenon DEF Held
<1>4. t.flows[q].last_seen \in Nat
  BY SeenTypes, Zenon
<1>5. time - t.flows[q].last_seen < IdleTimeout
  BY <1>1, <1>2, <1>3, <1>4, LimitAssumption
<1>6. /\ q \in UsedSlots(u) /\ u.flows[q].client = p.at /\ u.flows[q].id = p.via.id
      /\ u.flows[q].last_seen \in {t.flows[q].last_seen, time}
  BY <1>3, <1>5, Zenon DEF HoldsBusy
<1>7. u.flows[q].last_seen >= p.seen
  BY <1>1, <1>2, <1>3, <1>4, <1>6, Zenon
<1> QED
  BY <1>3, <1>5, <1>6, <1>7, Zenon DEF Held, RetainsBusy

\* A step of one connection leaves the others' flows and aliases alone.
LEMMA OneKeeps ==
  ASSUME Inv, KeepInv, NEW x \in Conns, NEW new, conn' = [conn EXCEPT ![x] = new], now' = now,
         HoldsBusy(table, table', now),
         \A y \in Conns \ {x}, d \in Dcids : Retains(aliases, aliases', CidKey(y, d)),
         Keeps(x, new, aliases', table', now)
  PROVE  KeepInv'
<1>1. \A y \in Conns : conn'[y] = IF y = x THEN new ELSE conn[y]
  BY Zenon DEF Inv, PeersFine
<1>2. ASSUME NEW y \in Conns \ {x} PROVE Keeps(y, conn[y], aliases', table', now)
  <2> DEFINE p == conn[y]
  <2>1. /\ p \in Conn /\ Keeps(y, p, aliases, table, now) /\ now \in Nat
        /\ FlowsFine(table, config)
    BY Zenon DEF Inv, PeersFine, KeepInv
  <2>2. p.dcid \in Dcids
    BY <2>1, Zenon DEF Conn
  <2> HIDE DEF p
  <2>3. RetainsBusy(aliases, aliases', CidKey(y, p.dcid), table, now)
    BY <2>2, Zenon DEF Retains, RetainsBusy
  <2>4. Keeps(y, p, aliases', table', now)
    BY ONLY <2>1, <2>3, HoldsBusy(table, table', now), KeepsLater, Zenon
  <2> QED
    BY <2>4, Zenon DEF p
<1> QED
  BY <1>1, <1>2, Zenon DEF KeepInv

LEMMA AllKeep ==
  ASSUME Inv, KeepInv, conn' = conn, now' = now, HoldsBusy(table, table', now),
         \A x \in Conns, d \in Dcids : Retains(aliases, aliases', CidKey(x, d))
  PROVE  KeepInv'
<1>1. ASSUME NEW y \in Conns PROVE Keeps(y, conn[y], aliases', table', now)
  <2> DEFINE p == conn[y]
  <2>1. /\ p \in Conn /\ Keeps(y, p, aliases, table, now) /\ now \in Nat
        /\ FlowsFine(table, config)
    BY Zenon DEF Inv, PeersFine, KeepInv
  <2>2. p.dcid \in Dcids
    BY <2>1, Zenon DEF Conn
  <2> HIDE DEF p
  <2>3. RetainsBusy(aliases, aliases', CidKey(y, p.dcid), table, now)
    BY <2>2, Zenon DEF Retains, RetainsBusy
  <2>4. Keeps(y, p, aliases', table', now)
    BY ONLY <2>1, <2>3, HoldsBusy(table, table', now), KeepsLater, Zenon
  <2> QED
    BY <2>4, Zenon DEF p
<1> QED
  BY <1>1, Zenon DEF KeepInv

\* The connection whose packet went out on the flow in slot p.
LEMMA SentKeeps ==
  ASSUME KeepInv, 0 < IdleTimeout, now \in Nat, NEW x \in Conns, conn[x].life = "open",
         NEW new, new.life = "open", new.at = conn[x].at, new.dcid = conn[x].dcid,
         new.phase = conn[x].phase, new.tuples = conn[x].tuples,
         new.lapsed = conn[x].lapsed, new.seen = now,
         NEW id \in Nat \ {0}, new.via.id = id, NEW e, NEW u, NEW p \in UsedSlots(u),
         u.flows[p].client = conn[x].at, u.flows[p].id = id, u.flows[p].last_seen = now,
         conn[x].phase = "server" /\ ~conn[x].lapsed =>
           Owner(e, CidKey(x, conn[x].dcid), p, id)
  PROVE  Keeps(x, new, e, u, now)
<1>1. conn[x].tuples = {conn[x].at}
  BY Zenon DEF KeepInv, Keeps
<1>2. ~new.lapsed => Held(x, new, e, u)
  BY DEF Held
<1>3. now - new.seen < IdleTimeout /\ new.seen <= now
  BY LimitAssumption
<1> QED
  BY <1>1, <1>2, <1>3, Zenon DEF Keeps

LEMMA HeldSlot ==
  ASSUME FlowLaws, Inv, KeepInv, NEW x \in Conns, conn[x].life = "open", ~conn[x].lapsed,
         conn[x].via.id # 0, NEW p, p = SlotOf(table, conn[x].at)
  PROVE  /\ p # NoSlot /\ p \in UsedSlots(table) /\ table.flows[p].id = conn[x].via.id
         /\ conn[x].phase = "server" =>
              Owner(aliases, CidKey(x, conn[x].dcid), p, conn[x].via.id)
<1>1. Held(x, conn[x], aliases, table) /\ Sound(table, {})
  BY Zenon DEF KeepInv, Keeps, Inv, FlowsFine
<1>2. PICK q \in UsedSlots(table) :
        /\ table.flows[q].client = conn[x].at /\ table.flows[q].id = conn[x].via.id
        /\ conn[x].phase = "server" => Owner(aliases, CidKey(x, conn[x].dcid), q, conn[x].via.id)
  BY <1>1, Zenon DEF Held
<1>3. p # NoSlot
  BY <1>2, Zenon DEF FlowLaws, SlotLaw, Stranger
<1>4. p \in UsedSlots(table) /\ table.flows[p].client = conn[x].at
  BY <1>3, Zenon DEF FlowLaws, SlotLaw
<1>5. p = q
  BY <1>1, <1>2, <1>4, Zenon DEF Sound, Single
<1> QED
  BY <1>2, <1>3, <1>4, <1>5, Zenon

LEMMA RefreshBusy ==
  ASSUME NEW t, NEW cfg, FlowsFine(t, cfg), NEW p \in UsedSlots(t), NEW time \in Nat,
         NEW u, u = [t EXCEPT !.flows[p].last_seen = time]
  PROVE  HoldsBusy(t, u, time)
BY RefreshKeeps DEF HoldsBusy

LEMMA FastKeep ==
  ASSUME FlowLaws, 0 < IdleTimeout, Inv, KeepInv, NEW x \in Conns, NEW type, FastPath(x, type)
  PROVE  KeepInv'
<1> DEFINE c == conn[x].at
           p == SlotOf(table, c)
           b == table.flows[p].backend
           id == table.flows[p].id
<1>1. /\ Sends(x, type) /\ p # NoSlot
      /\ table' = [table EXCEPT !.flows[p].last_seen = now]
      /\ conn' = Forwarded(x, b, id)
      /\ UNCHANGED <<aliases, config, now, pace>>
  BY Zenon DEF FastPath, Fast
<1>2. /\ now \in Nat /\ FlowsFine(table, config) /\ conn \in [Conns -> Conn]
      /\ conn[x].life = "open"
  BY <1>1, Zenon DEF Inv, PeersFine, Sends
<1>3. p \in UsedSlots(table) /\ table.flows[p].client = c
  BY <1>1, Zenon DEF FlowLaws, SlotLaw
<1>4. id \in Nat \ {0} /\ b \in Backends
  <2>1. table.flows[p] \in Flow /\ id # 0
    BY <1>2, <1>3, SeenTypes, Zenon DEF FlowsFine
  <2> QED
    BY <2>1, Zenon DEF Flow
<1>5. conn[x].phase = "server" /\ ~conn[x].lapsed => Owner(aliases, CidKey(x, conn[x].dcid), p, id)
  <2>1. conn[x].phase = "server" => conn[x].via.id # 0
    BY Zenon DEF KeepInv, Keeps
  <2> QED
    BY <1>2, <2>1, HeldSlot, Zenon
<1> HIDE DEF b, id, p
<1>6. /\ HoldsBusy(table, table', now) /\ p \in UsedSlots(table')
      /\ table'.flows[p].client = c /\ table'.flows[p].id = id /\ table'.flows[p].last_seen = now
  <2>1. HoldsBusy(table, table', now)
    BY <1>1, <1>2, <1>3, RefreshBusy, Zenon
  <2>2. /\ UsedSlots(table') = UsedSlots(table) /\ table'.flows[p].last_seen = now
        /\ table'.flows[p].client = table.flows[p].client
        /\ table'.flows[p].id = table.flows[p].id
    BY ONLY <1>1, <1>2, <1>3, RefreshKeeps, SMTT(30), Zenon
  <2> QED
    BY <1>3, <2>1, <2>2, Zenon DEF id
<1>7. PICK new \in Conn :
        /\ conn' = [conn EXCEPT ![x] = new]
        /\ new.life = conn[x].life /\ new.at = conn[x].at /\ new.dcid = conn[x].dcid
        /\ new.phase = conn[x].phase /\ new.tuples = conn[x].tuples
        /\ new.lapsed = conn[x].lapsed /\ new.seen = now /\ new.via.id = id
  <2>1. id \in Nat
    BY <1>4, Zenon
  <2> QED
    BY ONLY x \in Conns, <1>1, <1>2, <1>4, <2>1, ForwardedPath, SMTT(30), Zenon
<1>8. Keeps(x, new, aliases', table', now)
  <2>1. /\ new.life = "open" /\ aliases' = aliases
        /\ conn[x].phase = "server" /\ ~conn[x].lapsed =>
             Owner(aliases', CidKey(x, conn[x].dcid), p, id)
    BY <1>1, <1>2, <1>5, <1>7, Zenon
  <2>2. table'.flows[p].client = conn[x].at
    BY <1>6, Zenon
  <2> QED
    BY ONLY KeepInv, 0 < IdleTimeout, x \in Conns, <1>2, <1>4, <1>6, <1>7, <2>1, <2>2, SentKeeps, Zenon
<1>9. \A k : Retains(aliases, aliases', k)
  BY <1>1, Zenon DEF Retains
<1> QED
  BY <1>1, <1>6, <1>7, <1>8, <1>9, OneKeeps, Zenon

\* What the lookups and the touch leave of the owners.
LEMMA LookupRetains ==
  ASSUME Inv, NEW x \in Conns, NEW type, NEW found, found = Lookup(x, type),
         conn[x].at \in Clients
  PROVE  /\ \A y \in Conns, d \in Dcids : Retains(aliases, found.a, CidKey(y, d))
         /\ found.key # NoKey => \A y \in Conns, d \in Dcids :
              Retains(aliases, Touched(found.a, found.key, now), CidKey(y, d))
<1> DEFINE c == conn[x].at
           a == found.a
           key == found.key
           e == Touched(a, key, now)
<1>1. \A k \in Keys : k # TupleKey(c) => a[k] = aliases[k]
  BY LookupLeads
<1>2. /\ a \in AliasMaps /\ now \in Nat
      /\ key # NoKey => key \in Keys /\ a[key] \in Alias
  BY LookupFine, Zenon DEF AliasesFine, Inv
<1> HIDE DEF a, key
<1>3. \A y \in Conns, d \in Dcids : CidKey(y, d) \in Keys /\ CidKey(y, d) # TupleKey(c)
  BY KeyFacts, KeysDiffer, Zenon
<1>4. \A y \in Conns, d \in Dcids : a[CidKey(y, d)] = aliases[CidKey(y, d)]
  BY <1>1, <1>3, Zenon
<1>5. ASSUME key # NoKey, NEW k \in Keys PROVE Retains(a, e, k)
  <2>1. /\ e[key] \in Alias /\ e[key].slot = a[key].slot /\ e[key].id = a[key].id
        /\ \A j \in Keys : j # key => e[j] = a[j]
    BY ONLY <1>2, <1>5, TouchChanges, Zenon
  <2> QED
    BY <2>1, AliasAssumption, Zenon DEF Retains, Owner
<1>6. \A y \in Conns, d \in Dcids : Retains(aliases, a, CidKey(y, d))
  BY <1>4, Zenon DEF Retains, Owner
<1>7. key # NoKey => \A y \in Conns, d \in Dcids : Retains(aliases, e, CidKey(y, d))
  BY <1>3, <1>5, <1>6, Zenon DEF Retains
<1> QED
  BY <1>6, <1>7, Zenon DEF a, key

LEMMA LearnRetains ==
  ASSUME NEW a \in AliasMaps, NEW x \in Conns, NEW dcid \in Dcids, NEW b \in Backends,
         NEW slot \in Slots, NEW id \in Nat \ {0}, now \in Nat,
         NEW e, e = Learn(a, x, dcid, b, slot, id)
  PROVE  /\ Owner(e, CidKey(x, dcid), slot, id)
         /\ \A y \in Conns \ {x}, d \in Dcids : Retains(a, e, CidKey(y, d))
<1> DEFINE cid == CidKey(x, dcid)
           pair == PairKey(x, dcid)
           s == [backend |-> b, last_seen |-> now, slot |-> slot, id |-> id]
<1>1. cid \in Keys /\ pair \in Keys /\ cid # pair
  BY KeyFacts, KeysDiffer, Zenon
<1>2. /\ Put(a, cid, b, slot, id) = [a EXCEPT ![cid] = s]
      /\ e = [[a EXCEPT ![cid] = s] EXCEPT ![pair] = s]
  BY Zenon DEF Learn, Put
<1>3. s \in Alias /\ s.slot = slot /\ s.id = id
  BY Zenon DEF Alias
<1> HIDE DEF s
<1>4. e[cid] = s /\ \A k \in Keys : k # cid /\ k # pair => e[k] = a[k]
  BY <1>1, <1>2, Zenon DEF AliasMaps
<1>5. Owner(e, cid, slot, id)
  BY <1>3, <1>4, AliasAssumption, Zenon DEF Owner
<1>6. ASSUME NEW y \in Conns \ {x}, NEW d \in Dcids PROVE e[CidKey(y, d)] = a[CidKey(y, d)]
  BY <1>4, KeyFacts, KeysDiffer
<1> QED
  BY <1>5, <1>6, Zenon DEF Retains, Owner

LEMMA DropKeep ==
  ASSUME Inv, KeepInv, NEW x \in Conns, NEW type, DropPacket(x, type)
  PROVE  KeepInv'
<1>1. /\ Sends(x, type) /\ aliases' = Lookup(x, type).a
      /\ UNCHANGED <<table, config, conn, now, pace>>
  BY Zenon DEF DropPacket
<1>2. \A y \in Conns, d \in Dcids : Retains(aliases, aliases', CidKey(y, d))
  BY <1>1, SenderFacts, LookupRetains, Zenon
<1>3. HoldsBusy(table, table', now)
  BY <1>1, Zenon DEF HoldsBusy
<1> QED
  BY <1>1, <1>2, <1>3, AllKeep, Zenon

LEMMA AcquireBusy ==
  ASSUME FlowLaws, RoomLaws, Roomy, NEW t, NEW cfg, FlowsFine(t, cfg), NEW time \in Nat, NEW c \in Clients,
         NEW b \in BackendsOf(cfg), b \in Backends,
         NEW registered, NEW u, u = Acquired(t, c, b, registered, time),
         NEW p, p = SlotOf(u, c)
  PROVE  /\ HoldsBusy(t, u, time)
         /\ p # NoSlot => /\ p \in UsedSlots(u) /\ u.flows[p].client = c
                          /\ u.flows[p].id \in Nat \ {0} /\ u.flows[p].last_seen = time
         /\ SlotOf(t, c) # NoSlot => p = SlotOf(t, c) /\ u.flows[p].id = t.flows[p].id
<1>1. Sound(t, {}) /\ Aimed(t, u, c, b, time)
  BY Zenon DEF FlowLaws, AcquireLaw, FlowsFine
<1>2. SlotOf(t, c) # NoSlot \/ (t.free_slots # <<>> /\ SocketFd(t) # NoFd)
  BY <1>1, Zenon DEF FlowLaws, SlotLaw, RoomLaws, RoomLaw
<1>3. Holds(t, u, time) /\ (SlotOf(t, c) # NoSlot => SlotOf(u, c) = SlotOf(t, c))
  BY <1>1, <1>2 DEF RoomLaws, HoldLaw
<1>4. HoldsBusy(t, u, time)
  BY <1>3, Zenon DEF Holds, HoldsBusy
<1>5. p # NoSlot => p \in UsedSlots(u) /\ u.flows[p].client = c
  BY Zenon DEF FlowLaws, SlotLaw
<1>6. p # NoSlot => u.flows[p].last_seen = time
  BY <1>1, <1>5, Zenon DEF Aimed
<1>7. p # NoSlot => u.flows[p].id \in Nat \ {0}
  BY ONLY FlowLaws, FlowsFine(t, cfg), time \in Nat, c \in Clients, b \in BackendsOf(cfg), b \in Backends,
          u = Acquired(t, c, b, registered, time), p = SlotOf(u, c), AcquireFollows, Zenon
<1>8. SlotOf(t, c) # NoSlot => p = SlotOf(t, c) /\ u.flows[p].id = t.flows[p].id
  BY <1>3, Zenon DEF FlowLaws, SlotLaw, Holds
<1> QED
  BY <1>4, <1>5, <1>6, <1>7, <1>8, Zenon

LEMMA KnownKeep ==
  ASSUME FlowLaws, RoomLaws, Roomy, 0 < IdleTimeout, Inv, KeepInv, NEW x \in Conns, NEW type, NEW registered,
         KnownSession(x, type, registered)
  PROVE  KeepInv'
<1> DEFINE found == Lookup(x, type)
           c == conn[x].at
           dcid == conn[x].dcid
           b == found.a[found.key].backend
           e == Touched(found.a, found.key, now)
           p == SlotOf(table', c)
           id == table'.flows[p].id
           cid == CidKey(x, dcid)
<1>1. /\ Sends(x, type) /\ found.key # NoKey
      /\ table' = Acquired(table, c, b, registered, now)
      /\ aliases' = IF p = NoSlot \/ type = "short" THEN e ELSE Learn(e, x, dcid, b, p, id)
      /\ conn' = IF p = NoSlot THEN conn ELSE Forwarded(x, b, id)
      /\ UNCHANGED <<config, now, pace>>
  BY Zenon DEF KnownSession, Touched
<1>2. /\ c \in Clients /\ dcid \in Dcids /\ now \in Nat /\ BackendsOf(config) \subseteq Backends
      /\ FlowsFine(table, config) /\ conn[x].life = "open" /\ conn \in [Conns -> Conn]
  BY <1>1, SenderFacts, Zenon DEF Sends, PeersFine
<1>3. /\ b \in BackendsOf(config) /\ b \in Backends
      /\ found.a \in AliasMaps /\ found.key \in Keys /\ found.a[found.key] \in Alias
  BY <1>1, <1>2, LookupFine, Zenon DEF AliasFine, AliasesFine
<1>4. \A y \in Conns, d \in Dcids : Retains(aliases, e, CidKey(y, d))
  BY <1>1, <1>2, LookupRetains, Zenon
<1>5. e \in AliasMaps
  <2> DEFINE A == found.a
             K == found.key
  <2>1. A \in AliasMaps /\ K \in Keys /\ A[K] \in Alias /\ now \in Nat /\ e = Touched(A, K, now)
    BY <1>2, <1>3, Zenon
  <2> HIDE DEF A, K, e
  <2> QED
    BY ONLY <2>1, TouchChanges, Zenon
<1> HIDE DEF found, e, b
<1>6. /\ HoldsBusy(table, table', now)
      /\ p # NoSlot => /\ p \in UsedSlots(table') /\ table'.flows[p].client = c
                       /\ id \in Nat \ {0} /\ table'.flows[p].last_seen = now
      /\ SlotOf(table, c) # NoSlot => p = SlotOf(table, c) /\ id = table.flows[p].id
  <2>1. /\ p = SlotOf(table', c) /\ table' = Acquired(table, c, b, registered, now)
        /\ FlowsFine(table, config) /\ now \in Nat /\ c \in Clients
        /\ b \in BackendsOf(config) /\ b \in Backends
    BY <1>1, <1>2, <1>3, Zenon
  <2> HIDE DEF p, c
  <2> QED
    BY ONLY FlowLaws, RoomLaws, Roomy, <2>1, AcquireBusy, SMTT(30), Zenon
<1>7. CASE p = NoSlot
  BY <1>1, <1>4, <1>6, <1>7, AllKeep, Zenon
<1>8. CASE p # NoSlot
  <2>1. /\ p \in UsedSlots(table') /\ p \in Slots /\ id \in Nat \ {0} /\ id \in Nat
        /\ table'.flows[p].client = conn[x].at /\ table'.flows[p].id = id
        /\ table'.flows[p].last_seen = now
    BY <1>6, <1>8, Zenon DEF UsedSlots
  <2>2. \A y \in Conns \ {x}, d \in Dcids : Retains(aliases, aliases', CidKey(y, d))
    <3>1. CASE type = "short"
      BY <1>1, <1>4, <3>1, Zenon
    <3>2. CASE type # "short"
      <4>1. aliases' = Learn(e, x, dcid, b, p, id)
        BY <1>1, <1>8, <3>2, Zenon
      <4> HIDE DEF p, id, c, dcid
      <4>2. \A y \in Conns \ {x}, d \in Dcids : Retains(e, aliases', CidKey(y, d))
        BY ONLY x \in Conns, <1>2, <1>3, <1>5, <2>1, <4>1, LearnRetains, Zenon
      <4> QED
        BY <1>4, <4>2, Zenon DEF Retains
    <3> QED
      BY <3>1, <3>2, Zenon
  <2>3. conn[x].phase = "server" /\ ~conn[x].lapsed => Owner(aliases', cid, p, id)
    <3> SUFFICES ASSUME conn[x].phase = "server", ~conn[x].lapsed PROVE Owner(aliases', cid, p, id)
      BY Zenon
    <3>1. CASE type = "short"
      <4>1. conn[x].via.id # 0
        BY Zenon DEF KeepInv, Keeps
      <4> DEFINE r == SlotOf(table, c)
      <4>2. /\ r # NoSlot /\ table.flows[r].id = conn[x].via.id
            /\ Owner(aliases, cid, r, conn[x].via.id)
        BY <1>2, <4>1, HeldSlot, Zenon
      <4>3. p = r /\ id = conn[x].via.id
        BY <1>6, <4>2, Zenon
      <4> HIDE DEF r, p, id, cid
      <4>4. Retains(aliases, aliases', cid)
        BY <1>1, <1>2, <1>4, <3>1, Zenon DEF cid
      <4> QED
        BY <4>2, <4>3, <4>4, Zenon DEF Retains
    <3>2. CASE type # "short"
      <4>1. aliases' = Learn(e, x, dcid, b, p, id)
        BY <1>1, <1>8, <3>2, Zenon
      <4> HIDE DEF p, id, c, dcid
      <4> QED
        BY ONLY x \in Conns, <1>2, <1>3, <1>5, <2>1, <4>1, LearnRetains, Zenon DEF cid
    <3> QED
      BY <3>1, <3>2, Zenon
  <2> HIDE DEF p, id
  <2>4. PICK new \in Conn :
        /\ conn' = [conn EXCEPT ![x] = new]
        /\ new.life = conn[x].life /\ new.at = conn[x].at /\ new.dcid = conn[x].dcid
        /\ new.phase = conn[x].phase /\ new.tuples = conn[x].tuples
        /\ new.lapsed = conn[x].lapsed /\ new.seen = now /\ new.via.id = id
    <3>1. conn' = Forwarded(x, b, id)
      BY <1>1, <1>8, Zenon
    <3> QED
      BY ONLY x \in Conns, <1>2, <1>3, <2>1, <3>1, ForwardedPath, SMTT(30), Zenon
  <2>5. Keeps(x, new, aliases', table', now)
    <3>1. new.life = "open"
      BY <1>2, <2>4, Zenon
    <3> QED
      BY ONLY KeepInv, 0 < IdleTimeout, x \in Conns, <1>2, <2>1, <2>3, <2>4, <3>1, SentKeeps, Zenon
  <2> QED
    BY <1>1, <1>6, <2>2, <2>4, <2>5, OneKeeps, Zenon
<1> QED
  BY <1>7, <1>8, Zenon

LEMMA FreshKeep ==
  ASSUME FlowLaws, RoomLaws, Roomy, 0 < IdleTimeout, Inv, KeepInv, NEW x \in Conns, NEW type, NEW registered,
         FreshInitial(x, type, registered)
  PROVE  KeepInv'
<1> DEFINE found == Lookup(x, type)
           c == conn[x].at
           dcid == conn[x].dcid
           b == config.routes[NameOf[x]]
           p == SlotOf(table', c)
           id == table'.flows[p].id
           put == Put(found.a, TupleKey(c), b, p, id)
           sent == Forwarded(x, b, id)
<1>1. /\ Sends(x, type) /\ b # Unused /\ conn[x].phase # "server"
      /\ table' = Acquired(table, c, b, registered, now)
      /\ aliases' = IF p = NoSlot THEN found.a ELSE Learn(put, x, dcid, b, p, id)
      /\ conn' = IF p = NoSlot THEN conn ELSE [sent EXCEPT ![x].home = b]
      /\ UNCHANGED <<config, now, pace>>
  BY Zenon DEF FreshInitial, Routable
<1>2. /\ c \in Clients /\ dcid \in Dcids /\ now \in Nat /\ BackendsOf(config) \subseteq Backends
      /\ FlowsFine(table, config) /\ conn[x].life = "open" /\ conn \in [Conns -> Conn]
  BY <1>1, SenderFacts, Zenon DEF Sends, PeersFine
<1>3. b \in BackendsOf(config) /\ b \in Backends
  BY <1>1, <1>2, RoutesLead, Zenon DEF Inv
<1>4. AliasesFine(found.a, table, config, conn)
  BY <1>2, LookupFine, Zenon
<1>5. \A y \in Conns, d \in Dcids : Retains(aliases, found.a, CidKey(y, d))
  BY <1>2, LookupRetains, Zenon
<1> HIDE DEF found, b
<1>6. /\ HoldsBusy(table, table', now)
      /\ p # NoSlot => /\ p \in UsedSlots(table') /\ table'.flows[p].client = c
                       /\ id \in Nat \ {0} /\ table'.flows[p].last_seen = now
  <2>1. /\ p = SlotOf(table', c) /\ table' = Acquired(table, c, b, registered, now)
        /\ FlowsFine(table, config) /\ now \in Nat /\ c \in Clients
        /\ b \in BackendsOf(config) /\ b \in Backends
    BY <1>1, <1>2, <1>3, Zenon
  <2> HIDE DEF p, c
  <2> QED
    BY ONLY FlowLaws, RoomLaws, Roomy, <2>1, AcquireBusy, SMTT(30), Zenon
<1>7. CASE p = NoSlot
  BY <1>1, <1>5, <1>6, <1>7, AllKeep, Zenon
<1>8. CASE p # NoSlot
  <2>1. /\ p \in UsedSlots(table') /\ p \in Slots /\ id \in Nat \ {0} /\ id \in Nat
        /\ table'.flows[p].client = conn[x].at /\ table'.flows[p].id = id
        /\ table'.flows[p].last_seen = now
    BY <1>6, <1>8, Zenon DEF UsedSlots
  <2> HIDE DEF p, id
  <2>2. put \in AliasMaps /\ \A k \in Keys : k # TupleKey(c) => put[k] = found.a[k]
    <3>1. TupleKey(c) \in Keys /\ TupleKey(c)[1] = "tuple" /\ found.a \in AliasMaps
      BY <1>2, <1>4, KeyFacts, Zenon DEF AliasesFine
    <3>2. AliasesFine(put, table, config, conn)
      BY <1>2, <1>3, <1>4, <2>1, <3>1, PutFine, Zenon
    <3>3. \A k \in Keys : k # TupleKey(c) => put[k] = found.a[k]
      BY <3>1, PutChanges
    <3> QED
      BY <3>2, <3>3, Zenon DEF AliasesFine
  <2> HIDE DEF put
  <2>3. \A y \in Conns \ {x}, d \in Dcids : Retains(aliases, aliases', CidKey(y, d))
    <3>1. aliases' = Learn(put, x, dcid, b, p, id)
      BY <1>1, <1>8, Zenon
    <3>2. \A y \in Conns \ {x}, d \in Dcids : Retains(put, aliases', CidKey(y, d))
      <4> HIDE DEF c, dcid
      <4> QED
        BY ONLY x \in Conns, <1>2, <1>3, <2>1, <2>2, <3>1, LearnRetains, Zenon
    <3>3. \A y \in Conns, d \in Dcids : put[CidKey(y, d)] = found.a[CidKey(y, d)]
      BY <1>2, <2>2, KeyFacts, KeysDiffer, ZenonT(30)
    <3> QED
      BY <1>5, <3>2, <3>3 DEF Retains, Owner
  <2>4. PICK new \in Conn :
        /\ sent = [conn EXCEPT ![x] = new]
        /\ new.life = conn[x].life /\ new.at = conn[x].at /\ new.dcid = conn[x].dcid
        /\ new.phase = conn[x].phase /\ new.tuples = conn[x].tuples
        /\ new.lapsed = conn[x].lapsed /\ new.seen = now /\ new.via.id = id
    BY ONLY x \in Conns, <1>2, <1>3, <2>1, ForwardedPath, SMTT(30), Zenon DEF sent
  <2> HIDE DEF sent
  <2> DEFINE named == [new EXCEPT !.home = b]
  <2>5. conn' = [conn EXCEPT ![x] = named]
    BY <1>1, <1>2, <1>8, <2>4, Zenon
  <2>6. /\ named.life = "open" /\ named.at = conn[x].at /\ named.dcid = conn[x].dcid
        /\ named.phase = conn[x].phase /\ named.tuples = conn[x].tuples
        /\ named.lapsed = conn[x].lapsed /\ named.seen = now /\ named.via.id = id
    BY <1>2, <2>4, Zenon DEF Conn
  <2> HIDE DEF named
  <2>7. Keeps(x, named, aliases', table', now)
    BY ONLY KeepInv, 0 < IdleTimeout, x \in Conns, <1>1, <1>2, <2>1, <2>6, SentKeeps, Zenon
  <2> QED
    BY <1>1, <1>6, <2>3, <2>5, <2>7, OneKeeps, Zenon
<1> QED
  BY <1>7, <1>8, Zenon

LEMMA LongKeep ==
  ASSUME 0 < IdleTimeout, Inv, KeepInv, NEW x \in Conns, NEW p \in Slots,
         NEW phase \in {"retry", "server"}, LongReply(x, p, phase)
  PROVE  KeepInv'
<1> DEFINE f == table.flows[p]
           b == conn[x].via.backend
           cid == CidKey(x, b)
           arrives == conn[x].life = "open" /\ conn[x].at = f.client
           new == IF ~arrives THEN conn[x]
                  ELSE IF conn[x].phase = "server" THEN [conn[x] EXCEPT !.seen = now]
                  ELSE [conn[x] EXCEPT !.dcid = b, !.phase = phase, !.seen = now]
<1>1. /\ Used(table, p) /\ f.id = conn[x].via.id
      /\ table' = [table EXCEPT !.flows[p].last_seen = now]
      /\ aliases' = Put(aliases, cid, f.backend, p, f.id)
      /\ UNCHANGED <<config, now, pace>>
  BY Zenon DEF LongReply, ReplySlot
<1>2. /\ now \in Nat /\ conn \in [Conns -> Conn] /\ conn[x] \in Conn
      /\ FlowsFine(table, config) /\ p \in UsedSlots(table) /\ aliases \in AliasMaps
      /\ PeerFine(conn[x], table) /\ Keeps(x, conn[x], aliases, table, now)
  BY <1>1, Zenon DEF Inv, UsedSlots, PeersFine, AliasesFine, KeepInv
<1>3. conn' = [conn EXCEPT ![x] = new]
  <2>1. conn' = IF ~arrives THEN conn
                ELSE IF conn[x].phase = "server" THEN [conn EXCEPT ![x].seen = now]
                ELSE [conn EXCEPT ![x].dcid = b, ![x].phase = phase, ![x].seen = now]
    BY Zenon DEF LongReply
  <2> QED
    BY <1>2, <2>1, Zenon
<1>4. f \in Flow /\ f.id \in Nat \ {0} /\ f.backend \in Backends
  <2>1. f \in Flow /\ f.id # 0
    BY <1>2, SeenTypes, Zenon DEF FlowsFine
  <2> QED
    BY <2>1, Zenon DEF Flow
<1>5. b \in Backends /\ b \in Dcids
  BY <1>1, <1>2, <1>4, Zenon DEF PeerFine, Dcids
<1>6. /\ new.via = conn[x].via /\ new.at = conn[x].at /\ new.life = conn[x].life
      /\ new.tuples = conn[x].tuples /\ new.lapsed = conn[x].lapsed
      /\ new.seen = IF arrives THEN now ELSE conn[x].seen
      /\ new.phase = "server" => (new.dcid = conn[x].dcid /\ conn[x].phase = "server") \/ new.dcid = b
  BY <1>2, Zenon DEF Conn
<1>7. cid \in Keys /\ \A y \in Conns, d \in Dcids : CidKey(y, d) \in Keys /\
        (y # x \/ d # b => CidKey(y, d) # cid)
  BY <1>5, KeyFacts, KeysDiffer
<1>8. Owner(aliases', cid, p, f.id) /\ \A k \in Keys : k # cid => aliases'[k] = aliases[k]
  <2> DEFINE s == [backend |-> f.backend, last_seen |-> now, slot |-> p, id |-> f.id]
  <2>1. aliases' = [aliases EXCEPT ![cid] = s]
    BY <1>1, <1>4, Zenon DEF Put
  <2>2. s \in Alias /\ s.slot = p /\ s.id = f.id
    BY <1>2, <1>4, Zenon DEF Alias
  <2> HIDE DEF s
  <2>3. aliases'[cid] = s /\ \A k \in Keys : k # cid => aliases'[k] = aliases[k]
    BY <1>2, <1>7, <2>1, Zenon DEF AliasMaps
  <2> QED
    BY <2>2, <2>3, AliasAssumption, Zenon DEF Owner
<1> HIDE DEF new, cid
<1>9. \A y \in Conns \ {x}, d \in Dcids : Retains(aliases, aliases', CidKey(y, d))
  BY <1>7, <1>8, Zenon DEF Retains, Owner
<1>10. /\ HoldsBusy(table, table', now) /\ p \in UsedSlots(table')
       /\ table'.flows[p].client = f.client /\ table'.flows[p].id = f.id
       /\ table'.flows[p].last_seen = now
  <2>1. HoldsBusy(table, table', now)
    BY <1>1, <1>2, RefreshBusy, Zenon
  <2>2. /\ UsedSlots(table') = UsedSlots(table) /\ table'.flows[p].last_seen = now
        /\ table'.flows[p].client = table.flows[p].client
        /\ table'.flows[p].id = table.flows[p].id
    <3>1. /\ FlowsFine(table, config) /\ p \in UsedSlots(table) /\ now \in Nat
          /\ table' = [table EXCEPT !.flows[p].last_seen = now]
      BY <1>1, <1>2, Zenon
    <3> QED
      BY ONLY <3>1, RefreshKeeps, SMTT(30), Zenon
  <2> QED
    BY <1>2, <2>1, <2>2, Zenon
<1>11. Keeps(x, new, aliases', table', now)
  <2>1. new.life # "new"
    BY <1>1, <1>2, <1>4, <1>6, Zenon DEF Keeps
  <2>2. conn[x].seen \in Nat
    BY <1>2, Zenon DEF Conn
  <2>3. new.life = "open" /\ ~new.lapsed => Held(x, new, aliases', table')
    <3> SUFFICES ASSUME new.life = "open", ~new.lapsed PROVE Held(x, new, aliases', table')
      BY Zenon
    <3>1. conn[x].via.id # 0 /\ Held(x, conn[x], aliases, table)
      BY <1>1, <1>2, <1>4, <1>6, Zenon DEF Keeps
    <3>2. PICK q \in UsedSlots(table) :
            /\ table.flows[q].client = conn[x].at /\ table.flows[q].id = conn[x].via.id
            /\ conn[x].phase = "server" =>
                 Owner(aliases, CidKey(x, conn[x].dcid), q, conn[x].via.id)
      BY <3>1, Zenon DEF Held
    <3>3. q = p
      BY <1>1, <1>2, <3>2, Zenon DEF FlowsFine, Sound, Dated
    <3>4. new.seen <= now
      BY <1>2, <1>6, <2>2 DEF Keeps
    <3>5. new.phase = "server" => Owner(aliases', CidKey(x, new.dcid), p, f.id)
      <4>1. conn[x].dcid \in Dcids
        BY <1>2, Zenon DEF Conn
      <4>2. conn[x].phase = "server" => Owner(aliases', CidKey(x, conn[x].dcid), p, f.id)
        BY <1>1, <1>7, <1>8, <3>2, <3>3, <4>1, Zenon DEF Owner, cid
      <4> QED
        BY <1>6, <1>8, <4>2, Zenon DEF cid
    <3> QED
      BY <1>1, <1>6, <1>10, <3>2, <3>3, <3>4, <3>5, Zenon DEF Held
  <2>4. new.seen <= now /\ (new.life = "open" /\ ~new.lapsed => now - new.seen < IdleTimeout)
    BY <1>2, <1>6, <2>2, LimitAssumption DEF Keeps
  <2> QED
    BY <1>1, <1>2, <1>4, <1>6, <2>1, <2>3, <2>4, Zenon DEF Keeps
<1> QED
  BY <1>1, <1>3, <1>9, <1>10, <1>11, OneKeeps, Zenon

LEMMA ShortKeep ==
  ASSUME 0 < IdleTimeout, Inv, KeepInv, NEW x \in Conns, NEW p \in Slots, ShortReply(x, p)
  PROVE  KeepInv'
<1> DEFINE new == [conn[x] EXCEPT !.seen = now]
<1>1. /\ Used(table, p) /\ table.flows[p].id = conn[x].via.id /\ conn[x].life = "open"
      /\ conn[x].phase = "server" /\ conn[x].at = table.flows[p].client
      /\ table' = [table EXCEPT !.flows[p].last_seen = now]
      /\ conn' = [conn EXCEPT ![x] = new]
      /\ UNCHANGED <<aliases, config, now, pace>>
  BY Zenon DEF ShortReply, ReplySlot
<1>2. /\ now \in Nat /\ conn[x] \in Conn /\ FlowsFine(table, config) /\ p \in UsedSlots(table)
      /\ Keeps(x, conn[x], aliases, table, now)
  BY <1>1, Zenon DEF Inv, UsedSlots, PeersFine, KeepInv
<1>3. /\ new.via = conn[x].via /\ new.life = "open" /\ new.at = conn[x].at
      /\ new.dcid = conn[x].dcid /\ new.phase = conn[x].phase /\ new.tuples = conn[x].tuples
      /\ new.lapsed = conn[x].lapsed /\ new.seen = now
  BY <1>1, <1>2, Zenon DEF Conn
<1> HIDE DEF new
<1>4. HoldsBusy(table, table', now)
  BY <1>1, <1>2, RefreshBusy, Zenon
<1>5. /\ UsedSlots(table') = UsedSlots(table) /\ table'.flows[p].last_seen = now
      /\ table'.flows[p].client = table.flows[p].client
      /\ table'.flows[p].id = table.flows[p].id
  BY <1>1, <1>2, RefreshKeeps
<1>6. ~conn[x].lapsed => Owner(aliases, CidKey(x, conn[x].dcid), p, conn[x].via.id)
  <2> SUFFICES ASSUME ~conn[x].lapsed
               PROVE  Owner(aliases, CidKey(x, conn[x].dcid), p, conn[x].via.id)
    BY Zenon
  <2>1. PICK q \in UsedSlots(table) :
          /\ table.flows[q].id = conn[x].via.id
          /\ Owner(aliases, CidKey(x, conn[x].dcid), q, conn[x].via.id)
    BY <1>1, <1>2, Zenon DEF Keeps, Held
  <2>2. q = p
    BY <1>1, <1>2, <2>1, Zenon DEF FlowsFine, Sound, Dated
  <2> QED
    BY <2>1, <2>2, Zenon
<1>7. Keeps(x, new, aliases', table', now)
  <2>1. ~new.lapsed => Held(x, new, aliases', table')
    BY <1>1, <1>2, <1>3, <1>5, <1>6 DEF Held
  <2>2. now - new.seen < IdleTimeout /\ new.seen <= now
    BY <1>2, <1>3, LimitAssumption
  <2> QED
    BY <1>1, <1>2, <1>3, <2>1, <2>2, Zenon DEF Keeps
<1>8. \A k : Retains(aliases, aliases', k)
  BY <1>1, Zenon DEF Retains
<1> QED
  BY <1>1, <1>4, <1>7, <1>8, OneKeeps, Zenon

\* The sweep refreshes the idle alias that an active flow owns.
LEMMA SweepRetains ==
  ASSUME Inv, Sweep, NEW k \in Keys
  PROVE  RetainsBusy(aliases, aliases', k, table, now)
<1> SUFFICES ASSUME NEW q \in UsedSlots(table), now - table.flows[q].last_seen < IdleTimeout,
                    Owner(aliases, k, q, table.flows[q].id)
             PROVE  Owner(aliases', k, q, table.flows[q].id)
  BY Zenon DEF RetainsBusy
<1>1. /\ FlowsFine(table, config) /\ aliases \in AliasMaps /\ now \in Nat
  BY Zenon DEF Inv, AliasesFine
<1>2. CASE UNCHANGED aliases
  BY <1>2, Zenon
<1>3. CASE \E j \in Keys :
        /\ IdleAlias(j)
        /\ aliases' = [aliases EXCEPT ![j] =
             IF Keepalive(j) THEN [aliases[j] EXCEPT !.last_seen = now] ELSE Unused]
  <2>1. PICK j \in Keys :
        /\ IdleAlias(j)
        /\ aliases' = [aliases EXCEPT ![j] =
             IF Keepalive(j) THEN [aliases[j] EXCEPT !.last_seen = now] ELSE Unused]
    BY <1>3, Zenon
  <2>2. CASE j # k
    <3>1. aliases'[k] = aliases[k]
      BY <1>1, <2>1, <2>2, Zenon DEF AliasMaps
    <3> QED
      BY <3>1, Zenon DEF Owner
  <2>3. CASE j = k
    <3>1. Keepalive(k)
      <4>1. table.flows[q].id # 0 /\ Used(table, q)
        BY <1>1, Zenon DEF FlowsFine, UsedSlots
      <4> QED
        BY <4>1, Zenon DEF Keepalive, Owner, Active
    <3>2. aliases[k] \in Alias
      BY <1>1, Zenon DEF AliasMaps, Owner
    <3> DEFINE s == [aliases[k] EXCEPT !.last_seen = now]
    <3>3. aliases' = [aliases EXCEPT ![k] = s]
      BY <2>1, <2>3, <3>1, Zenon
    <3>4. s \in Alias /\ s.slot = aliases[k].slot /\ s.id = aliases[k].id
      BY <1>1, <3>2, Zenon DEF Alias
    <3> HIDE DEF s
    <3>5. aliases'[k] = s
      BY <1>1, <3>3, Zenon DEF AliasMaps
    <3> QED
      BY <3>4, <3>5, AliasAssumption, Zenon DEF Owner
  <2> QED
    BY <2>2, <2>3, Zenon
<1> QED
  BY <1>2, <1>3, Zenon DEF Sweep

LEMMA SweepKeep ==
  ASSUME FlowLaws, Inv, KeepInv, Sweep
  PROVE  KeepInv'
<1>1. table' = ExpireAll(table, now) /\ UNCHANGED <<config, conn, now, pace>>
  BY Zenon DEF Sweep
<1>2. now \in Nat /\ FlowsFine(table, config)
  BY Zenon DEF Inv
<1>3. HoldsBusy(table, table', now)
  <2>1. /\ Kept(table, table')
        /\ \A q \in UsedSlots(table) : ~IdleAt(table, q, now) => q \in UsedSlots(table')
    BY <1>1, <1>2, Zenon DEF FlowLaws, ExpireLaw, FlowsFine
  <2>2. \A q \in UsedSlots(table) : table.flows[q].last_seen \in Nat
    BY <1>2, SeenTypes, Zenon
  <2>3. \A q \in UsedSlots(table) : now - table.flows[q].last_seen < IdleTimeout =>
          ~IdleAt(table, q, now)
    BY <1>2, <2>2, LimitAssumption DEF IdleAt
  <2> QED
    BY <2>1, <2>3, Zenon DEF HoldsBusy, Kept
<1>4. ASSUME NEW x \in Conns PROVE Keeps(x, conn[x], aliases', table', now)
  <2> DEFINE p == conn[x]
  <2>1. p \in Conn /\ Keeps(x, p, aliases, table, now)
    BY Zenon DEF Inv, PeersFine, KeepInv
  <2>2. CidKey(x, p.dcid) \in Keys
    BY <2>1, KeyFacts, Zenon DEF Conn
  <2> HIDE DEF p
  <2>3. RetainsBusy(aliases, aliases', CidKey(x, p.dcid), table, now)
    BY <2>2, SweepRetains, Zenon
  <2>4. Keeps(x, p, aliases', table', now)
    BY ONLY <1>2, <1>3, <2>1, <2>3, KeepsLater, Zenon
  <2> QED
    BY <2>4, Zenon DEF p
<1> QED
  BY <1>1, <1>4, Zenon DEF KeepInv

LEMMA ReloadKeep ==
  ASSUME FlowLaws, Inv, KeepInv, NEW cfg \in Configs, Reload(cfg), BackendsOf(config) \subseteq BackendsOf(cfg)
  PROVE  KeepInv'
<1>1. BackendsOf(config) \ BackendsOf(cfg) = {}
  BY Zenon
<1>2. /\ table' = EvictBackends(table, {}) /\ UNCHANGED <<conn, now>>
      /\ aliases' = [k \in Keys |-> IF aliases[k] # Unused /\ aliases[k].backend \in {}
                                    THEN Unused ELSE aliases[k]]
  BY <1>1, Zenon DEF Reload
<1>3. /\ FlowsFine(table, config) /\ aliases \in AliasMaps
  BY Zenon DEF Inv, AliasesFine
<1>4. HoldsBusy(table, table', now)
  <2>1. \A q \in UsedSlots(table) : q \in UsedSlots(table') /\ table'.flows[q] = table.flows[q]
    BY <1>2, <1>3 DEF FlowLaws, EvictLaw, FlowsFine
  <2> QED
    BY <2>1, Zenon DEF HoldsBusy
<1>5. aliases' = aliases
  BY <1>2, <1>3, Zenon DEF AliasMaps
<1>6. \A k : Retains(aliases, aliases', k)
  BY <1>5, Zenon DEF Retains
<1> QED
  BY <1>2, <1>4, <1>6, AllKeep, Zenon

\* A step of one connection that touches neither the flows nor the aliases.
LEMMA PeerKeeps ==
  ASSUME Inv, KeepInv, NEW x \in Conns, NEW new, conn' = [conn EXCEPT ![x] = new],
         UNCHANGED <<table, aliases, now>>, Keeps(x, new, aliases, table, now)
  PROVE  KeepInv'
<1>1. HoldsBusy(table, table', now)
  BY Zenon DEF HoldsBusy
<1>2. \A k : Retains(aliases, aliases', k)
  BY Zenon DEF Retains
<1> QED
  BY <1>1, <1>2, OneKeeps, Zenon

LEMMA ConnectKeep ==
  ASSUME 0 < IdleTimeout, Inv, KeepInv, NEW x \in Conns, NEW c \in Clients, Connect(x, c)
  PROVE  KeepInv'
<1> DEFINE new == [conn[x] EXCEPT !.life = "open", !.at = c, !.tuples = {c}, !.seen = now]
<1>1. /\ conn[x].life = "new" /\ conn' = [conn EXCEPT ![x] = new]
      /\ UNCHANGED <<table, aliases, now>>
  BY Zenon DEF Connect
<1>2. conn[x] \in Conn /\ Keeps(x, conn[x], aliases, table, now) /\ now \in Nat
  BY Zenon DEF Inv, PeersFine, KeepInv
<1>3. /\ new.via = conn[x].via /\ new.life = "open" /\ new.at = c /\ new.tuples = {c}
      /\ new.seen = now /\ new.phase = conn[x].phase
  BY <1>2, Zenon DEF Conn
<1> HIDE DEF new
<1>4. now - new.seen < IdleTimeout /\ new.seen <= now
  BY <1>2, <1>3, LimitAssumption
<1>5. Keeps(x, new, aliases, table, now)
  BY <1>1, <1>2, <1>3, <1>4, Zenon DEF Keeps
<1> QED
  BY <1>1, <1>5, PeerKeeps, Zenon

LEMMA CloseKeep ==
  ASSUME Inv, KeepInv, NEW x \in Conns, Close(x)
  PROVE  KeepInv'
<1> DEFINE new == [conn[x] EXCEPT !.life = "closed"]
<1>1. /\ conn[x].life = "open" /\ conn' = [conn EXCEPT ![x] = new]
      /\ UNCHANGED <<table, aliases, now>>
  BY Zenon DEF Close
<1>2. conn[x] \in Conn /\ Keeps(x, conn[x], aliases, table, now)
  BY Zenon DEF Inv, PeersFine, KeepInv
<1>3. /\ new.via = conn[x].via /\ new.life = "closed" /\ new.at = conn[x].at
      /\ new.tuples = conn[x].tuples /\ new.seen = conn[x].seen /\ new.phase = conn[x].phase
  BY <1>2, Zenon DEF Conn
<1> HIDE DEF new
<1>4. Keeps(x, new, aliases, table, now)
  BY <1>1, <1>2, <1>3, Zenon DEF Keeps
<1> QED
  BY <1>1, <1>4, PeerKeeps, Zenon

\* A connection on one tuple has used up its rebindings when there are none.
LEMMA RebindKeep ==
  ASSUME RoomLaws, MaxRebinds = 0, KeepInv, NEW x \in Conns, NEW c \in Clients, Rebind(x, c)
  PROVE  FALSE
<1>1. conn[x].life = "open" /\ Cardinality(conn[x].tuples) <= 0
  BY Zenon DEF Rebind
<1>2. conn[x].tuples = {conn[x].at}
  BY <1>1, Zenon DEF KeepInv, Keeps
<1>3. Cardinality({conn[x].at}) = 1
  BY Zenon DEF RoomLaws, SingletonLaw
<1> QED
  BY <1>1, <1>2, <1>3

LEMMA TickKeep ==
  ASSUME Inv, KeepInv, Tick
  PROVE  KeepInv'
<1>1. /\ now' = now + pace.step /\ UNCHANGED <<table, aliases>>
      /\ conn' = [x \in Conns |->
           [conn[x] EXCEPT !.lapsed = @ \/ now' - conn[x].seen >= IdleTimeout]]
  BY Zenon DEF Tick
<1>2. now \in Nat /\ pace.step \in Nat
  BY PacesAssumption, Zenon DEF Inv
<1>3. ASSUME NEW x \in Conns PROVE Keeps(x, conn'[x], aliases', table', now')
  <2> DEFINE p == conn[x]
             r == [p EXCEPT !.lapsed = @ \/ now' - p.seen >= IdleTimeout]
  <2>1. p \in Conn /\ Keeps(x, p, aliases, table, now) /\ conn'[x] = r
    BY <1>1, Zenon DEF Inv, PeersFine, KeepInv
  <2>2. /\ r.via = p.via /\ r.life = p.life /\ r.at = p.at /\ r.tuples = p.tuples
        /\ r.seen = p.seen /\ r.phase = p.phase /\ r.dcid = p.dcid /\ p.seen \in Nat
        /\ r.lapsed = (p.lapsed \/ now' - p.seen >= IdleTimeout)
    BY <2>1, Zenon DEF Conn
  <2> HIDE DEF p, r
  <2>3. ~r.lapsed => ~p.lapsed /\ ~(now' - p.seen >= IdleTimeout)
    BY <2>2, Zenon
  <2>4. r.seen <= now' /\ (~(now' - p.seen >= IdleTimeout) => now' - r.seen < IdleTimeout)
    BY <1>1, <1>2, <2>1, <2>2, LimitAssumption DEF Keeps
  <2>5. Held(x, p, aliases, table) => Held(x, r, aliases', table')
    BY <1>1, <2>2, Zenon DEF Held
  <2>6. Keeps(x, r, aliases', table', now')
    BY <2>1, <2>2, <2>3, <2>4, <2>5, Zenon DEF Keeps
  <2> QED
    BY <2>1, <2>6, Zenon
<1> QED
  BY <1>3, Zenon DEF KeepInv

LEMMA KeepInit ==
  ASSUME Init
  PROVE  KeepInv
<1>1. \A x \in Conns : conn[x] = New /\ now = 0
  BY Zenon DEF Init
<1> QED
  BY <1>1 DEF KeepInv, Keeps, New, NoPath

LEMMA KeepStep ==
  ASSUME FlowLaws, RoomLaws, Roomy, 0 < IdleTimeout, MaxRebinds = 0,
         \A old, new \in Configs : BackendsOf(old) \subseteq BackendsOf(new),
         Inv, KeepInv, [Next]_vars
  PROVE  KeepInv'
<1>1. ASSUME NEW x \in Conns, NEW c \in Clients, Connect(x, c) \/ Rebind(x, c) PROVE KeepInv'
  BY <1>1, ConnectKeep, RebindKeep, Zenon
<1>2. ASSUME NEW x \in Conns, Close(x) PROVE KeepInv'
  BY <1>2, CloseKeep, Zenon
<1>3. ASSUME NEW x \in Conns, NEW type \in Types, ClientPacket(x, type) PROVE KeepInv'
  BY <1>3, FastKeep, DropKeep, KnownKeep, FreshKeep, Zenon DEF ClientPacket
<1>4. ASSUME NEW x \in Conns, NEW p \in Slots, BackendPacket(x, p) PROVE KeepInv'
  BY <1>4, LongKeep, ShortKeep, Zenon DEF BackendPacket
<1>5. ASSUME NEW cfg \in Configs, Reload(cfg) PROVE KeepInv'
  <2>1. BackendsOf(config) \subseteq BackendsOf(cfg)
    BY Zenon DEF Inv
  <2> QED
    BY <1>5, <2>1, ReloadKeep, Zenon
<1>6. CASE Sweep \/ Tick
  BY <1>6, SweepKeep, TickKeep, Zenon
<1>7. CASE UNCHANGED vars
  BY <1>7, Zenon DEF vars, KeepInv
<1> QED
  BY <1>1, <1>2, <1>3, <1>4, <1>5, <1>6, <1>7, Zenon DEF Next

-----------------------------------------------------------------------------
(* The laws of the flow table *)

Flows == INSTANCE FlowTableProofs
           WITH MaxTime <- 0, MaxId <- 0, call <- 0

\* The operators of the flow table are those of FlowTableProofs, so the laws
\* proved there hold of them.
LEMMA FlowLawsHold == FlowLaws /\ RoomLaws
<1>1. \A t, c : Flows!SlotOf(t, c) = SlotOf(t, c) /\ Flows!UsedSlots(t) = UsedSlots(t)
  BY Zenon
  DEF Slots, Flows!Slots, NoSlot, Flows!NoSlot, Used, Flows!Used, UsedSlots,
      Flows!UsedSlots, SlotOf, Flows!SlotOf
<1>2. Flows!NoSlot = NoSlot /\ Flows!NoFd = NoFd /\ Flows!Flow = Flow /\ Flows!Empty = Empty
  BY Zenon
  DEF NoSlot, Flows!NoSlot, NoFd, Flows!NoFd, Flow, Flows!Flow, Slots,
      Flows!Slots, Empty, Flows!Empty
<1>3. \A t, extra : Flows!Sound(t, extra) <=> Sound(t, extra)
  BY Zenon
  DEF Flow, Flows!Flow, Tables, Flows!Tables, Slots, Flows!Slots, Used,
      Flows!Used, UsedSlots, Flows!UsedSlots, Freed, Flows!Freed, Stacked,
      Flows!Stacked, Owned, Flows!Owned, Single, Flows!Single, Dated,
      Flows!Dated, Sound, Flows!Sound, Cardinality, Flows!Cardinality
<1>4. \A t, p : Flows!RemoveSlot(t, p) = RemoveSlot(t, p)
  BY Zenon
  DEF RemoveSlot, Flows!RemoveSlot
<1>5. \A t : Flows!EvictOldest(t) = EvictOldest(t)
  BY Zenon
  DEF Slots, Flows!Slots, NoSlot, Flows!NoSlot, Used, Flows!Used, UsedSlots,
      Flows!UsedSlots, Dist, Flows!Dist, RemoveSlot, Flows!RemoveSlot,
      EvictScans, Flows!EvictScans, EvictWindow, Flows!EvictWindow, IsVictim,
      Flows!IsVictim, EvictOldest, Flows!EvictOldest
<1>6. \A t : Flows!SocketFd(t) = SocketFd(t)
  BY Zenon
  DEF SocketFd, Flows!SocketFd, NoFd, Flows!NoFd
<1>7. \A t, c, b, fd, time : Flows!PutInto(t, c, b, fd, time) = PutInto(t, c, b, fd, time)
  BY Zenon
  DEF PutInto, Flows!PutInto
<1>8. \A t, c, b, fd, time : Flows!PutNew(t, c, b, fd, time) = PutNew(t, c, b, fd, time)
  <2> TAKE t, c, b, fd, time
  <2>1. (IF t.free_slots = <<>> THEN Flows!EvictOldest(t) ELSE t) =
        (IF t.free_slots = <<>> THEN EvictOldest(t) ELSE t)
    BY <1>5, Zenon
  <2> QED
    BY <1>7, <2>1, Zenon DEF PutNew, Flows!PutNew
<1>9. \A t : Flows!SocketOpen(t) = SocketOpen(t)
  BY <1>2, <1>5, <1>6, Zenon
  DEF SocketOpen, Flows!SocketOpen
<1>10. \A t, c, b, time : Flows!Open(t, c, b, time) = Open(t, c, b, time)
  BY <1>2, <1>6, <1>8, <1>9, Zenon
  DEF Open, Flows!Open
<1>11. \A t, p, b, time : Flows!Reuse(t, p, b, time) = Reuse(t, p, b, time)
  BY Zenon
  DEF Reuse, Flows!Reuse
<1>12. \A t, c, b, registered, time :
        Flows!Acquired(t, c, b, registered, time) = Acquired(t, c, b, registered, time)
  BY <1>1, <1>2, <1>4, <1>10, <1>11, SMT
  DEF Acquired, Flows!Acquired
<1>13. \A t, p, time : Flows!IdleAt(t, p, time) <=> IdleAt(t, p, time)
  BY Zenon
  DEF IdleAt, Flows!IdleAt, Used, Flows!Used
<1>14. \A t, time : Flows!ExpireAll(t, time) = ExpireAll(t, time)
  BY Zenon
  DEF ExpireAll, Flows!ExpireAll, ExpireOne, Flows!ExpireOne, IdleAt,
      Flows!IdleAt, Used, Flows!Used, RemoveSlot, Flows!RemoveSlot, After,
      Flows!After
<1>15. \A t, doomed : Flows!EvictBackends(t, doomed) = EvictBackends(t, doomed)
  BY Zenon
  DEF EvictBackends, Flows!EvictBackends, Used, Flows!Used, RemoveSlot,
      Flows!RemoveSlot
<1>16. Flows!Roomy <=> Roomy
  BY Zenon
  DEF Roomy, Flows!Roomy, Cardinality, Flows!Cardinality, IsFiniteSet,
      Flows!IsFiniteSet
<1>17. /\ \A t, u, time : Flows!Holds(t, u, time) <=> Holds(t, u, time)
       /\ \A t, u : (Flows!Kept(t, u) <=> Kept(t, u)) /\ (Flows!Opened(t, u) <=> Opened(t, u))
       /\ \A t, u, c, b, time : Flows!Aimed(t, u, c, b, time) <=> Aimed(t, u, c, b, time)
       /\ \A t, c : Flows!Stranger(t, c) <=> Stranger(t, c)
  BY Zenon
  DEF Slots, Flows!Slots, Used, Flows!Used, UsedSlots, Flows!UsedSlots, Kept,
      Flows!Kept, Opened, Flows!Opened, Aimed, Flows!Aimed, Stranger,
      Flows!Stranger, Holds, Flows!Holds
<1>18. Flows!FlowLaws /\ Flows!RoomLaws
  BY <1>2, Flows!FlowLawsTheorem, Flows!RoomLawsTheorem,
     CapacityAssumption, FdsAssumption, UnusedAssumption, LimitAssumption, Zenon
<1>19. SlotLaw
  BY <1>17, <1>18, <1>1, <1>2, Zenon
  DEF Flows!FlowLaws, SlotLaw, Flows!SlotLaw
<1>20. EmptyLaw
  BY <1>17, <1>18, <1>2, <1>3, Zenon
  DEF Flows!FlowLaws, EmptyLaw, Flows!EmptyLaw
<1>21. RefreshLaw
  <2> SUFFICES ASSUME NEW t, NEW f, NEW u,
                      NEW p \in UsedSlots(t), Sound(t, {}), f \in Flow,
                      f.client = t.flows[p].client, f.fd = t.flows[p].fd, f.id = t.flows[p].id,
                      u = [t EXCEPT !.flows = [t.flows EXCEPT ![p] = f]]
               PROVE  Sound(u, {})
    BY Zenon DEF RefreshLaw
  <2>1. p \in Flows!UsedSlots(t) /\ Flows!Sound(t, {}) /\ f \in Flows!Flow
    BY <1>1, <1>2, <1>3, Zenon
  <2>2. Flows!Sound(u, {})
    BY <1>18, <2>1, Zenon DEF Flows!FlowLaws, Flows!RefreshLaw
  <2> QED
    BY <1>3, <2>2, Zenon
<1>22. AcquireLaw
  <2> SUFFICES ASSUME NEW t, NEW c, NEW b, NEW registered, NEW time, NEW u,
                      Sound(t, {}), time \in Nat, c \in Clients, b \in Backends,
                      u = Acquired(t, c, b, registered, time)
               PROVE  /\ Sound(u, {}) /\ Aimed(t, u, c, b, time)
                      /\ \/ Opened(t, u)
                         \/ SlotOf(t, c) # NoSlot /\ u = Reuse(t, SlotOf(t, c), b, time)
    BY SMT, Zenon DEF AcquireLaw
  <2>1. Flows!Sound(t, {}) /\ u = Flows!Acquired(t, c, b, registered, time)
    BY <1>3, <1>12, Zenon
  <2>2. Flows!AcquireLaw
    BY <1>18, Zenon DEF Flows!FlowLaws
  <2>3. /\ Flows!Sound(u, {}) /\ Flows!Aimed(t, u, c, b, time)
        /\ \/ Flows!Opened(t, u)
           \/ Flows!SlotOf(t, c) # Flows!NoSlot /\ u = Flows!Reuse(t, Flows!SlotOf(t, c), b, time)
    BY <2>1, <2>2, SMT DEF Flows!AcquireLaw
  <2> QED
    BY <1>1, <1>2, <1>3, <1>11, <1>17, <2>3, Zenon
<1>23. ExpireLaw
  <2> SUFFICES ASSUME NEW t, NEW time, NEW u,
                      Sound(t, {}), u = ExpireAll(t, time)
               PROVE  /\ Sound(u, {}) /\ Kept(t, u)
                      /\ \A q \in UsedSlots(t) : ~IdleAt(t, q, time) => q \in UsedSlots(u)
    BY Zenon DEF ExpireLaw
  <2>1. Flows!Sound(t, {}) /\ u = Flows!ExpireAll(t, time)
    BY <1>3, <1>14, Zenon
  <2>2. /\ Flows!Sound(u, {}) /\ Flows!Kept(t, u)
        /\ \A q \in Flows!UsedSlots(t) : ~Flows!IdleAt(t, q, time) => q \in Flows!UsedSlots(u)
    BY <1>18, <2>1, Zenon DEF Flows!FlowLaws, Flows!ExpireLaw
  <2> QED
    BY <1>1, <1>3, <1>13, <1>17, <2>2, Zenon
<1>24. EvictLaw
  <2> SUFFICES ASSUME NEW t, NEW doomed, NEW u,
                      Sound(t, {}), u = EvictBackends(t, doomed)
               PROVE  /\ Sound(u, {}) /\ Kept(t, u)
                      /\ \A q \in UsedSlots(u) : u.flows[q].backend \notin doomed
                      /\ \A q \in UsedSlots(t) : t.flows[q].backend \notin doomed =>
                                                   q \in UsedSlots(u) /\ u.flows[q] = t.flows[q]
    BY Zenon DEF EvictLaw
  <2>1. Flows!Sound(t, {}) /\ u = Flows!EvictBackends(t, doomed)
    BY <1>3, <1>15, Zenon
  <2>2. /\ Flows!Sound(u, {}) /\ Flows!Kept(t, u)
        /\ \A q \in Flows!UsedSlots(u) : u.flows[q].backend \notin doomed
        /\ \A q \in Flows!UsedSlots(t) : t.flows[q].backend \notin doomed =>
                                           q \in Flows!UsedSlots(u) /\ u.flows[q] = t.flows[q]
    BY <1>18, <2>1, Zenon DEF Flows!FlowLaws, Flows!EvictLaw
  <2> QED
    BY <1>1, <1>3, <1>17, <2>2, Zenon
<1>25. HoldLaw
  <2> SUFFICES ASSUME NEW t, NEW c, NEW b, NEW registered, NEW time, NEW u,
                      Sound(t, {}), time \in Nat, c \in Clients, b \in Backends,
                      u = Acquired(t, c, b, registered, time),
                      SlotOf(t, c) # NoSlot \/ (t.free_slots # <<>> /\ SocketFd(t) # NoFd)
               PROVE  Holds(t, u, time) /\ (SlotOf(t, c) # NoSlot => SlotOf(u, c) = SlotOf(t, c))
    BY SMT, Zenon DEF HoldLaw
  <2>1. /\ Flows!Sound(t, {}) /\ u = Flows!Acquired(t, c, b, registered, time)
        /\ Flows!SlotOf(t, c) # Flows!NoSlot \/ (t.free_slots # <<>> /\ Flows!SocketFd(t) # Flows!NoFd)
    BY <1>1, <1>2, <1>3, <1>6, <1>12, Zenon
  <2>2. Flows!HoldLaw
    BY <1>18, Zenon DEF Flows!RoomLaws
  <2>3. /\ Flows!Holds(t, u, time)
        /\ Flows!SlotOf(t, c) # Flows!NoSlot => Flows!SlotOf(u, c) = Flows!SlotOf(t, c)
    BY <2>1, <2>2, SMT DEF Flows!HoldLaw
  <2> QED
    BY <1>1, <1>2, <1>17, <2>3, Zenon
<1>26. RoomLaw
  BY <1>17, <1>18, <1>1, <1>2, <1>3, <1>6, <1>16, Zenon
  DEF Flows!RoomLaws, RoomLaw, Flows!RoomLaw
<1>27. SingletonLaw
  BY <1>18, Zenon DEF Flows!RoomLaws, SingletonLaw, Flows!SingletonLaw,
       Cardinality, Flows!Cardinality
<1> QED
  BY <1>19, <1>20, <1>21, <1>22, <1>23, <1>24, <1>25, <1>26, <1>27, Zenon DEF FlowLaws, RoomLaws

-----------------------------------------------------------------------------
(* Theorems *)

\* Inv holds in every state.
LEMMA InvAlways ==
  /\ Init => Inv
  /\ Inv /\ [Next]_vars => Inv'
BY FlowLawsHold, InvInit, InvStep, Zenon

\* Every alias and every flow leads to a backend of the configuration in
\* force, in every state, whatever the clients and the operator do.
THEOREM BackendsConfiguredTheorem == Spec => []BackendsConfigured
<1>1. Inv => BackendsConfigured
  BY Zenon DEF Inv, AliasesFine, AliasFine, FlowsFine, BackendsConfigured, Configured
<1> QED
  BY <1>1, InvAlways, PTL DEF Spec

\* A sweep that refreshes an idle alias of a connection found a flow with
\* traffic on a tuple of that connection: the alias's generation id is not
\* one that a recycled slot can have.
THEOREM NoStrangerKeepsAliasTheorem == Spec => NoStrangerKeepsAlias
<1> DEFINE Kind(x, dcid) == {CidKey(x, dcid), PairKey(x, dcid)}
           Step == \A x \in Conns, dcid \in Dcids : \A k \in {CidKey(x, dcid), PairKey(x, dcid)} :
             /\ aliases'[k] # aliases[k] /\ aliases'[k] # Unused
             /\ ~\E p \in Slots : Active(p) /\ table.flows[p].client \in conn[x].tuples
             => ~Sweep
<1>1. Inv /\ [Next]_vars => [Step]_vars
  <2> SUFFICES ASSUME Inv, Sweep, NEW x \in Conns, NEW dcid \in Dcids, NEW k \in Kind(x, dcid),
                      aliases'[k] # aliases[k], aliases'[k] # Unused
               PROVE  \E p \in Slots : Active(p) /\ table.flows[p].client \in conn[x].tuples
    BY Zenon
  <2>1. k \in Keys /\ k[1] # "tuple" /\ k[2] = x
    BY KeyFacts
  <2> HIDE DEF Kind
  <2>2. /\ aliases \in AliasMaps
        /\ aliases[k] # Unused =>
             aliases[k] \in Alias /\ AliasFine(k, aliases[k], table, config, conn)
    BY <2>1, Zenon DEF Inv, AliasesFine, AliasMaps
  <2>3. IdleAlias(k) /\ Keepalive(k)
    <3>1. PICK j \in Keys :
            /\ IdleAlias(j)
            /\ aliases' = [aliases EXCEPT ![j] =
                 IF Keepalive(j) THEN [aliases[j] EXCEPT !.last_seen = now] ELSE Unused]
      BY Zenon DEF Sweep
    <3>2. j = k
      BY <2>1, <2>2, <3>1, Zenon DEF AliasMaps
    <3> QED
      BY <2>1, <2>2, <3>1, <3>2, Zenon DEF AliasMaps
  <2>4. /\ aliases[k] \in Alias /\ aliases[k].id # 0 /\ Active(aliases[k].slot)
        /\ table.flows[aliases[k].slot].id = aliases[k].id
        /\ Known(table, aliases[k].id, conn[x].tuples)
    BY <2>1, <2>2, <2>3, Zenon DEF IdleAlias, Keepalive, AliasFine
  <2>5. aliases[k].slot \in UsedSlots(table) /\ aliases[k].slot \in Slots
    BY <2>4, Zenon DEF Alias, Active, UsedSlots
  <2>6. table.flows[aliases[k].slot].client \in conn[x].tuples
    BY <2>4, <2>5, Zenon DEF Known
  <2> QED
    BY <2>4, <2>5, <2>6, Zenon
<1> QED
  BY <1>1, InvAlways, PTL DEF Spec, NoStrangerKeepsAlias

\* A connection with traffic within every idle timeout keeps the alias of its
\* server's connection ID, although its packets take the fast path and never
\* look the alias up: the sweep finds the owning flow active.  The flow must be
\* there for that: a slot and a descriptor for every client, no rebinding, and
\* no reload that removes the backend.
THEOREM ActiveKeepsAliasTheorem ==
  ASSUME Roomy, 0 < IdleTimeout, MaxRebinds = 0,
         \A old, new \in Configs : BackendsOf(old) \subseteq BackendsOf(new)
  PROVE  Spec => []ActiveKeepsAlias
<1>1. Inv /\ KeepInv => ActiveKeepsAlias
  BY Zenon DEF KeepInv, Keeps, Held, Owner, ActiveKeepsAlias
<1>2. Init => Inv /\ KeepInv
  BY InvAlways, KeepInit, Zenon
<1>3. Inv /\ KeepInv /\ [Next]_vars => (Inv /\ KeepInv)'
  BY FlowLawsHold, InvAlways, KeepStep, Zenon
<1> QED
  BY <1>1, <1>2, <1>3, PTL DEF Spec

\* Aliases, flows, configuration and connections stay in their types.
THEOREM TypeOKTheorem == Spec => []TypeOK
<1>1. Inv => TypeOK
  BY Zenon DEF Inv, TypeOK, FlowsFine, Sound, AliasesFine, AliasMaps, PeersFine
<1> QED
  BY <1>1, InvAlways, PTL DEF Spec

\* A packet with a connection ID that a server issued reaches that server:
\* handle_client_packet's lookups, tried in any order of arrivals, rebindings,
\* sweeps and reloads, never give another.  A reply after its flow was re-aimed
\* and a reload that removes a backend which issues encoded IDs are left out.
THEOREM IssuerReachedTheorem ==
  ASSUME ~LateReplies, EncodedStay
  PROVE  Spec => []IssuerReached
<1>1. Inv /\ RouteInv => IssuerReached
  BY Zenon DEF RouteInv, PathFine, InPhase, IssuerReached
<1>2. Init => Inv /\ RouteInv
  BY InvAlways, RouteInit, Zenon
<1>3. Inv /\ RouteInv /\ [Next]_vars => (Inv /\ RouteInv)'
  BY FlowLawsHold, InvAlways, RouteStep, Zenon
<1> QED
  BY <1>1, <1>2, <1>3, PTL DEF Spec

\* A packet of the handshake reaches the backend of the connection's own name,
\* or the server of the Retry that it answers, whoever used the tuple before.
THEOREM NameReachedTheorem ==
  ASSUME ~LateReplies, ~EarlyZeroRtt, EncodedStay
  PROVE  Spec => []NameReached
<1>1. NameInv => NameReached
  BY Zenon DEF NameInv, NamePath, NameReached
<1>2. Init => Inv /\ RouteInv /\ NameInv
  BY InvAlways, RouteInit, NameInit, Zenon
<1>3. Inv /\ RouteInv /\ NameInv /\ [Next]_vars => (Inv /\ RouteInv /\ NameInv)'
  BY FlowLawsHold, InvAlways, RouteStep, NameStep, Zenon
<1> QED
  BY <1>1, <1>2, <1>3, PTL DEF Spec
=============================================================================
