------------------------- MODULE DataplaneRouteProofs -------------------------
(***************************************************************************)
(* Where the packets of a connection go, for every number of connections,  *)
(* clients, backends, flow slots and configurations: to the server that    *)
(* issued the connection ID they carry, and before there is one to the     *)
(* backend of the connection's own name.                                   *)
(*                                                                         *)
(* Neither property is inductive.  RouteInv says of every open connection  *)
(* that each thing its next packet may be looked up by leads where its     *)
(* last one went: the aliases of the ID in use, the tuple's alias unless   *)
(* the ID decodes, and the flow that the fast path would take.  A step of  *)
(* another connection disturbs none of them, as no two are at one tuple.   *)
(* NameInv adds where a connection that no server has answered yet has     *)
(* sent.                                                                   *)
(***************************************************************************)
EXTENDS DataplaneInvProofs

\* The limit of a leaf counts the time in which other leaves are prepared.
USE SMTT(30), Zenon

-----------------------------------------------------------------------------
(* Where the packets of a connection lead *)

\* An alias, and the flows of a client, lead to b or are not there; the ID is
\* one that lookup_encoded_cid decodes.
Leads(a, k, b) == a[k] # Unused => a[k].backend = b
FlowsLead(t, c, b) == \A q \in UsedSlots(t) : t.flows[q].client = c => t.flows[q].backend = b
DecodesIn(cfg, dcid) == cfg.encoded /\ dcid \in Backends /\ dcid \in BackendsOf(cfg)

\* No two connections are at a tuple.
Apart(cn) == \A x, y \in Conns :
  cn[x].life = "open" /\ cn[y].life = "open" /\ cn[x].at = cn[y].at => x = y

\* A connection without a forwarded packet is one no server has heard of: the
\* router has no alias of it.
Unsent(x, p, a) ==
  /\ p.life = "new" => p.via = NoPath
  /\ p.via.id = 0 => p.via = NoPath
  /\ p.via = NoPath => /\ p.dcid = Chosen /\ p.phase = "chosen"
                       /\ \A d \in Dcids : /\ a[CidKey(x, d)] = Unused
                                            /\ a[PairKey(x, d)] = Unused

\* The connection ID in use is that of the phase, and after the handshake that
\* of the server the last packet went to.
InPhase(p) ==
  /\ p.via.final => p.phase = "server" /\ p.via.dcid = p.dcid
  /\ p.phase = "chosen" => p.dcid = Chosen
  /\ p.phase # "chosen" => p.dcid \in Backends
  /\ p.phase = "server" => p.via.backend = p.dcid

\* The aliases of the connection ID in use lead where the last packet went, and
\* before the handshake no other ID of a server has a pair alias.
AliasesLead(x, p, a) ==
  /\ Leads(a, CidKey(x, p.dcid), p.via.backend)
  /\ Leads(a, PairKey(x, p.dcid), p.via.backend)
  /\ p.phase # "server" => \A d \in Backends \ {p.dcid} : a[PairKey(x, d)] = Unused

\* The tuple leads there too, unless the connection ID says where to go; and so
\* does the flow that the fast path would take.
PlaceLeads(p, a, t, cfg) ==
  /\ p.via # NoPath => Leads(a, TupleKey(p.at), p.via.backend) \/ DecodesIn(cfg, p.dcid)
  /\ p.phase = "server" /\ ~cfg.encoded => FlowsLead(t, p.at, p.dcid)

PathFine(x, p, a, t, cfg) ==
  /\ Unsent(x, p, a)
  /\ p.life = "open" => InPhase(p) /\ AliasesLead(x, p, a) /\ PlaceLeads(p, a, t, cfg)

RouteInv ==
  /\ Apart(conn)
  /\ \A x \in Conns : PathFine(x, conn[x], aliases, table, config)

\* What becomes of an alias that a step does not write: it leads where it did,
\* or goes.
Fades(a, e, k) == e[k] = Unused \/ (a[k] # Unused /\ e[k].backend = a[k].backend)

LEMMA PathLater ==
  ASSUME NEW x \in Conns, NEW p \in Conn, NEW r \in Conn,
         r.life = p.life \/ r.life = "closed",
         r.at = p.at, r.dcid = p.dcid, r.phase = p.phase, r.via = p.via,
         NEW a, NEW e, NEW t, NEW u, NEW cfg, NEW new,
         PathFine(x, p, a, t, cfg),
         \A d \in Dcids : Fades(a, e, CidKey(x, d)) /\ Fades(a, e, PairKey(x, d)),
         p.life = "open" =>
           /\ Fades(a, e, TupleKey(p.at)) \/ DecodesIn(new, p.dcid)
           /\ FlowsKeep(t, u, p.at),
         DecodesIn(cfg, p.dcid) => DecodesIn(new, p.dcid),
         cfg.encoded => new.encoded
  PROVE  PathFine(x, r, e, u, new)
<1>1. Unsent(x, r, e)
  BY Zenon DEF PathFine, Unsent, Fades
<1>2. ASSUME r.life = "open" PROVE InPhase(r) /\ AliasesLead(x, r, e) /\ PlaceLeads(r, e, u, new)
  <2>1. /\ p.life = "open" /\ p.dcid \in Dcids
        /\ InPhase(p) /\ AliasesLead(x, p, a) /\ PlaceLeads(p, a, t, cfg)
    BY <1>2, Zenon DEF PathFine, Conn
  <2>2. InPhase(r)
    BY <2>1, Zenon DEF InPhase
  <2>3. AliasesLead(x, r, e)
    <3>1. /\ Fades(a, e, CidKey(x, p.dcid)) /\ Fades(a, e, PairKey(x, p.dcid))
          /\ \A d \in Backends : Fades(a, e, PairKey(x, d))
      BY <2>1, Zenon DEF Dcids
    <3> QED
      BY <2>1, <3>1, Zenon DEF AliasesLead, Leads, Fades
  <2>4. r.via # NoPath => Leads(e, TupleKey(r.at), r.via.backend) \/ DecodesIn(new, r.dcid)
    BY <2>1, Zenon DEF PlaceLeads, Leads, Fades
  <2>5. r.phase = "server" /\ ~new.encoded => FlowsLead(u, r.at, r.dcid)
    BY <2>1, Zenon DEF PlaceLeads, FlowsLead, FlowsKeep
  <2> QED
    BY <2>2, <2>3, <2>4, <2>5, Zenon DEF PlaceLeads
<1> QED
  BY <1>1, <1>2, Zenon DEF PathFine

\* A step of one connection leaves the others' paths alone.
LEMMA OneMoves ==
  ASSUME Inv, RouteInv, NEW x \in Conns, NEW new \in Conn,
         conn' = [conn EXCEPT ![x] = new], config' = config,
         \A y \in Conns \ {x} :
           /\ \A d \in Dcids : /\ Fades(aliases, aliases', CidKey(y, d))
                               /\ Fades(aliases, aliases', PairKey(y, d))
           /\ conn[y].life = "open" =>
                /\ Fades(aliases, aliases', TupleKey(conn[y].at))
                /\ FlowsKeep(table, table', conn[y].at)
                /\ new.life = "open" => conn[y].at # new.at,
         PathFine(x, new, aliases', table', config)
  PROVE  RouteInv'
<1>1. /\ conn \in [Conns -> Conn] /\ conn'[x] = new
      /\ \A y \in Conns \ {x} : conn'[y] = conn[y] /\ conn[y] \in Conn
  BY Zenon DEF Inv, PeersFine
<1>2. Apart(conn')
  BY <1>1, Zenon DEF RouteInv, Apart
<1>3. ASSUME NEW y \in Conns \ {x} PROVE PathFine(y, conn'[y], aliases', table', config)
  <2>1. PathFine(y, conn[y], aliases, table, config) /\ conn'[y] = conn[y] /\ conn[y] \in Conn
    BY <1>1, Zenon DEF RouteInv
  <2> QED
    BY <2>1, PathLater, Zenon
<1> QED
  BY <1>1, <1>2, <1>3, Zenon DEF RouteInv

LEMMA AimedLeads ==
  ASSUME NEW t, NEW u, NEW c, NEW b, NEW time, Aimed(t, u, c, b, time)
  PROVE  FlowsLead(u, c, b) /\ \A e : e # c => FlowsKeep(t, u, e)
BY Zenon DEF Aimed, FlowsLead, FlowsKeep

LEMMA KeptKeeps ==
  ASSUME NEW t, NEW u, Kept(t, u)
  PROVE  \A c : FlowsKeep(t, u, c)
BY Zenon DEF Kept, FlowsKeep

\* The path of a connection whose packet went to b.
LEMMA SentPath ==
  ASSUME Inv, RouteInv, NEW x \in Conns, conn[x].life = "open", NEW b, NEW id \in Nat \ {0},
         NEW c, c = conn[x].at, NEW dcid \in Dcids, dcid = conn[x].dcid,
         NEW new \in Conn, new.life = "open", new.at = c, new.dcid = dcid,
         new.phase = conn[x].phase, new.via.backend = b, new.via.id = id,
         new.via.dcid = dcid, new.via.final <=> conn[x].phase = "server",
         NEW e, NEW u, conn[x].phase = "server" => b = dcid,
         Leads(e, CidKey(x, dcid), b), Leads(e, PairKey(x, dcid), b),
         \A d \in Dcids \ {dcid} : Fades(aliases, e, PairKey(x, d)),
         Leads(e, TupleKey(c), b) \/ Decodes(dcid), FlowsLead(u, c, b)
  PROVE  PathFine(x, new, e, u, config)
<1>1. PathFine(x, conn[x], aliases, table, config)
  BY Zenon DEF RouteInv
<1>2. new.via.id # 0 /\ new.via # NoPath
  BY DEF NoPath
<1>3. Unsent(x, new, e)
  BY <1>2, Zenon DEF Unsent
<1>4. InPhase(new)
  BY <1>1, Zenon DEF PathFine, InPhase
<1>5. AliasesLead(x, new, e)
  <2>1. conn[x].phase # "server" => \A d \in Backends \ {dcid} : aliases[PairKey(x, d)] = Unused
    BY <1>1, Zenon DEF PathFine, AliasesLead
  <2>2. \A d \in Backends \ {dcid} : Fades(aliases, e, PairKey(x, d))
    BY Zenon DEF Dcids
  <2>3. new.phase # "server" => \A d \in Backends \ {dcid} : e[PairKey(x, d)] = Unused
    BY <2>1, <2>2, Zenon DEF Fades
  <2> QED
    BY <2>3, Zenon DEF AliasesLead
<1>6. PlaceLeads(new, e, u, config)
  <2>1. Leads(e, TupleKey(c), b) \/ DecodesIn(config, dcid)
    BY Zenon DEF Decodes, DecodesIn, Configured
  <2> QED
    BY <2>1, Zenon DEF PlaceLeads
<1> QED
  BY <1>3, <1>4, <1>5, <1>6, Zenon DEF PathFine

\* What the invariant says of a sender.
LEMMA SenderLeads ==
  ASSUME RouteInv, NEW x \in Conns, conn[x].life = "open", NEW b, b = conn[x].via.backend,
         NEW dcid, dcid = conn[x].dcid
  PROVE  /\ conn[x].phase = "server" => b = dcid /\ conn[x].via # NoPath
         /\ Leads(aliases, CidKey(x, dcid), b) /\ Leads(aliases, PairKey(x, dcid), b)
         /\ dcid \in Dcids /\ (aliases[CidKey(x, dcid)] # Unused \/ aliases[PairKey(x, dcid)] # Unused)
              => conn[x].via # NoPath
         /\ conn[x].via # NoPath => Leads(aliases, TupleKey(conn[x].at), b) \/ Decodes(dcid)
         /\ conn[x].phase = "server" /\ ~config.encoded => FlowsLead(table, conn[x].at, dcid)
         /\ \A y \in Conns \ {x} : conn[y].life = "open" => conn[y].at # conn[x].at
<1>1. PathFine(x, conn[x], aliases, table, config) /\ Apart(conn)
  BY Zenon DEF RouteInv
<1>2. /\ Unsent(x, conn[x], aliases) /\ InPhase(conn[x])
      /\ AliasesLead(x, conn[x], aliases) /\ PlaceLeads(conn[x], aliases, table, config)
  BY <1>1, Zenon DEF PathFine
<1>3. conn[x].phase = "server" => conn[x].via # NoPath
  BY <1>2, Zenon DEF Unsent
<1>4. dcid \in Dcids /\ (aliases[CidKey(x, dcid)] # Unused \/ aliases[PairKey(x, dcid)] # Unused)
        => conn[x].via # NoPath
  BY <1>2, Zenon DEF Unsent
<1>5. \A y \in Conns \ {x} : conn[y].life = "open" => conn[y].at # conn[x].at
  BY <1>1, Zenon DEF Apart
<1>6. conn[x].via # NoPath => Leads(aliases, TupleKey(conn[x].at), b) \/ Decodes(dcid)
  BY <1>2, Zenon DEF PlaceLeads, Decodes, DecodesIn, Configured
<1> QED
  BY <1>2, <1>3, <1>4, <1>5, <1>6, Zenon DEF InPhase, AliasesLead, PlaceLeads

\* Where a session that is found leads, and what the tuple does then.
LEMMA FoundLeads ==
  ASSUME Inv, RouteInv, NEW x \in Conns, NEW type, Sends(x, type),
         NEW found, found = Lookup(x, type), found.key # NoKey,
         NEW c, c = conn[x].at, NEW dcid, dcid = conn[x].dcid,
         NEW b, b = found.a[found.key].backend,
         NEW e, e = Touched(found.a, found.key, now)
  PROVE  /\ e \in AliasMaps
         /\ conn[x].phase = "server" => b = dcid
         /\ Leads(e, TupleKey(c), b) \/ Decodes(dcid)
         /\ conn[x].via # NoPath => Leads(e, TupleKey(c), conn[x].via.backend) \/ Decodes(dcid)
         /\ conn[x].via # NoPath => b = conn[x].via.backend \/ b = dcid
         /\ type = "initial" => conn[x].via # NoPath
         /\ \A k \in Keys : k # TupleKey(c) =>
              e[k] = aliases[k] \/ (aliases[k] # Unused /\ e[k].backend = aliases[k].backend
                                    /\ k \in {CidKey(x, dcid), PairKey(x, dcid)})
<1> DEFINE tuple == TupleKey(c)
           cid == CidKey(x, dcid)
           pair == PairKey(x, dcid)
           v == conn[x].via.backend
<1>1. c \in Clients /\ dcid \in Dcids /\ now \in Nat /\ conn[x].life = "open"
  BY SenderFacts, Zenon DEF Sends
<1>2. /\ tuple \in Keys /\ cid \in Keys /\ pair \in Keys /\ tuple # cid /\ tuple # pair
  BY <1>1, KeyFacts, KeysDiffer
<1>3. /\ found.a \in AliasMaps /\ found.key \in Keys /\ found.a[found.key] \in Alias
  <2>1. /\ AliasesFine(found.a, table, config, conn)
        /\ found.key \in Keys /\ found.a[found.key] \in Alias
    BY ONLY <1>1, Inv, x \in Conns, c = conn[x].at, found = Lookup(x, type), found.key # NoKey,
            LookupFine, Zenon
  <2> QED
    BY ONLY <2>1, Zenon DEF AliasesFine
<1>4. /\ e \in AliasMaps /\ e[found.key].backend = b
      /\ \A k \in Keys : k # found.key => e[k] = found.a[k]
  <2> DEFINE A == found.a
             K == found.key
  <2>1. /\ A \in AliasMaps /\ K \in Keys /\ A[K] \in Alias /\ now \in Nat
        /\ e = Touched(A, K, now) /\ b = A[K].backend
    BY <1>1, <1>3, Zenon
  <2> HIDE DEF A, K
  <2>2. e \in AliasMaps /\ e[K].backend = b /\ \A k \in Keys : k # K => e[k] = A[k]
    BY ONLY <2>1, TouchChanges, Zenon
  <2> QED
    BY <2>2, Zenon DEF A, K
<1>5. /\ \A k \in Keys : k # tuple => found.a[k] = aliases[k]
      /\ type = "initial" => /\ found.a[tuple] = aliases[tuple] \/ Decodes(dcid)
                             /\ found.key \in {pair, cid} /\ aliases[found.key] # Unused
      /\ type # "initial" =>
           /\ found.key = tuple
           /\ \/ Decodes(dcid) /\ found.a[tuple].backend = dcid
              \/ ~Decodes(dcid) /\ aliases[tuple] # Unused /\ found.a = aliases
              \/ /\ ~Decodes(dcid) /\ aliases[cid] # Unused
                 /\ found.a[tuple].backend = aliases[cid].backend
  <2>1. c \in Clients /\ c = conn[x].at /\ dcid = conn[x].dcid /\ found = Lookup(x, type)
        /\ found.key # NoKey
    BY <1>1, Zenon
  <2> QED
    BY ONLY Inv, x \in Conns, <2>1, LookupLeads, SMTT(30), Zenon
<1>6. /\ conn[x].phase = "server" => v = dcid /\ conn[x].via # NoPath
      /\ Leads(aliases, cid, v) /\ Leads(aliases, pair, v)
      /\ aliases[cid] # Unused \/ aliases[pair] # Unused => conn[x].via # NoPath
      /\ conn[x].via # NoPath => Leads(aliases, tuple, v) \/ Decodes(dcid)
  BY <1>1, SenderLeads, Zenon
<1> HIDE DEF tuple, cid, pair, v
<1>7. CASE type = "initial"
  <2>1. /\ found.key \in {pair, cid} /\ found.a[found.key] = aliases[found.key]
        /\ aliases[found.key] # Unused
    BY <1>2, <1>3, <1>5, <1>7, Zenon
  <2>2. b = v /\ conn[x].via # NoPath
    BY <1>6, <2>1, Zenon DEF Leads
  <2>3. e[tuple] = found.a[tuple] /\ (found.a[tuple] = aliases[tuple] \/ Decodes(dcid))
    BY <1>2, <1>4, <1>5, <1>7, Zenon
  <2>4. Leads(e, tuple, b) \/ Decodes(dcid)
    BY <1>6, <2>2, <2>3, Zenon DEF Leads
  <2>5. \A k \in Keys : k # tuple =>
          e[k] = aliases[k] \/ (aliases[k] # Unused /\ e[k].backend = aliases[k].backend
                                /\ k \in {cid, pair})
    BY <1>4, <1>5, <2>1, Zenon
  <2> QED
    BY <1>4, <1>6, <1>7, <2>2, <2>4, <2>5, Zenon DEF tuple, cid, pair, v
<1>8. CASE type # "initial"
  <2>1. found.key = tuple /\ e[tuple].backend = b /\ b = found.a[tuple].backend
    BY <1>4, <1>5, <1>8, Zenon
  <2>2. \A k \in Keys : k # tuple => e[k] = aliases[k]
    BY <1>4, <1>5, <2>1, Zenon
  <2>3. Leads(e, tuple, b)
    BY <2>1, Zenon DEF Leads
  <2>4. \/ Decodes(dcid) /\ b = dcid
        \/ ~Decodes(dcid) /\ aliases[tuple] # Unused /\ b = aliases[tuple].backend
        \/ ~Decodes(dcid) /\ aliases[cid] # Unused /\ b = aliases[cid].backend
    BY <1>5, <1>8, <2>1, Zenon
  <2>5. conn[x].via # NoPath => b = v \/ (Decodes(dcid) /\ b = dcid)
    BY <1>6, <2>4, Zenon DEF Leads
  <2>6. conn[x].phase = "server" => b = dcid
    BY <1>6, <2>4, Zenon DEF Leads
  <2> QED
    BY <1>4, <1>8, <2>2, <2>3, <2>5, <2>6, Zenon DEF tuple, cid, pair, v
<1> QED
  BY <1>7, <1>8, Zenon

\* What FoundLeads says of the backend of the alias alone.
LEMMA FoundBackend ==
  ASSUME Inv, RouteInv, NEW x \in Conns, NEW type, Sends(x, type),
         NEW found, found = Lookup(x, type), found.key # NoKey
  PROVE  LET b == found.a[found.key].backend
         IN /\ conn[x].phase = "server" => b = conn[x].dcid
            /\ conn[x].via # NoPath => b = conn[x].via.backend \/ b = conn[x].dcid
            /\ type = "initial" => conn[x].via # NoPath
BY FoundLeads

LEMMA PacketMoves ==
  ASSUME Inv, RouteInv, NEW x \in Conns, conn[x].life = "open", NEW c \in Clients,
         c = conn[x].at, NEW new \in Conn, new.at = c,
         conn' = [conn EXCEPT ![x] = new], config' = config,
         \A k \in Keys : \/ k = TupleKey(c) \/ (k[1] # "tuple" /\ k[2] = x)
                         \/ aliases'[k] = aliases[k],
         \A e : e # c => FlowsKeep(table, table', e),
         PathFine(x, new, aliases', table', config)
  PROVE  RouteInv'
<1>1. ASSUME NEW y \in Conns \ {x}, NEW d \in Dcids
      PROVE  /\ aliases'[CidKey(y, d)] = aliases[CidKey(y, d)]
             /\ aliases'[PairKey(y, d)] = aliases[PairKey(y, d)]
  BY KeyFacts, KeysDiffer, Zenon
<1>2. ASSUME NEW y \in Conns \ {x}, conn[y].life = "open"
      PROVE  /\ conn[y].at # c /\ conn[y].at \in Clients
             /\ aliases'[TupleKey(conn[y].at)] = aliases[TupleKey(conn[y].at)]
  <2>1. conn[y].at # c
    BY <1>2, Zenon DEF RouteInv, Apart
  <2>2. conn[y].at \in Clients
    BY <1>2, Zenon DEF Inv, PeersFine, PeerFine, Conn
  <2> QED
    BY <2>1, <2>2, KeyFacts, KeysDiffer, Zenon
<1>3. \A k : aliases'[k] = aliases[k] => Fades(aliases, aliases', k)
  BY Zenon DEF Fades
<1> QED
  BY <1>1, <1>2, <1>3, OneMoves, Zenon

LEMMA DropRoute ==
  ASSUME Inv, RouteInv, NEW x \in Conns, NEW type, DropPacket(x, type)
  PROVE  RouteInv'
<1> DEFINE found == Lookup(x, type)
           c == conn[x].at
           dcid == conn[x].dcid
<1>1. /\ Sends(x, type) /\ found.key = NoKey /\ aliases' = found.a
      /\ UNCHANGED <<table, config, conn, now, pace>>
  BY Zenon DEF DropPacket
<1>2. /\ c \in Clients /\ dcid \in Dcids /\ conn[x].life = "open" /\ conn \in [Conns -> Conn]
  BY <1>1, SenderFacts, Zenon DEF Sends, PeersFine
<1>3. /\ \A k \in Keys : k # TupleKey(c) => aliases'[k] = aliases[k]
      /\ aliases'[TupleKey(c)] = aliases[TupleKey(c)] \/ Decodes(dcid)
  BY <1>1, <1>2, LookupLeads
<1> HIDE DEF found
<1>4. PathFine(x, conn[x], aliases', table, config)
  <2>1. PathFine(x, conn[x], aliases, table, config)
    BY Zenon DEF RouteInv
  <2>2. \A d \in Dcids : /\ Fades(aliases, aliases', CidKey(x, d))
                         /\ Fades(aliases, aliases', PairKey(x, d))
    BY <1>2, <1>3, KeyFacts, KeysDiffer DEF Fades
  <2>3. Fades(aliases, aliases', TupleKey(c)) \/ DecodesIn(config, dcid)
    BY <1>3, Zenon DEF Fades, Decodes, DecodesIn, Configured
  <2>4. FlowsKeep(table, table, c)
    BY Zenon DEF FlowsKeep
  <2> QED
    BY <1>2, <2>1, <2>2, <2>3, <2>4, PathLater, Zenon
<1>5. conn' = [conn EXCEPT ![x] = conn[x]] /\ conn[x] \in Conn
  BY <1>1, <1>2, Zenon
<1>6. \A e : FlowsKeep(table, table', e)
  BY <1>1, Zenon DEF FlowsKeep
<1> QED
  BY <1>1, <1>2, <1>3, <1>4, <1>5, <1>6, PacketMoves, Zenon

LEMMA FastRoute ==
  ASSUME FlowLaws, Inv, RouteInv, NEW x \in Conns, NEW type, FastPath(x, type)
  PROVE  RouteInv'
<1> DEFINE c == conn[x].at
           dcid == conn[x].dcid
           p == SlotOf(table, c)
           f == table.flows[p]
<1>1. /\ Sends(x, type) /\ type = "short" /\ ~config.encoded /\ p # NoSlot
      /\ table' = [table EXCEPT !.flows[p].last_seen = now]
      /\ conn' = Forwarded(x, f.backend, f.id)
      /\ UNCHANGED <<aliases, config, now, pace>>
  BY Zenon DEF FastPath, Fast
<1>2. /\ c \in Clients /\ dcid \in Dcids /\ now \in Nat /\ FlowsFine(table, config)
      /\ conn[x].life = "open" /\ conn[x].phase = "server" /\ conn \in [Conns -> Conn]
  BY <1>1, SenderFacts, Zenon DEF Sends, PeersFine
<1>3. p \in UsedSlots(table) /\ f.client = c
  BY <1>1, Zenon DEF FlowLaws, SlotLaw
<1>4. f \in Flow /\ f.id # 0
  <2>1. table.flows \in [Slots -> Flow \cup {Unused}]
    BY <1>2, Zenon DEF FlowsFine, Sound, Tables
  <2> QED
    BY <1>2, <1>3, <2>1, Zenon DEF UsedSlots, Used, FlowsFine
<1>5. /\ conn[x].via.backend = dcid /\ conn[x].via # NoPath
      /\ Leads(aliases, CidKey(x, dcid), dcid) /\ Leads(aliases, PairKey(x, dcid), dcid)
      /\ Leads(aliases, TupleKey(c), dcid) \/ Decodes(dcid)
      /\ FlowsLead(table, c, dcid)
  BY <1>1, <1>2, SenderLeads, Zenon
<1>6. f.backend = dcid
  BY <1>3, <1>5, Zenon DEF FlowsLead
<1>7. \A e : FlowsKeep(table, table', e)
  <2> HIDE DEF p
  <2> QED
    BY <1>1, <1>2, <1>3, RefreshKeeps, Zenon
<1>8. FlowsLead(table', c, dcid)
  BY <1>5, <1>7, Zenon DEF FlowsLead, FlowsKeep
<1>9. f.id \in Nat \ {0} /\ f.backend \in Backends
  BY <1>4, Zenon DEF Flow
<1>10. PICK new \in Conn :
         /\ conn' = [conn EXCEPT ![x] = new]
         /\ new.life = "open" /\ new.at = c /\ new.dcid = dcid /\ new.phase = conn[x].phase
         /\ new.via.backend = f.backend /\ new.via.id = f.id /\ new.via.dcid = dcid
         /\ new.via.final <=> conn[x].phase = "server"
  <2> DEFINE b == f.backend
             id == f.id
  <2>1. /\ conn \in [Conns -> Conn] /\ now \in Nat /\ x \in Conns /\ b \in Backends /\ id \in Nat
        /\ conn' = Forwarded(x, b, id) /\ conn[x].life = "open"
    BY <1>1, <1>2, <1>9, Zenon
  <2> HIDE DEF b, id
  <2>2. \E new \in Conn :
         /\ conn' = [conn EXCEPT ![x] = new]
         /\ new.life = "open" /\ new.at = c /\ new.dcid = dcid /\ new.phase = conn[x].phase
         /\ new.via.backend = b /\ new.via.id = id /\ new.via.dcid = dcid
         /\ new.via.final <=> conn[x].phase = "server"
    <3>1. PICK sent \in Conn : SentBy(x, b, id, sent)
      BY ONLY <2>1, ForwardedSent, Zenon
    <3> QED
      BY ONLY <2>1, <3>1, Zenon DEF SentBy
  <2> QED
    BY <2>2, Zenon DEF b, id
<1>11. \A d \in Dcids : Fades(aliases, aliases', PairKey(x, d))
  BY <1>1, Zenon DEF Fades
<1> HIDE DEF c, dcid, f, p
<1>12. PathFine(x, new, aliases', table', config)
  BY <1>1, <1>2, <1>5, <1>6, <1>8, <1>9, <1>10, <1>11, SentPath, Zenon DEF c, dcid
<1> QED
  BY <1>1, <1>2, <1>7, <1>10, <1>12, PacketMoves, Zenon DEF c

LEMMA KnownRoute ==
  ASSUME FlowLaws, Inv, RouteInv, NEW x \in Conns, NEW type, NEW registered,
         KnownSession(x, type, registered)
  PROVE  RouteInv'
<1> DEFINE found == Lookup(x, type)
           c == conn[x].at
           dcid == conn[x].dcid
           b == found.a[found.key].backend
           e == [found.a EXCEPT ![found.key].last_seen = now]
           p == SlotOf(table', c)
           id == table'.flows[p].id
           tuple == TupleKey(c)
           cid == CidKey(x, dcid)
           pair == PairKey(x, dcid)
<1>1. /\ Sends(x, type) /\ found.key # NoKey
      /\ table' = Acquired(table, c, b, registered, now)
      /\ aliases' = IF p = NoSlot \/ type = "short" THEN e ELSE Learn(e, x, dcid, b, p, id)
      /\ conn' = IF p = NoSlot THEN conn ELSE Forwarded(x, b, id)
      /\ UNCHANGED <<config, now, pace>>
  BY Zenon DEF KnownSession
<1>2. /\ c \in Clients /\ dcid \in Dcids /\ now \in Nat /\ BackendsOf(config) \subseteq Backends
      /\ FlowsFine(table, config) /\ conn[x].life = "open" /\ conn \in [Conns -> Conn]
      /\ type = "short" => conn[x].phase = "server"
  BY <1>1, SenderFacts, Zenon DEF Sends, PeersFine
<1>3. b \in BackendsOf(config) /\ b \in Backends
  BY <1>1, <1>2, LookupFine, Zenon DEF AliasFine
<1>4. /\ e \in AliasMaps
      /\ conn[x].phase = "server" => b = dcid
      /\ Leads(e, tuple, b) \/ Decodes(dcid)
      /\ conn[x].via # NoPath => Leads(e, tuple, conn[x].via.backend) \/ Decodes(dcid)
      /\ \A k \in Keys : k # tuple =>
           e[k] = aliases[k] \/ (aliases[k] # Unused /\ e[k].backend = aliases[k].backend
                                 /\ k \in {cid, pair})
  <2>1. /\ Sends(x, type) /\ found = Lookup(x, type) /\ found.key # NoKey
        /\ c = conn[x].at /\ dcid = conn[x].dcid /\ b = found.a[found.key].backend
        /\ e = Touched(found.a, found.key, now)
        /\ tuple = TupleKey(c) /\ cid = CidKey(x, dcid) /\ pair = PairKey(x, dcid)
    BY <1>1, Zenon DEF Touched
  <2> HIDE DEF found, c, dcid, b, e, tuple, cid, pair
  <2> QED
    BY ONLY Inv, RouteInv, x \in Conns, <2>1, FoundLeads, SMTT(30), Zenon
<1> HIDE DEF found, e, b
<1>5. /\ FlowsLead(table', c, b) /\ \A g : g # c => FlowsKeep(table, table', g)
      /\ p # NoSlot => p \in Slots /\ id \in Nat \ {0}
  <2>1. Aimed(table, table', c, b, now)
    BY <1>1, <1>2, <1>3, Zenon DEF FlowLaws, AcquireLaw, FlowsFine
  <2>2. p # NoSlot => p \in Slots /\ id \in Nat \ {0}
    BY <1>1, <1>2, <1>3, AcquireFollows, Zenon
  <2> QED
    BY <2>1, <2>2, AimedLeads
<1>6. /\ tuple \in Keys /\ cid \in Keys /\ pair \in Keys
      /\ tuple # cid /\ tuple # pair
      /\ \A k \in {cid, pair} : k[1] # "tuple" /\ k[2] = x
  BY <1>2, KeyFacts, KeysDiffer
<1>7. \A k \in Keys : k # tuple => Fades(aliases, e, k)
  BY <1>4, Zenon DEF Fades
<1>8. \A d \in Dcids : /\ CidKey(x, d) \in Keys /\ PairKey(x, d) \in Keys
                       /\ CidKey(x, d) # tuple /\ PairKey(x, d) # tuple
                       /\ d # dcid => PairKey(x, d) \notin {cid, pair}
  BY <1>2, KeyFacts, KeysDiffer
<1> HIDE DEF p, id
<1>9. /\ Leads(aliases, cid, conn[x].via.backend) /\ Leads(aliases, pair, conn[x].via.backend)
      /\ conn[x].phase = "server" => conn[x].via.backend = dcid
  BY <1>2, SenderLeads, Zenon
<1>10. CASE p = NoSlot
  <2>1. aliases' = e /\ conn' = [conn EXCEPT ![x] = conn[x]] /\ conn[x] \in Conn
    BY <1>1, <1>2, <1>10, Zenon
  <2>2. PathFine(x, conn[x], aliases, table, config)
    BY Zenon DEF RouteInv
  <2>3. Unsent(x, conn[x], e)
    BY <1>7, <1>8, <2>2, Zenon DEF PathFine, Unsent, Fades
  <2>4. InPhase(conn[x])
    BY <1>2, <2>2, Zenon DEF PathFine
  <2>5. AliasesLead(x, conn[x], e)
    <3>1. \A d \in Backends \ {dcid} : Fades(aliases, e, PairKey(x, d))
      BY <1>7, <1>8, Zenon DEF Dcids
    <3>2. conn[x].phase # "server" =>
            \A d \in Backends \ {dcid} : e[PairKey(x, d)] = Unused
      BY <1>2, <2>2, <3>1, Zenon DEF PathFine, AliasesLead, Fades
    <3>3. Fades(aliases, e, cid) /\ Fades(aliases, e, pair)
      BY <1>6, <1>7, Zenon
    <3>4. Leads(e, cid, conn[x].via.backend) /\ Leads(e, pair, conn[x].via.backend)
      BY <1>9, <3>3, Zenon DEF Leads, Fades
    <3> QED
      BY <3>2, <3>4, Zenon DEF AliasesLead
  <2>6. PlaceLeads(conn[x], e, table', config)
    <3>1. conn[x].via # NoPath =>
            Leads(e, tuple, conn[x].via.backend) \/ DecodesIn(config, dcid)
      BY <1>4, Zenon DEF Decodes, DecodesIn, Configured
    <3>2. conn[x].phase = "server" => FlowsLead(table', c, dcid)
      BY <1>4, <1>5, Zenon
    <3> QED
      BY <3>1, <3>2, Zenon DEF PlaceLeads
  <2>7. PathFine(x, conn[x], aliases', table', config)
    BY <2>1, <2>3, <2>4, <2>5, <2>6, Zenon DEF PathFine
  <2>8. \A k \in Keys : \/ k = tuple \/ (k[1] # "tuple" /\ k[2] = x)
                        \/ aliases'[k] = aliases[k]
    BY <1>4, <1>6, <2>1, Zenon
  <2> QED
    BY <1>1, <1>2, <1>5, <2>1, <2>7, <2>8, PacketMoves, Zenon
<1>11. CASE p # NoSlot
  <2>1. id \in Nat \ {0} /\ p \in Slots
    BY <1>5, <1>11, Zenon
  <2>2. PICK new \in Conn :
         /\ conn' = [conn EXCEPT ![x] = new]
         /\ new.life = "open" /\ new.at = c /\ new.dcid = dcid /\ new.phase = conn[x].phase
         /\ new.via.backend = b /\ new.via.id = id /\ new.via.dcid = dcid
         /\ new.via.final <=> conn[x].phase = "server"
    <3>1. /\ conn \in [Conns -> Conn] /\ now \in Nat /\ x \in Conns /\ b \in Backends /\ id \in Nat
          /\ conn' = Forwarded(x, b, id) /\ conn[x].life = "open"
      BY <1>1, <1>2, <1>3, <1>11, <2>1, Zenon
    <3> QED
      <4>1. PICK last \in Conn : SentBy(x, b, id, last)
        BY ONLY <3>1, ForwardedSent, Zenon
      <4> QED
        BY ONLY <3>1, <4>1, Zenon DEF SentBy
  <2>3. /\ \A k \in Keys : k \notin {cid, pair} => aliases'[k] = e[k]
        /\ Leads(aliases', cid, b) /\ Leads(aliases', pair, b)
    <3>1. CASE type = "short"
      <4>1. aliases' = e /\ conn[x].via.backend = b
        BY <1>1, <1>2, <1>4, <1>9, <3>1, Zenon
      <4>2. Fades(aliases, e, cid) /\ Fades(aliases, e, pair)
        BY <1>6, <1>7, Zenon
      <4> QED
        BY <1>9, <4>1, <4>2, Zenon DEF Leads, Fades
    <3>2. CASE type # "short"
      <4>1. aliases' = Learn(e, x, dcid, b, p, id)
        BY <1>1, <1>11, <3>2, Zenon
      <4> QED
        <5>1. /\ e \in AliasMaps /\ dcid \in Dcids /\ b \in Backends /\ now \in Nat
              /\ cid = CidKey(x, dcid) /\ pair = PairKey(x, dcid)
          BY <1>2, <1>3, <1>4, Zenon
        <5> HIDE DEF c, dcid, tuple, cid, pair
        <5> QED
          BY ONLY x \in Conns, <2>1, <4>1, <5>1, LearnChanges, SMTT(30), Zenon DEF Leads
    <3> QED
      BY <3>1, <3>2, Zenon
  <2>4. \A d \in Dcids \ {dcid} : Fades(aliases, aliases', PairKey(x, d))
    BY <1>7, <1>8, <2>3, Zenon DEF Fades
  <2>5. Leads(aliases', tuple, b) \/ Decodes(dcid)
    BY <1>4, <1>6, <2>3, Zenon DEF Leads
  <2>6. PathFine(x, new, aliases', table', config)
    BY <1>2, <1>4, <1>5, <2>1, <2>2, <2>3, <2>4, <2>5, SentPath, Zenon
  <2>7. \A k \in Keys : \/ k = tuple \/ (k[1] # "tuple" /\ k[2] = x)
                        \/ aliases'[k] = aliases[k]
    BY <1>4, <1>6, <2>3, Zenon
  <2> QED
    BY <1>1, <1>2, <1>5, <2>2, <2>6, <2>7, PacketMoves, Zenon
<1> QED
  BY <1>10, <1>11, Zenon

LEMMA FreshRoute ==
  ASSUME FlowLaws, Inv, RouteInv, NEW x \in Conns, NEW type, NEW registered,
         FreshInitial(x, type, registered)
  PROVE  RouteInv'
<1> DEFINE found == Lookup(x, type)
           c == conn[x].at
           dcid == conn[x].dcid
           b == config.routes[NameOf[x]]
           p == SlotOf(table', c)
           id == table'.flows[p].id
           tuple == TupleKey(c)
           cid == CidKey(x, dcid)
           pair == PairKey(x, dcid)
           put == Put(found.a, tuple, b, p, id)
<1>1. /\ Sends(x, type) /\ found.key = NoKey /\ conn[x].phase # "server" /\ b # Unused
      /\ table' = Acquired(table, c, b, registered, now)
      /\ aliases' = IF p = NoSlot THEN found.a ELSE Learn(put, x, dcid, b, p, id)
      /\ conn' = IF p = NoSlot THEN conn ELSE [Forwarded(x, b, id) EXCEPT ![x].home = b]
      /\ UNCHANGED <<config, now, pace>>
  BY Zenon DEF FreshInitial, Routable
<1>2. /\ c \in Clients /\ dcid \in Dcids /\ now \in Nat /\ BackendsOf(config) \subseteq Backends
      /\ FlowsFine(table, config) /\ conn[x].life = "open" /\ conn \in [Conns -> Conn]
  BY <1>1, SenderFacts, Zenon DEF Sends, PeersFine
<1>3. b \in BackendsOf(config) /\ b \in Backends
  BY <1>1, <1>2, RoutesLead, Zenon DEF Inv
<1>4. /\ found.a \in AliasMaps
      /\ \A k \in Keys : k # tuple => found.a[k] = aliases[k]
      /\ found.a[tuple] = aliases[tuple] \/ Decodes(dcid)
  <2>1. /\ found = Lookup(x, type) /\ found.key = NoKey
        /\ c \in Clients /\ c = conn[x].at /\ dcid = conn[x].dcid /\ tuple = TupleKey(c)
    BY <1>1, <1>2, Zenon
  <2> HIDE DEF found, c, dcid, tuple
  <2>2. AliasesFine(found.a, table, config, conn)
    BY ONLY Inv, x \in Conns, <2>1, LookupFine, Zenon
  <2>3. found.a \in AliasMaps
    BY ONLY <2>2, Zenon DEF AliasesFine
  <2> QED
    BY ONLY Inv, x \in Conns, <2>1, <2>3, LookupLeads, SMTT(30), Zenon
<1> HIDE DEF found, b
<1>5. /\ FlowsLead(table', c, b) /\ \A g : g # c => FlowsKeep(table, table', g)
      /\ p # NoSlot => p \in Slots /\ id \in Nat \ {0}
  <2>1. Aimed(table, table', c, b, now)
    BY <1>1, <1>2, <1>3, Zenon DEF FlowLaws, AcquireLaw, FlowsFine
  <2>2. p # NoSlot => p \in Slots /\ id \in Nat \ {0}
    BY <1>1, <1>2, <1>3, AcquireFollows, Zenon
  <2> QED
    BY <2>1, <2>2, AimedLeads
<1>6. /\ tuple \in Keys /\ cid \in Keys /\ pair \in Keys
      /\ tuple # cid /\ tuple # pair
      /\ \A k \in {cid, pair} : k[1] # "tuple" /\ k[2] = x
  BY <1>2, KeyFacts, KeysDiffer
<1>8. \A d \in Dcids : /\ CidKey(x, d) \in Keys /\ PairKey(x, d) \in Keys
                       /\ CidKey(x, d) # tuple /\ PairKey(x, d) # tuple
                       /\ d # dcid => PairKey(x, d) \notin {cid, pair}
  BY <1>2, KeyFacts, KeysDiffer
<1> HIDE DEF p, id
<1>10. CASE p = NoSlot
  <2>1. aliases' = found.a /\ conn' = [conn EXCEPT ![x] = conn[x]] /\ conn[x] \in Conn
    BY <1>1, <1>2, <1>10, Zenon
  <2>2. PathFine(x, conn[x], aliases', table', config)
    <3>1. PathFine(x, conn[x], aliases, table, config)
      BY Zenon DEF RouteInv
    <3>2. \A d \in Dcids : /\ Fades(aliases, aliases', CidKey(x, d))
                           /\ Fades(aliases, aliases', PairKey(x, d))
      BY <1>4, <1>8, <2>1, Zenon DEF Fades
    <3>3. Fades(aliases, aliases', tuple) \/ DecodesIn(config, dcid)
      BY <1>4, <2>1, Zenon DEF Fades, Decodes, DecodesIn, Configured
    <3>4. PathFine(x, conn[x], aliases', table, config)
      <4>1. FlowsKeep(table, table, c)
        BY Zenon DEF FlowsKeep
      <4> QED
        BY <2>1, <3>1, <3>2, <3>3, <4>1, PathLater, Zenon
    <3> QED
      BY <1>1, <3>4, Zenon DEF PathFine, PlaceLeads
  <2>3. \A k \in Keys : \/ k = tuple \/ (k[1] # "tuple" /\ k[2] = x)
                        \/ aliases'[k] = aliases[k]
    BY <1>4, <2>1, Zenon
  <2> QED
    BY <1>1, <1>2, <1>5, <2>1, <2>2, <2>3, PacketMoves, Zenon
<1>11. CASE p # NoSlot
  <2>1. id \in Nat \ {0} /\ p \in Slots
    BY <1>5, <1>11, Zenon
  <2>2. PICK sent \in Conn :
         /\ Forwarded(x, b, id) = [conn EXCEPT ![x] = sent]
         /\ sent.life = "open" /\ sent.at = c /\ sent.dcid = dcid /\ sent.phase = conn[x].phase
         /\ sent.via.backend = b /\ sent.via.id = id /\ sent.via.dcid = dcid
         /\ sent.via.final <=> conn[x].phase = "server"
    <3>1. /\ conn \in [Conns -> Conn] /\ now \in Nat /\ x \in Conns /\ b \in Backends /\ id \in Nat
          /\ conn[x].life = "open"
      BY <1>2, <1>3, <2>1, Zenon
    <3> QED
      <4>1. PICK last \in Conn : SentBy(x, b, id, last)
        BY ONLY <3>1, ForwardedSent, Zenon
      <4> QED
        BY ONLY <3>1, <4>1, Zenon DEF SentBy
  <2> DEFINE new == [sent EXCEPT !.home = b]
  <2>3. /\ new \in Conn /\ new.life = sent.life /\ new.at = sent.at /\ new.dcid = sent.dcid
        /\ new.phase = sent.phase /\ new.via = sent.via
    BY <1>3, Zenon DEF Conn
  <2>4. conn' = [conn EXCEPT ![x] = new]
    BY <1>1, <1>2, <1>11, <2>2, Zenon
  <2> HIDE DEF new
  <2>5. /\ put \in AliasMaps /\ put[tuple].backend = b
        /\ \A k \in Keys : k # tuple => put[k] = aliases[k]
    <3>1. put[tuple].backend = b /\ \A k \in Keys : k # tuple => put[k] = found.a[k]
      BY <1>4, <1>6, PutChanges
    <3>2. put \in AliasMaps
      BY <1>2, <1>3, <1>4, <1>6, <2>1, Zenon DEF Put, AliasMaps, Alias
    <3> QED
      BY <1>4, <3>1, <3>2, Zenon
  <2>6. aliases' = Learn(put, x, dcid, b, p, id)
    BY <1>1, <1>11, Zenon
  <2> HIDE DEF put
  <2>7. /\ \A k \in Keys : k \notin {cid, pair} => aliases'[k] = put[k]
        /\ Leads(aliases', cid, b) /\ Leads(aliases', pair, b)
    <3>1. /\ dcid \in Dcids /\ b \in Backends /\ now \in Nat
          /\ cid = CidKey(x, dcid) /\ pair = PairKey(x, dcid)
      BY <1>2, <1>3, Zenon
    <3> HIDE DEF c, dcid, tuple, cid, pair
    <3> QED
      BY ONLY x \in Conns, <2>1, <2>5, <2>6, <3>1, LearnChanges, SMTT(30), Zenon DEF Leads
  <2>8. \A d \in Dcids \ {dcid} : Fades(aliases, aliases', PairKey(x, d))
    BY <1>8, <2>5, <2>7, Zenon DEF Fades
  <2>9. Leads(aliases', tuple, b)
    BY <1>6, <2>5, <2>7, Zenon DEF Leads
  <2>10. PathFine(x, new, aliases', table', config)
    <3>1. /\ new.life = "open" /\ new.at = c /\ new.dcid = dcid /\ new.phase = conn[x].phase
          /\ new.via.backend = b /\ new.via.id = id /\ new.via.dcid = dcid
          /\ new.via.final <=> conn[x].phase = "server"
      BY <2>2, <2>3, Zenon
    <3>2. conn[x].phase = "server" => b = dcid
      BY <1>1, Zenon
    <3>3. c = conn[x].at /\ dcid = conn[x].dcid /\ new \in Conn
          /\ tuple = TupleKey(c) /\ cid = CidKey(x, dcid) /\ pair = PairKey(x, dcid)
      BY <2>3, Zenon
    <3> HIDE DEF c, dcid, tuple, cid, pair
    <3>4. /\ conn[x].life = "open" /\ dcid \in Dcids /\ FlowsLead(table', c, b)
      BY ONLY <1>2, <1>5, <2>1, Zenon
    <3>5. /\ Leads(aliases', CidKey(x, dcid), b) /\ Leads(aliases', PairKey(x, dcid), b)
          /\ Leads(aliases', TupleKey(c), b)
      BY ONLY <2>7, <2>9, <3>3, Zenon
    <3> QED
      BY ONLY Inv, RouteInv, x \in Conns, <2>1, <2>8, <3>1, <3>2, <3>3, <3>4, <3>5,
              SentPath, Zenon
  <2>11. \A k \in Keys : \/ k = tuple \/ (k[1] # "tuple" /\ k[2] = x)
                         \/ aliases'[k] = aliases[k]
    BY <1>6, <2>5, <2>7, Zenon
  <2>12. new.at = c /\ new \in Conn /\ c = conn[x].at /\ tuple = TupleKey(c) /\ config' = config
    BY <1>1, <2>2, <2>3, Zenon
  <2> HIDE DEF c, tuple
  <2> QED
    BY ONLY Inv, RouteInv, x \in Conns, <1>2, <1>5, <2>4, <2>10, <2>11, <2>12, PacketMoves, Zenon
<1> QED
  BY <1>10, <1>11, Zenon

\* A server's long header, on a flow that leads to it, teaches the alias of an
\* ID of that server.
LEMMA LongRoute ==
  ASSUME ~LateReplies, Inv, RouteInv, NEW x \in Conns, NEW p \in Slots,
         NEW phase \in {"retry", "server"}, LongReply(x, p, phase)
  PROVE  RouteInv'
<1> DEFINE f == table.flows[p]
           b == conn[x].via.backend
           arrives == conn[x].life = "open" /\ conn[x].at = f.client
           cid == CidKey(x, b)
           dcid == conn[x].dcid
           new == IF ~arrives THEN conn[x]
                  ELSE IF conn[x].phase = "server" THEN [conn[x] EXCEPT !.seen = now]
                  ELSE [conn[x] EXCEPT !.dcid = b, !.phase = phase, !.seen = now]
<1>1. /\ Used(table, p) /\ f.id = conn[x].via.id /\ f.backend = b
      /\ phase = "retry" => conn[x].phase = "chosen"
      /\ table' = [table EXCEPT !.flows[p].last_seen = now]
      /\ aliases' = Put(aliases, cid, b, p, f.id)
      /\ UNCHANGED <<config, now, pace>>
  BY Zenon DEF LongReply, ReplySlot
<1>2. /\ now \in Nat /\ conn \in [Conns -> Conn] /\ conn[x] \in Conn
      /\ FlowsFine(table, config) /\ p \in UsedSlots(table) /\ aliases \in AliasMaps
      /\ BackendsOf(config) \subseteq Backends
  BY <1>1, RoutesLead, Zenon DEF Inv, UsedSlots, PeersFine, AliasesFine
<1>3. conn' = [conn EXCEPT ![x] = new]
  <2>1. conn' = IF ~arrives THEN conn
                ELSE IF conn[x].phase = "server" THEN [conn EXCEPT ![x].seen = now]
                ELSE [conn EXCEPT ![x].dcid = b, ![x].phase = phase, ![x].seen = now]
    BY Zenon DEF LongReply
  <2> QED
    BY <1>2, <2>1, Zenon
<1>4. f.id # 0 /\ b \in BackendsOf(config) /\ b \in Backends /\ b \in Dcids
  BY <1>1, <1>2, Zenon DEF FlowsFine, Dcids
<1>5. conn[x].via # NoPath /\ PathFine(x, conn[x], aliases, table, config)
  <2>1. conn[x].via.id # 0
    BY <1>1, <1>4, Zenon
  <2>2. conn[x].via # NoPath
    BY ONLY <2>1, SMTT(30), Zenon DEF NoPath
  <2> QED
    BY <2>2, Zenon DEF RouteInv
<1>6. conn[x].life # "new"
  BY <1>5, Zenon DEF PathFine, Unsent
<1>7. /\ cid \in Keys /\ cid[1] # "tuple" /\ cid[2] = x
      /\ \A k \in Keys : k # cid => aliases'[k] = aliases[k]
      /\ aliases'[cid].backend = b
  BY <1>1, <1>2, <1>4, KeyFacts, PutChanges
<1>8. \A c : FlowsKeep(table, table', c)
  BY <1>1, <1>2, RefreshKeeps, Zenon
<1>9. \A k \in Keys : k # cid => Fades(aliases, aliases', k)
  BY <1>7, Zenon DEF Fades
<1>10. /\ new \in Conn /\ new.via = conn[x].via /\ new.at = conn[x].at
       /\ new.life = conn[x].life
       /\ ~arrives \/ conn[x].phase = "server" => new.dcid = dcid /\ new.phase = conn[x].phase
       /\ arrives /\ conn[x].phase # "server" => new.dcid = b /\ new.phase = phase
  BY <1>2, <1>4, Zenon DEF Conn
<1> HIDE DEF new, f
<1>11. new.life = "open" => conn[x].at \in Clients
  BY <1>2, <1>10, Zenon DEF Inv, PeersFine, PeerFine, Conn
<1>12. conn[x].dcid \in Dcids /\ conn[x].phase \in {"chosen", "retry", "server"}
  BY <1>2, Zenon DEF Conn
<1>13. PathFine(x, new, aliases', table', config)
  <2>1. Unsent(x, new, aliases')
    BY <1>5, <1>6, <1>10, Zenon DEF Unsent, PathFine
  <2> SUFFICES ASSUME new.life = "open"
               PROVE  /\ InPhase(new) /\ AliasesLead(x, new, aliases')
                      /\ PlaceLeads(new, aliases', table', config)
    BY <2>1, Zenon DEF PathFine
  <2>2. /\ conn[x].life = "open" /\ InPhase(conn[x]) /\ AliasesLead(x, conn[x], aliases)
        /\ PlaceLeads(conn[x], aliases, table, config)
    BY <1>5, <1>10, Zenon DEF PathFine
  <2>3. /\ conn[x].at \in Clients /\ TupleKey(conn[x].at) \in Keys
        /\ aliases'[TupleKey(conn[x].at)] = aliases[TupleKey(conn[x].at)]
    BY <1>4, <1>7, <1>11, KeyFacts, KeysDiffer, Zenon
  <2>4. \A d \in Dcids : aliases'[PairKey(x, d)] = aliases[PairKey(x, d)]
    <3> SUFFICES ASSUME NEW d \in Dcids
                 PROVE  aliases'[PairKey(x, d)] = aliases[PairKey(x, d)]
      BY Zenon
    <3>1. PairKey(x, d) \in Keys
      BY KeyFacts, Zenon
    <3>2. PairKey(x, d) # cid
      BY <1>4, KeysDiffer, Zenon
    <3> QED
      BY <1>7, <3>1, <3>2, Zenon
  <2>5. \A d \in Dcids : Leads(aliases, CidKey(x, d), b) => Leads(aliases', CidKey(x, d), b)
    BY <1>7, KeyFacts, Zenon DEF Leads
  <2>6. Leads(aliases', cid, b)
    BY <1>7, Zenon DEF Leads
  <2>7. CASE ~arrives \/ conn[x].phase = "server"
    <3>1. new.dcid = dcid /\ new.phase = conn[x].phase /\ new.via = conn[x].via /\ new.at = conn[x].at
      BY <1>10, <2>7, Zenon
    <3> HIDE DEF arrives
    <3>2. InPhase(new)
      BY <2>2, <3>1, Zenon DEF InPhase
    <3>3. AliasesLead(x, new, aliases')
      <4>1. \A d \in Backends : aliases'[PairKey(x, d)] = aliases[PairKey(x, d)]
        BY <2>4, Zenon DEF Dcids
      <4> QED
        BY <1>12, <2>2, <2>4, <2>5, <3>1, <4>1, Zenon DEF AliasesLead, Leads
    <3>4. PlaceLeads(new, aliases', table', config)
      BY <1>8, <2>2, <2>3, <3>1, Zenon DEF PlaceLeads, Leads, FlowsLead, FlowsKeep
    <3> QED
      BY <3>2, <3>3, <3>4, Zenon
  <2>8. CASE arrives /\ conn[x].phase # "server"
    <3>1. new.dcid = b /\ new.phase = phase /\ new.via = conn[x].via /\ new.at = conn[x].at
      BY <1>10, <2>8, Zenon
    <3>2. conn[x].at = f.client /\ conn[x].phase # "server" /\ ~conn[x].via.final
      BY <2>2, <2>8, Zenon DEF InPhase
    <3>3. InPhase(new)
      BY <1>4, <3>1, <3>2, Zenon DEF InPhase
    <3>4. AliasesLead(x, new, aliases')
      <4>1. \A d \in Backends \ {dcid} : aliases'[PairKey(x, d)] = Unused
        BY <2>2, <2>4, <3>2, Zenon DEF AliasesLead, Dcids
      <4>2. Leads(aliases', PairKey(x, b), b)
        <5>1. CASE b = dcid
          BY <1>4, <2>2, <2>4, <5>1, Zenon DEF AliasesLead, Leads
        <5>2. CASE b # dcid
          BY <1>4, <4>1, <5>2, Zenon DEF Leads
        <5> QED
          BY <5>1, <5>2, Zenon
      <4>3. new.phase # "server" => \A d \in Backends \ {b} : aliases'[PairKey(x, d)] = Unused
        <5>1. new.phase # "server" => conn[x].phase = "chosen" /\ dcid = Chosen
          BY <1>1, <2>2, <3>1, Zenon DEF InPhase
        <5> QED
          BY <4>1, <5>1, ConfigsAssumption, Zenon
      <4> QED
        BY <2>6, <3>1, <4>2, <4>3, Zenon DEF AliasesLead
    <3>5. PlaceLeads(new, aliases', table', config)
      <4>1. Leads(aliases', TupleKey(conn[x].at), b) \/ DecodesIn(config, b)
        <5>1. Leads(aliases, TupleKey(conn[x].at), b) \/ DecodesIn(config, dcid)
          BY <1>5, <2>2, Zenon DEF PlaceLeads
        <5>2. DecodesIn(config, dcid) => DecodesIn(config, b)
          BY <1>4, Zenon DEF DecodesIn
        <5> QED
          BY <2>3, <5>1, <5>2, Zenon DEF Leads
      <4>2. FlowsLead(table', conn[x].at, b)
        <5>1. \A q \in UsedSlots(table) : table.flows[q].client = f.client => q = p
          BY <1>2, Zenon DEF FlowsFine, Sound, Single, f
        <5> QED
          BY <1>1, <1>8, <3>2, <5>1 DEF FlowsLead, FlowsKeep, f
      <4> QED
        BY <3>1, <4>1, <4>2, Zenon DEF PlaceLeads
    <3> QED
      BY <3>3, <3>4, <3>5, Zenon
  <2> QED
    BY <2>7, <2>8, Zenon
<1>14. ASSUME NEW y \in Conns \ {x}
       PROVE  /\ \A d \in Dcids : /\ Fades(aliases, aliases', CidKey(y, d))
                                  /\ Fades(aliases, aliases', PairKey(y, d))
              /\ conn[y].life = "open" =>
                   /\ Fades(aliases, aliases', TupleKey(conn[y].at))
                   /\ FlowsKeep(table, table', conn[y].at)
                   /\ new.life = "open" => conn[y].at # new.at
  <2>1. \A d \in Dcids : /\ CidKey(y, d) \in Keys /\ PairKey(y, d) \in Keys
                         /\ CidKey(y, d) # cid /\ PairKey(y, d) # cid
    BY <1>4, KeyFacts, KeysDiffer
  <2>2. conn[y].life = "open" => TupleKey(conn[y].at) \in Keys /\ TupleKey(conn[y].at) # cid
    <3>1. conn[y].life = "open" => conn[y].at \in Clients
      BY Zenon DEF Inv, PeersFine, PeerFine, Conn
    <3> QED
      BY <1>4, <3>1, KeyFacts, KeysDiffer, ZenonT(30)
  <2>3. conn[y].life = "open" /\ new.life = "open" => conn[y].at # new.at
    BY <1>10, Zenon DEF RouteInv, Apart
  <2> QED
    BY <1>8, <1>9, <2>1, <2>2, <2>3, Zenon
<1> QED
  BY <1>1, <1>3, <1>10, <1>13, <1>14, OneMoves, Zenon

\* A step that no connection's path depends on: aliases and flows only go.
LEMMA AllFade ==
  ASSUME Inv, RouteInv,
         \A x \in Conns : /\ conn'[x] \in Conn
                          /\ conn'[x].life = conn[x].life \/ conn'[x].life = "closed"
                          /\ conn'[x].at = conn[x].at /\ conn'[x].dcid = conn[x].dcid
                          /\ conn'[x].phase = conn[x].phase /\ conn'[x].via = conn[x].via,
         \A k \in Keys : Fades(aliases, aliases', k),
         \A c : FlowsKeep(table, table', c),
         \A d : DecodesIn(config, d) => DecodesIn(config', d),
         config.encoded => config'.encoded
  PROVE  RouteInv'
<1>1. Apart(conn')
  BY DEF RouteInv, Apart
<1>2. ASSUME NEW x \in Conns PROVE PathFine(x, conn'[x], aliases', table', config')
  <2>1. PathFine(x, conn[x], aliases, table, config) /\ conn[x] \in Conn
    BY Zenon DEF RouteInv, Inv, PeersFine
  <2>2. \A d \in Dcids : /\ Fades(aliases, aliases', CidKey(x, d))
                         /\ Fades(aliases, aliases', PairKey(x, d))
    BY KeyFacts, Zenon
  <2>3. conn[x].life = "open" => Fades(aliases, aliases', TupleKey(conn[x].at))
    <3>1. conn[x].life = "open" => conn[x].at \in Clients
      BY Zenon DEF Inv, PeersFine, PeerFine, Conn
    <3> QED
      BY <3>1, KeyFacts, Zenon
  <2> DEFINE p == conn[x]
             r == conn'[x]
  <2>4. /\ p \in Conn /\ r \in Conn /\ (r.life = p.life \/ r.life = "closed")
        /\ r.at = p.at /\ r.dcid = p.dcid /\ r.phase = p.phase /\ r.via = p.via
        /\ PathFine(x, p, aliases, table, config)
        /\ p.life = "open" => /\ Fades(aliases, aliases', TupleKey(p.at))
                              /\ FlowsKeep(table, table', p.at)
        /\ DecodesIn(config, p.dcid) => DecodesIn(config', p.dcid)
        /\ config.encoded => config'.encoded
    BY <2>1, <2>3, Zenon
  <2> HIDE DEF p, r
  <2>5. PathFine(x, r, aliases', table', config')
    BY ONLY x \in Conns, <2>2, <2>4, PathLater, Zenon
  <2> QED
    BY <2>5, Zenon DEF r
<1> QED
  BY <1>1, <1>2, Zenon DEF RouteInv

LEMMA ShortRoute ==
  ASSUME Inv, RouteInv, NEW x \in Conns, NEW p \in Slots, ShortReply(x, p)
  PROVE  RouteInv'
<1> DEFINE new == [conn[x] EXCEPT !.seen = now]
<1>1. /\ Used(table, p) /\ table' = [table EXCEPT !.flows[p].last_seen = now]
      /\ conn' = [conn EXCEPT ![x] = new]
      /\ UNCHANGED <<aliases, config, now, pace>>
  BY Zenon DEF ShortReply, ReplySlot
<1>2. /\ now \in Nat /\ conn \in [Conns -> Conn] /\ FlowsFine(table, config)
      /\ p \in UsedSlots(table)
  BY <1>1, Zenon DEF Inv, UsedSlots, PeersFine
<1>3. /\ new \in Conn /\ new.via = conn[x].via /\ new.life = conn[x].life /\ new.at = conn[x].at
      /\ new.dcid = conn[x].dcid /\ new.phase = conn[x].phase
  BY <1>2, Zenon DEF Conn
<1> HIDE DEF new
<1>4. \A y \in Conns : conn'[y] = IF y = x THEN new ELSE conn[y]
  BY <1>1, <1>2, Zenon
<1>5. \A y \in Conns : /\ conn'[y] \in Conn /\ conn'[y].life = conn[y].life
                       /\ conn'[y].at = conn[y].at /\ conn'[y].dcid = conn[y].dcid
                       /\ conn'[y].phase = conn[y].phase /\ conn'[y].via = conn[y].via
  BY <1>2, <1>3, <1>4, Zenon
<1>6. \A c : FlowsKeep(table, table', c)
  BY <1>1, <1>2, RefreshKeeps, Zenon
<1>7. \A k \in Keys : Fades(aliases, aliases', k)
  BY <1>1, Zenon DEF Fades
<1> QED
  BY <1>1, <1>5, <1>6, <1>7, AllFade, Zenon

LEMMA SweepRoute ==
  ASSUME FlowLaws, Inv, RouteInv, Sweep
  PROVE  RouteInv'
<1>1. table' = ExpireAll(table, now) /\ UNCHANGED <<config, conn, now, pace>>
  BY Zenon DEF Sweep
<1>2. /\ now \in Nat /\ conn \in [Conns -> Conn] /\ FlowsFine(table, config)
      /\ aliases \in AliasMaps
  BY Zenon DEF Inv, PeersFine, AliasesFine
<1>3. \A c : FlowsKeep(table, table', c)
  BY <1>1, <1>2, KeptKeeps, Zenon DEF FlowLaws, ExpireLaw, FlowsFine
<1>4. \A k \in Keys : Fades(aliases, aliases', k)
  <2>1. CASE UNCHANGED aliases
    BY <2>1, Zenon DEF Fades
  <2>2. CASE \E k \in Keys :
          /\ IdleAlias(k)
          /\ aliases' = [aliases EXCEPT ![k] =
               IF Keepalive(k) THEN [aliases[k] EXCEPT !.last_seen = now] ELSE Unused]
    <3>1. PICK k \in Keys :
          /\ IdleAlias(k)
          /\ aliases' = [aliases EXCEPT ![k] =
               IF Keepalive(k) THEN [aliases[k] EXCEPT !.last_seen = now] ELSE Unused]
      BY <2>2, Zenon
    <3>2. aliases[k] # Unused /\ aliases[k] \in Alias
      BY <1>2, <3>1, Zenon DEF IdleAlias, AliasMaps
    <3>3. \A j \in Keys : j # k => aliases'[j] = aliases[j]
      BY <1>2, <3>1, Zenon DEF AliasMaps
    <3>4. CASE Keepalive(k)
      <4>1. aliases'[k] = [aliases[k] EXCEPT !.last_seen = now]
        BY <1>2, <3>1, <3>4, Zenon DEF AliasMaps
      <4>2. aliases'[k].backend = aliases[k].backend
        BY <3>2, <4>1, Zenon DEF Alias
      <4> QED
        BY <3>2, <3>3, <4>2, Zenon DEF Fades
    <3>5. CASE ~Keepalive(k)
      <4>1. aliases'[k] = Unused
        BY <1>2, <3>1, <3>5, Zenon DEF AliasMaps
      <4> QED
        BY <3>3, <4>1, Zenon DEF Fades
    <3> QED
      BY <3>4, <3>5, Zenon
  <2> QED
    BY <2>1, <2>2, Zenon DEF Sweep
<1> QED
  BY <1>1, <1>2, <1>3, <1>4, AllFade, Zenon

LEMMA ReloadRoute ==
  ASSUME FlowLaws, Inv, RouteInv, NEW cfg \in Configs, Reload(cfg), config.encoded => cfg.encoded,
         config.encoded => BackendsOf(config) \subseteq BackendsOf(cfg)
  PROVE  RouteInv'
<1> DEFINE doomed == BackendsOf(config) \ BackendsOf(cfg)
<1>1. /\ config' = cfg /\ table' = EvictBackends(table, doomed)
      /\ aliases' = [k \in Keys |-> IF aliases[k] # Unused /\ aliases[k].backend \in doomed
                                    THEN Unused ELSE aliases[k]]
      /\ UNCHANGED <<conn, now, pace>>
  BY Zenon DEF Reload
<1> HIDE DEF doomed
<1>2. conn \in [Conns -> Conn] /\ FlowsFine(table, config)
  BY Zenon DEF Inv, PeersFine
<1>3. \A c : FlowsKeep(table, table', c)
  BY <1>1, <1>2, KeptKeeps, Zenon DEF FlowLaws, EvictLaw, FlowsFine
<1>4. \A k \in Keys : Fades(aliases, aliases', k)
  BY <1>1, Zenon DEF Fades
<1>5. \A d : DecodesIn(config, d) => DecodesIn(config', d)
  BY <1>1, Zenon DEF DecodesIn
<1> QED
  BY <1>1, <1>2, <1>3, <1>4, <1>5, AllFade, Zenon

LEMMA CloseRoute ==
  ASSUME Inv, RouteInv, NEW x \in Conns, Close(x)
  PROVE  RouteInv'
<1> DEFINE new == [conn[x] EXCEPT !.life = "closed"]
<1>1. conn' = [conn EXCEPT ![x] = new] /\ UNCHANGED <<table, aliases, config, now, pace>>
  BY Zenon DEF Close
<1>2. conn \in [Conns -> Conn]
  BY Zenon DEF Inv, PeersFine
<1>3. /\ new \in Conn /\ new.via = conn[x].via /\ new.life = "closed" /\ new.at = conn[x].at
      /\ new.dcid = conn[x].dcid /\ new.phase = conn[x].phase
  BY <1>2, Zenon DEF Conn
<1> HIDE DEF new
<1>4. \A y \in Conns : conn'[y] = IF y = x THEN new ELSE conn[y]
  BY <1>1, <1>2, Zenon
<1>5. \A y \in Conns : /\ conn'[y] \in Conn /\ conn'[y].life \in {conn[y].life, "closed"}
                       /\ conn'[y].at = conn[y].at /\ conn'[y].dcid = conn[y].dcid
                       /\ conn'[y].phase = conn[y].phase /\ conn'[y].via = conn[y].via
  BY <1>2, <1>3, <1>4, Zenon
<1>6. /\ \A c : FlowsKeep(table, table', c)
      /\ \A k \in Keys : Fades(aliases, aliases', k)
  BY <1>1, Zenon DEF FlowsKeep, Fades
<1> QED
  BY <1>1, <1>5, <1>6, AllFade, Zenon

LEMMA TickRoute ==
  ASSUME Inv, RouteInv, Tick
  PROVE  RouteInv'
<1> DEFINE lapse(x) == conn[x].lapsed \/ now' - conn[x].seen >= IdleTimeout
<1>1. /\ UNCHANGED <<table, aliases, config, pace>>
      /\ conn' = [x \in Conns |-> [conn[x] EXCEPT !.lapsed = lapse(x)]]
  BY Zenon DEF Tick
<1>2. conn \in [Conns -> Conn]
  BY Zenon DEF Inv, PeersFine
<1>3. \A x \in Conns : lapse(x) \in BOOLEAN
  BY <1>2, Zenon DEF Conn
<1> HIDE DEF lapse
<1>4. ASSUME NEW x \in Conns
      PROVE  /\ conn'[x] \in Conn /\ conn'[x].life = conn[x].life
             /\ conn'[x].at = conn[x].at /\ conn'[x].dcid = conn[x].dcid
             /\ conn'[x].phase = conn[x].phase /\ conn'[x].via = conn[x].via
  <2>1. conn'[x] = [conn[x] EXCEPT !.lapsed = lapse(x)] /\ conn[x] \in Conn
    BY <1>1, <1>2, Zenon
  <2> QED
    BY <1>3, <2>1, Zenon DEF Conn
<1>5. /\ \A c : FlowsKeep(table, table', c)
      /\ \A k \in Keys : Fades(aliases, aliases', k)
  BY <1>1, Zenon DEF FlowsKeep, Fades
<1> QED
  BY <1>1, <1>4, <1>5, AllFade, Zenon

\* A connection that comes to a tuple where no other is.
LEMMA PlaceMoves ==
  ASSUME Inv, RouteInv, UNCHANGED <<table, aliases, config>>, NEW x \in Conns, NEW c, Vacant(c),
         NEW new \in Conn, new.at = c, conn' = [conn EXCEPT ![x] = new],
         PathFine(x, new, aliases, table, config)
  PROVE  RouteInv'
<1>1. \A y \in Conns \ {x} : conn[y].life = "open" => conn[y].at # new.at
  BY Zenon DEF Vacant
<1>2. /\ \A e : FlowsKeep(table, table', e)
      /\ \A k : Fades(aliases, aliases', k)
  BY Zenon DEF FlowsKeep, Fades
<1> QED
  BY <1>1, <1>2, OneMoves, Zenon

LEMMA ConnectRoute ==
  ASSUME Inv, RouteInv, NEW x \in Conns, NEW c \in Clients, Connect(x, c)
  PROVE  RouteInv'
<1> DEFINE new == [conn[x] EXCEPT !.life = "open", !.at = c, !.tuples = {c}, !.seen = now]
<1>1. /\ conn[x].life = "new" /\ Vacant(c) /\ conn' = [conn EXCEPT ![x] = new]
      /\ UNCHANGED <<table, aliases, config>>
  BY Zenon DEF Connect
<1>2. conn[x] \in Conn /\ now \in Nat /\ PathFine(x, conn[x], aliases, table, config)
  BY Zenon DEF Inv, PeersFine, RouteInv
<1>3. /\ new \in Conn /\ new.at = c /\ new.life = "open" /\ new.via = conn[x].via
      /\ new.dcid = conn[x].dcid /\ new.phase = conn[x].phase
  BY <1>2, Zenon DEF Conn
<1> HIDE DEF new
<1>4. /\ new.via = NoPath /\ new.dcid = Chosen /\ new.phase = "chosen"
      /\ \A d \in Dcids : aliases[CidKey(x, d)] = Unused /\ aliases[PairKey(x, d)] = Unused
  BY <1>1, <1>2, <1>3, Zenon DEF PathFine, Unsent
<1>5. PathFine(x, new, aliases, table, config)
  <2>1. Unsent(x, new, aliases)
    BY <1>3, <1>4, Zenon DEF Unsent
  <2>2. InPhase(new)
    BY <1>4 DEF InPhase, NoPath
  <2>3. AliasesLead(x, new, aliases)
    BY <1>4, Zenon DEF AliasesLead, Leads, Dcids
  <2>4. PlaceLeads(new, aliases, table, config)
    BY <1>4, Zenon DEF PlaceLeads
  <2> QED
    BY <2>1, <2>2, <2>3, <2>4, Zenon DEF PathFine
<1> QED
  BY <1>1, <1>3, <1>5, PlaceMoves, Zenon

LEMMA RebindRoute ==
  ASSUME FlowLaws, Inv, RouteInv, NEW x \in Conns, NEW c \in Clients, Rebind(x, c)
  PROVE  RouteInv'
<1> DEFINE new == [conn[x] EXCEPT !.at = c, !.tuples = conn[x].tuples \cup {c}]
<1>1. /\ conn[x].life = "open" /\ Vacant(c) /\ conn' = [conn EXCEPT ![x] = new]
      /\ Decodes(conn[x].dcid) \/ (aliases[TupleKey(c)] = Unused /\ SlotOf(table, c) = NoSlot)
      /\ UNCHANGED <<table, aliases, config>>
  BY Zenon DEF Rebind
<1>2. conn[x] \in Conn /\ PathFine(x, conn[x], aliases, table, config)
  BY Zenon DEF Inv, PeersFine, RouteInv
<1>3. /\ new \in Conn /\ new.at = c /\ new.life = "open" /\ new.via = conn[x].via
      /\ new.dcid = conn[x].dcid /\ new.phase = conn[x].phase
  BY <1>1, <1>2, Zenon DEF Conn
<1> HIDE DEF new
<1>4. PathFine(x, new, aliases, table, config)
  <2>1. Unsent(x, new, aliases)
    BY <1>2, <1>3, Zenon DEF PathFine, Unsent
  <2>2. InPhase(new)
    BY <1>1, <1>2, <1>3, Zenon DEF PathFine, InPhase
  <2>3. AliasesLead(x, new, aliases)
    BY <1>1, <1>2, <1>3, Zenon DEF PathFine, AliasesLead
  <2>4. PlaceLeads(new, aliases, table, config)
    <3>1. CASE Decodes(conn[x].dcid)
      BY <1>3, <3>1, Zenon DEF PlaceLeads, Decodes, DecodesIn, Configured
    <3>2. CASE aliases[TupleKey(c)] = Unused /\ SlotOf(table, c) = NoSlot
      <4>1. \A q \in UsedSlots(table) : table.flows[q].client # c
        BY <3>2, Zenon DEF FlowLaws, SlotLaw, Stranger
      <4> QED
        BY <1>3, <3>2, <4>1, Zenon DEF PlaceLeads, Leads, FlowsLead
    <3> QED
      BY <1>1, <3>1, <3>2, Zenon
  <2> QED
    BY <2>1, <2>2, <2>3, <2>4, Zenon DEF PathFine
<1> QED
  BY <1>1, <1>3, <1>4, PlaceMoves, Zenon

LEMMA RouteInit == Init => RouteInv
<1> SUFFICES ASSUME Init PROVE RouteInv
  BY Zenon
<1>1. aliases = [k \in Keys |-> Unused] /\ conn = [x \in Conns |-> New]
  BY Zenon DEF Init
<1>2. \A x \in Conns : /\ conn[x].life = "new" /\ conn[x].via = NoPath
                       /\ conn[x].dcid = Chosen /\ conn[x].phase = "chosen"
  BY <1>1, Zenon DEF New
<1>3. Apart(conn)
  BY <1>2, Zenon DEF Apart
<1>4. \A x \in Conns, d \in Dcids : aliases[CidKey(x, d)] = Unused /\ aliases[PairKey(x, d)] = Unused
  BY <1>1, KeyFacts, Zenon
<1> QED
  BY <1>2, <1>3, <1>4, Zenon DEF RouteInv, PathFine, Unsent

\* No reload takes a backend away from servers that issue encoded IDs.
EncodedStay ==
  \A old, new \in Configs :
    old.encoded /\ new.encoded => BackendsOf(old) \subseteq BackendsOf(new)

LEMMA RouteStep ==
  ASSUME FlowLaws, ~LateReplies, EncodedStay, Inv, RouteInv, [Next]_vars
  PROVE  RouteInv'
<1>1. ASSUME NEW x \in Conns, NEW c \in Clients, Connect(x, c) \/ Rebind(x, c) PROVE RouteInv'
  BY <1>1, ConnectRoute, RebindRoute, Zenon
<1>2. ASSUME NEW x \in Conns, Close(x) PROVE RouteInv'
  BY <1>2, CloseRoute, Zenon
<1>3. ASSUME NEW x \in Conns, NEW type \in Types, ClientPacket(x, type) PROVE RouteInv'
  BY <1>3, FastRoute, DropRoute, KnownRoute, FreshRoute, Zenon DEF ClientPacket
<1>4. ASSUME NEW x \in Conns, NEW p \in Slots, BackendPacket(x, p) PROVE RouteInv'
  BY <1>4, LongRoute, ShortRoute, Zenon DEF BackendPacket
<1>5. ASSUME NEW cfg \in Configs, config.encoded => cfg.encoded, Reload(cfg) PROVE RouteInv'
  <2>1. config.encoded => BackendsOf(config) \subseteq BackendsOf(cfg)
    BY <1>5, Zenon DEF EncodedStay, Inv
  <2> QED
    BY <1>5, <2>1, ReloadRoute, Zenon
<1>6. CASE Sweep \/ Tick
  BY <1>6, SweepRoute, TickRoute, Zenon
<1>7. CASE UNCHANGED vars
  BY <1>7, Zenon DEF vars, RouteInv
<1> QED
  BY <1>1, <1>2, <1>3, <1>4, <1>5, <1>6, <1>7, Zenon DEF Next

\* Before the server's first packet: a packet of the connection went where its
\* name was routed to, or to the server of the Retry whose ID it carried.
NamePath(p) ==
  /\ p.life = "new" => p.home = Unused
  /\ p.home # Unused => p.via # NoPath
  /\ p.life = "open" =>
       /\ p.via = NoPath \/ p.via.final \/ p.via.backend \in {p.home, p.via.dcid}
       /\ p.phase # "server" => p.via.dcid \in {Chosen, p.dcid}
NameInv == \A x \in Conns : NamePath(conn[x])

LEMMA NameInit == Init => NameInv
BY DEF Init, New, NameInv, NamePath

LEMMA NameMoves ==
  ASSUME Inv, NameInv, NEW x \in Conns, NEW new, conn' = [conn EXCEPT ![x] = new], NamePath(new)
  PROVE  NameInv'
<1>1. \A y \in Conns : conn'[y] = IF y = x THEN new ELSE conn[y]
  BY Zenon DEF Inv, PeersFine
<1> QED
  BY <1>1, Zenon DEF NameInv

LEMMA NameStays ==
  ASSUME NameInv,
         \A x \in Conns : /\ conn'[x].life \in {conn[x].life, "closed"}
                          /\ conn'[x].dcid = conn[x].dcid /\ conn'[x].phase = conn[x].phase
                          /\ conn'[x].via = conn[x].via /\ conn'[x].home = conn[x].home
  PROVE  NameInv'
<1>1. ASSUME NEW x \in Conns PROVE NamePath(conn'[x])
  <2>1. NamePath(conn[x])
    BY Zenon DEF NameInv
  <2> QED
    BY <2>1, Zenon DEF NamePath
<1> QED
  BY <1>1, Zenon DEF NameInv

LEMMA FastName ==
  ASSUME FlowLaws, Inv, NameInv, NEW x \in Conns, NEW type, FastPath(x, type)
  PROVE  NameInv'
<1> DEFINE p == SlotOf(table, conn[x].at)
           b == table.flows[p].backend
           id == table.flows[p].id
<1>1. Sends(x, type) /\ type = "short" /\ p # NoSlot /\ conn' = Forwarded(x, b, id)
  BY Zenon DEF FastPath, Fast
<1>2. /\ now \in Nat /\ FlowsFine(table, config) /\ conn \in [Conns -> Conn]
      /\ conn[x].life = "open" /\ conn[x].phase = "server"
  BY <1>1, Zenon DEF Inv, PeersFine, Sends
<1>3. p \in UsedSlots(table)
  BY <1>1, Zenon DEF FlowLaws, SlotLaw
<1>4. id \in Nat \ {0} /\ b \in Backends
  <2>1. table.flows \in [Slots -> Flow \cup {Unused}] /\ id # 0
    BY <1>2, <1>3, Zenon DEF FlowsFine, Sound, Tables
  <2>2. table.flows[p] \in Flow
    BY <1>3, <2>1, Zenon DEF UsedSlots, Used
  <2> QED
    BY <2>1, <2>2, Zenon DEF Flow
<1> HIDE DEF b, id, p
<1>5. PICK new \in Conn :
        /\ conn' = [conn EXCEPT ![x] = new]
        /\ new.life = conn[x].life /\ new.phase = conn[x].phase /\ new.via.id = id
        /\ new.via.final <=> conn[x].phase = "server"
  <2>1. id \in Nat
    BY <1>4, Zenon
  <2>2. PICK sent \in Conn : SentBy(x, b, id, sent)
    BY ONLY x \in Conns, <1>2, <1>4, <2>1, ForwardedSent, Zenon
  <2> QED
    BY ONLY <1>1, <2>2, Zenon DEF SentBy
<1>6. NamePath(new)
  BY ONLY <1>2, <1>4, <1>5, SMTT(30), Zenon DEF NamePath, NoPath
<1> QED
  BY <1>5, <1>6, NameMoves, Zenon

LEMMA KnownName ==
  ASSUME FlowLaws, ~EarlyZeroRtt, Inv, RouteInv, NameInv, NEW x \in Conns, NEW type \in Types,
         NEW registered, KnownSession(x, type, registered)
  PROVE  NameInv'
<1> DEFINE found == Lookup(x, type)
           c == conn[x].at
           dcid == conn[x].dcid
           b == found.a[found.key].backend
           e == Touched(found.a, found.key, now)
           p == SlotOf(table', c)
           id == table'.flows[p].id
<1>1. /\ Sends(x, type) /\ found.key # NoKey
      /\ table' = Acquired(table, c, b, registered, now)
      /\ conn' = IF p = NoSlot THEN conn ELSE Forwarded(x, b, id)
  BY Zenon DEF KnownSession
<1>2. /\ c \in Clients /\ dcid \in Dcids /\ now \in Nat /\ BackendsOf(config) \subseteq Backends
      /\ FlowsFine(table, config) /\ conn[x].life = "open" /\ conn \in [Conns -> Conn]
  BY <1>1, SenderFacts, Zenon DEF Sends, PeersFine
<1>3. b \in BackendsOf(config) /\ b \in Backends
  BY <1>1, <1>2, LookupFine, Zenon DEF AliasFine
<1>4. /\ conn[x].phase = "server" => b = dcid
      /\ conn[x].via # NoPath => b = conn[x].via.backend \/ b = dcid
      /\ type = "initial" => conn[x].via # NoPath
  <2>1. /\ Sends(x, type) /\ found = Lookup(x, type) /\ found.key # NoKey
        /\ dcid = conn[x].dcid /\ b = found.a[found.key].backend
    BY <1>1, Zenon
  <2> HIDE DEF found, c, dcid, b, e
  <2> QED
    BY ONLY Inv, RouteInv, x \in Conns, <2>1, FoundBackend, Zenon
<1> HIDE DEF found, e, b
<1>5. CASE p = NoSlot
  BY <1>1, <1>5, Zenon DEF NameInv
<1>6. CASE p # NoSlot
  <2>1. id \in Nat \ {0}
    BY <1>1, <1>2, <1>3, <1>6, AcquireFollows, Zenon
  <2> HIDE DEF p, id
  <2>2. PICK new \in Conn :
          /\ conn' = [conn EXCEPT ![x] = new]
          /\ new.life = conn[x].life /\ new.dcid = dcid /\ new.phase = conn[x].phase
          /\ new.home = conn[x].home
          /\ new.via.backend = b /\ new.via.id = id /\ new.via.dcid = dcid
          /\ new.via.final <=> conn[x].phase = "server"
    <3>1. /\ conn \in [Conns -> Conn] /\ now \in Nat /\ b \in Backends /\ id \in Nat
          /\ conn' = Forwarded(x, b, id)
      BY <1>1, <1>2, <1>3, <1>6, <2>1, Zenon
    <3> QED
      <4>1. PICK sent \in Conn : SentBy(x, b, id, sent)
        BY ONLY x \in Conns, <3>1, ForwardedSent, Zenon
      <4> QED
        BY ONLY <3>1, <4>1, Zenon DEF SentBy
  <2>3. new.via # NoPath
    BY ONLY <2>1, <2>2, SMTT(30), Zenon DEF NoPath
  <2>4. conn[x].phase # "server" => b \in {conn[x].home, dcid}
    <3> SUFFICES ASSUME conn[x].phase # "server" PROVE b \in {conn[x].home, dcid}
      BY Zenon
    <3>1. conn[x].via # NoPath
      <4>1. type = "initial" \/ conn[x].home # Unused
        BY <1>1, Zenon DEF Sends, Types
      <4> QED
        BY <1>4, <4>1, Zenon DEF NameInv, NamePath
    <3>2. /\ conn[x].via.backend \in {conn[x].home, conn[x].via.dcid}
          /\ conn[x].via.dcid \in {Chosen, dcid}
      <4>1. PathFine(x, conn[x], aliases, table, config) /\ NamePath(conn[x])
        BY Zenon DEF RouteInv, NameInv
      <4>2. ~conn[x].via.final
        BY <1>2, <4>1, Zenon DEF PathFine, InPhase
      <4> QED
        BY <1>2, <3>1, <4>1, <4>2, Zenon DEF NamePath
    <3>3. conn[x].via.backend \in Backends
      <4>1. conn[x].via.id # 0
        BY <3>1, Zenon DEF RouteInv, PathFine, Unsent
      <4> QED
        BY <4>1, Zenon DEF Inv, PeersFine, PeerFine
    <3> QED
      BY <1>4, <3>1, <3>2, <3>3, ConfigsAssumption, Zenon
  <2>5. NamePath(new)
    BY <1>2, <2>2, <2>3, <2>4, Zenon DEF NamePath
  <2> QED
    BY <2>2, <2>5, NameMoves, Zenon
<1> QED
  BY <1>5, <1>6, Zenon

LEMMA FreshName ==
  ASSUME FlowLaws, Inv, NameInv, NEW x \in Conns, NEW type, NEW registered,
         FreshInitial(x, type, registered)
  PROVE  NameInv'
<1> DEFINE c == conn[x].at
           b == config.routes[NameOf[x]]
           p == SlotOf(table', c)
           id == table'.flows[p].id
           sent == Forwarded(x, b, id)
<1>1. /\ Sends(x, type) /\ b # Unused /\ conn[x].phase # "server"
      /\ table' = Acquired(table, c, b, registered, now)
      /\ conn' = IF p = NoSlot THEN conn ELSE [sent EXCEPT ![x].home = b]
  BY Zenon DEF FreshInitial, Routable
<1>2. /\ c \in Clients /\ conn[x].dcid \in Dcids /\ now \in Nat
      /\ BackendsOf(config) \subseteq Backends
      /\ FlowsFine(table, config) /\ conn[x].life = "open" /\ conn \in [Conns -> Conn]
  BY <1>1, SenderFacts, Zenon DEF Sends, PeersFine
<1>3. b \in BackendsOf(config) /\ b \in Backends
  BY <1>1, <1>2, RoutesLead, Zenon DEF Inv
<1> HIDE DEF b
<1>4. CASE p = NoSlot
  BY <1>1, <1>4, Zenon DEF NameInv
<1>5. CASE p # NoSlot
  <2>1. id \in Nat \ {0}
    BY <1>1, <1>2, <1>3, <1>5, AcquireFollows, Zenon
  <2> HIDE DEF p, id
  <2>2. PICK new \in Conn :
          /\ sent = [conn EXCEPT ![x] = new]
          /\ new.life = conn[x].life /\ new.dcid = conn[x].dcid /\ new.phase = conn[x].phase
          /\ new.via.backend = b /\ new.via.id = id /\ new.via.dcid = conn[x].dcid
    <3>1. conn \in [Conns -> Conn] /\ now \in Nat /\ b \in Backends /\ id \in Nat
      BY <1>2, <1>3, <2>1, Zenon
    <3> QED
      <4>1. PICK last \in Conn : SentBy(x, b, id, last)
        BY ONLY x \in Conns, <3>1, ForwardedSent, Zenon
      <4> QED
        BY ONLY <4>1, Zenon DEF SentBy
  <2> HIDE DEF sent
  <2> DEFINE named == [new EXCEPT !.home = b]
  <2>3. /\ named.life = new.life /\ named.dcid = new.dcid /\ named.phase = new.phase
        /\ named.via = new.via /\ named.home = b
    BY Zenon DEF Conn
  <2>4. conn' = [conn EXCEPT ![x] = named]
    BY <1>1, <1>2, <1>5, <2>2, Zenon
  <2> HIDE DEF named
  <2>5. named.via # NoPath
    BY <2>1, <2>2, <2>3 DEF NoPath
  <2>6. NamePath(named)
    BY <1>2, <2>2, <2>3, <2>5, Zenon DEF NamePath
  <2> QED
    BY <2>4, <2>6, NameMoves, Zenon
<1> QED
  BY <1>4, <1>5, Zenon

LEMMA LongName ==
  ASSUME Inv, RouteInv, NameInv, NEW x \in Conns, NEW p \in Slots,
         NEW phase \in {"retry", "server"}, LongReply(x, p, phase)
  PROVE  NameInv'
<1> DEFINE b == conn[x].via.backend
           new == IF conn[x].phase = "server" THEN [conn[x] EXCEPT !.seen = now]
                  ELSE [conn[x] EXCEPT !.dcid = b, !.phase = phase, !.seen = now]
<1>1. /\ conn' = conn \/ (conn[x].life = "open" /\ conn' = [conn EXCEPT ![x] = new])
      /\ phase = "retry" => conn[x].phase = "chosen"
  BY Zenon DEF LongReply
<1>2. conn[x] \in Conn /\ NamePath(conn[x]) /\ PathFine(x, conn[x], aliases, table, config)
  BY Zenon DEF Inv, PeersFine, NameInv, RouteInv
<1>3. CASE conn' = conn
  BY <1>3, Zenon DEF NameInv
<1>4. CASE conn[x].life = "open" /\ conn' = [conn EXCEPT ![x] = new]
  <2>1. /\ new.life = "open" /\ new.via = conn[x].via /\ new.home = conn[x].home
        /\ \/ conn[x].phase = "server" /\ new.phase = "server"
           \/ conn[x].phase # "server" /\ new.phase = phase
    BY <1>2, <1>4, Zenon DEF Conn
  <2> HIDE DEF new
  <2>2. new.phase # "server" => conn[x].phase = "chosen" /\ conn[x].dcid = Chosen
    BY <1>1, <1>2, <1>4, <2>1, Zenon DEF PathFine, InPhase
  <2>3. NamePath(new)
    BY <1>2, <1>4, <2>1, <2>2, Zenon DEF NamePath
  <2> QED
    BY <1>4, <2>3, NameMoves, Zenon
<1> QED
  BY <1>1, <1>3, <1>4, Zenon

LEMMA ConnectName ==
  ASSUME Inv, RouteInv, NameInv, NEW x \in Conns, NEW c \in Clients, Connect(x, c)
  PROVE  NameInv'
<1> DEFINE new == [conn[x] EXCEPT !.life = "open", !.at = c, !.tuples = {c}, !.seen = now]
<1>1. conn[x].life = "new" /\ conn' = [conn EXCEPT ![x] = new]
  BY Zenon DEF Connect
<1>2. conn[x] \in Conn /\ NamePath(conn[x]) /\ conn[x].via = NoPath
  BY <1>1, Zenon DEF Inv, PeersFine, NameInv, RouteInv, PathFine, Unsent
<1>3. /\ new.life = "open" /\ new.via = conn[x].via /\ new.home = conn[x].home
      /\ new.via.dcid = Chosen
  BY <1>2 DEF Conn, NoPath
<1> HIDE DEF new
<1>4. NamePath(new)
  BY <1>1, <1>2, <1>3, Zenon DEF NamePath
<1> QED
  BY <1>1, <1>4, NameMoves, Zenon

\* The other steps leave name, path and connection ID alone.
LEMMA OtherName ==
  ASSUME Inv, NameInv,
         \/ \E x \in Conns, c \in Clients : Rebind(x, c)
         \/ \E x \in Conns : Close(x)
         \/ \E x \in Conns : \E type : DropPacket(x, type)
         \/ \E x \in Conns : \E p : ShortReply(x, p)
         \/ Tick \/ UNCHANGED conn
  PROVE  NameInv'
<1> DEFINE Stays(p, r) == /\ r.life \in {p.life, "closed"} /\ r.dcid = p.dcid
                          /\ r.phase = p.phase /\ r.via = p.via /\ r.home = p.home
<1>1. conn \in [Conns -> Conn]
  BY Zenon DEF Inv, PeersFine
<1>2. ASSUME NEW x \in Conns, NEW new, conn' = [conn EXCEPT ![x] = new], Stays(conn[x], new)
      PROVE  NameInv'
  <2>1. \A y \in Conns : conn'[y] = IF y = x THEN new ELSE conn[y]
    BY <1>1, <1>2, Zenon
  <2> QED
    BY <1>2, <2>1, NameStays, Zenon
<1>3. ASSUME NEW x \in Conns, NEW c \in Clients, Rebind(x, c) PROVE NameInv'
  <2> DEFINE new == [conn[x] EXCEPT !.at = c, !.tuples = conn[x].tuples \cup {c}]
  <2>1. conn' = [conn EXCEPT ![x] = new]
    BY <1>3, Zenon DEF Rebind
  <2>2. Stays(conn[x], new)
    BY <1>1, Zenon DEF Conn
  <2> QED
    BY <1>2, <2>1, <2>2, Zenon
<1>4. ASSUME NEW x \in Conns, Close(x) PROVE NameInv'
  <2> DEFINE new == [conn[x] EXCEPT !.life = "closed"]
  <2>1. conn' = [conn EXCEPT ![x] = new]
    BY <1>4, Zenon DEF Close
  <2>2. Stays(conn[x], new)
    BY <1>1, Zenon DEF Conn
  <2> QED
    BY <1>2, <2>1, <2>2, Zenon
<1>5. ASSUME NEW x \in Conns, NEW p, ShortReply(x, p) PROVE NameInv'
  <2> DEFINE new == [conn[x] EXCEPT !.seen = now]
  <2>1. conn' = [conn EXCEPT ![x] = new]
    BY <1>5, Zenon DEF ShortReply
  <2>2. Stays(conn[x], new)
    BY <1>1, Zenon DEF Conn
  <2> QED
    BY <1>2, <2>1, <2>2, Zenon
<1>6. CASE Tick
  <2> DEFINE lapse(x) == conn[x].lapsed \/ now' - conn[x].seen >= IdleTimeout
  <2>1. conn' = [x \in Conns |-> [conn[x] EXCEPT !.lapsed = lapse(x)]]
    BY <1>6, Zenon DEF Tick
  <2> HIDE DEF lapse
  <2>2. \A x \in Conns : Stays(conn[x], conn'[x])
    BY <1>1, <2>1, Zenon DEF Conn
  <2> QED
    BY <2>2, NameStays, Zenon
<1>7. CASE UNCHANGED conn
  BY <1>7, Zenon DEF NameInv
<1>8. ASSUME NEW x \in Conns, NEW type, DropPacket(x, type) PROVE NameInv'
  BY <1>7, <1>8, Zenon DEF DropPacket
<1> QED
  BY <1>3, <1>4, <1>5, <1>6, <1>7, <1>8, Zenon

LEMMA NameStep ==
  ASSUME FlowLaws, ~EarlyZeroRtt, Inv, RouteInv, NameInv, [Next]_vars
  PROVE  NameInv'
<1>1. ASSUME NEW x \in Conns, NEW c \in Clients, Connect(x, c) \/ Rebind(x, c) PROVE NameInv'
  BY <1>1, ConnectName, OtherName, Zenon
<1>2. ASSUME NEW x \in Conns, Close(x) PROVE NameInv'
  BY <1>2, OtherName, Zenon
<1>3. ASSUME NEW x \in Conns, NEW type \in Types, ClientPacket(x, type) PROVE NameInv'
  BY <1>3, FastName, OtherName, KnownName, FreshName, Zenon DEF ClientPacket
<1>4. ASSUME NEW x \in Conns, NEW p \in Slots, BackendPacket(x, p) PROVE NameInv'
  BY <1>4, LongName, OtherName, Zenon DEF BackendPacket
<1>5. CASE \/ \E cfg \in Configs : Reload(cfg)
           \/ Sweep \/ UNCHANGED vars
  BY <1>5, OtherName, Zenon DEF Reload, Sweep, vars
<1>6. CASE Tick
  BY <1>6, OtherName, Zenon
<1> QED
  BY <1>1, <1>2, <1>3, <1>4, <1>5, <1>6, Zenon DEF Next
=============================================================================
