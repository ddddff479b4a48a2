--------------------------- MODULE EventLoopProofs ---------------------------
(***************************************************************************)
(* For every set of documents, table size and order of events: that every  *)
(* return of qsr_udp_run gives back what the process holds, that the       *)
(* routes in force are found, that a reload spares the flows of the        *)
(* backends that stay, and the types of the loop's state.                  *)
(*                                                                         *)
(* The first part is what a configuration file loads as: by induction over *)
(* its entries, tables whose indexes have no holes before a key.  Of the   *)
(* invariants of the process, the first says what is held at each stage of *)
(* the start-up: what the stages before it acquired at least, and at most  *)
(* what its error path frees.  The second says how far the route table has *)
(* come, the third is that of the flow table (FlowLaws), and the last that *)
(* the ready list and the events taken from it are tags of the epoll set.  *)
(***************************************************************************)
EXTENDS EventLoop, FlowLaws, TLAPS

\* The limit of a leaf counts the time in which other leaves are prepared.
USE SMTT(30), Zenon

\* Below a bound, one more still fits.
LEMMA OneMore == \A m, n \in Nat : m < n => m + 1 <= n
OBVIOUS

-----------------------------------------------------------------------------
(* Probing *)

LEMMA ProbeDistFacts ==
  ASSUME NEW hash \in BucketIds
  PROVE  /\ \A k \in BucketIds : ProbeDist(hash, k) \in Nat
         /\ \A j, k \in BucketIds : ProbeDist(hash, j) = ProbeDist(hash, k) => j = k
BY RouteAssumption DEF BucketIds, ProbeDist

\* Probing from hash comes past filled buckets only, before k.
Placed(buckets, hash, k) ==
  \A j \in BucketIds : ProbeDist(hash, j) < ProbeDist(hash, k) => buckets[j] # 0

LEMMA EndsAtFirst ==
  ASSUME NumberLaws, NEW hash \in BucketIds, NEW stops, stops \subseteq BucketIds, stops # {}
  PROVE  /\ EndsAt(hash, stops) \in stops
         /\ \A j \in stops : ProbeDist(hash, EndsAt(hash, stops)) <= ProbeDist(hash, j)
<1> DEFINE T == {ProbeDist(hash, k) : k \in stops}
<1>1. T \subseteq Nat /\ T # {}
  BY ProbeDistFacts
<1>2. PICK x \in T : \A y \in T : x <= y
  <2> HIDE DEF T
  <2> QED
    BY <1>1, Zenon DEF NumberLaws, LeastLaw
<1>3. \E k \in stops : \A j \in stops : ProbeDist(hash, k) <= ProbeDist(hash, j)
  BY <1>2, Zenon
<1> QED
  BY <1>3, Zenon DEF EndsAt

\* A probe finds the member of S that was placed, and not a gap before it.
LEMMA ProbeFinds ==
  ASSUME NumberLaws, NEW hash \in BucketIds, NEW buckets \in [BucketIds -> Nat],
         NEW S, 0 \notin S,
         NEW k \in BucketIds, buckets[k] \in S, Placed(buckets, hash, k),
         NEW stops, stops = {j \in BucketIds : buckets[j] = 0 \/ buckets[j] \in S}
  PROVE  stops # {} /\ buckets[EndsAt(hash, stops)] \in S
<1> DEFINE e == EndsAt(hash, stops)
<1>1. k \in stops
  BY Zenon
<1>2. e \in stops /\ ProbeDist(hash, e) <= ProbeDist(hash, k)
  BY <1>1, EndsAtFirst, Zenon
<1> HIDE DEF e
<1>3. buckets[e] # 0
  <2>1. CASE ProbeDist(hash, e) < ProbeDist(hash, k)
    BY <1>2, <2>1, Zenon DEF Placed
  <2>2. CASE ~(ProbeDist(hash, e) < ProbeDist(hash, k))
    <3>1. e = k
      BY <1>2, <2>2, ProbeDistFacts
    <3> QED
      BY <3>1, Zenon
  <2> QED
    BY <2>1, <2>2, Zenon
<1> QED
  BY <1>1, <1>2, <1>3, Zenon DEF e

\* The first gap is a place, and filling it leaves the places there are.
LEMMA FillsGap ==
  ASSUME NumberLaws, NEW hash \in BucketIds, NEW buckets \in [BucketIds -> Nat], NEW v \in Nat \ {0},
         NEW gaps, gaps = {k \in BucketIds : buckets[k] = 0}, gaps # {},
         NEW at, at = EndsAt(hash, gaps),
         NEW filled, filled = [buckets EXCEPT ![at] = v]
  PROVE  /\ at \in BucketIds /\ buckets[at] = 0 /\ filled[at] = v
         /\ filled \in [BucketIds -> Nat]
         /\ \A k \in BucketIds \ {at} : filled[k] = buckets[k]
         /\ Placed(filled, hash, at)
         /\ \A h \in BucketIds, k \in BucketIds :
              Placed(buckets, h, k) => Placed(filled, h, k)
<1>1. at \in gaps /\ \A j \in gaps : ProbeDist(hash, at) <= ProbeDist(hash, j)
  BY EndsAtFirst, Zenon
<1>2. /\ filled \in [BucketIds -> Nat] /\ filled[at] = v
      /\ \A k \in BucketIds \ {at} : filled[k] = buckets[k]
  BY <1>1, Zenon
<1>3. ASSUME NEW j \in BucketIds, ProbeDist(hash, j) < ProbeDist(hash, at)
      PROVE  filled[j] # 0
  <2>1. j \notin gaps
    BY <1>1, <1>3, ProbeDistFacts
  <2>2. j # at /\ buckets[j] # 0
    BY <1>1, <2>1, Zenon
  <2> QED
    BY <1>2, <2>2, Zenon
<1>4. Placed(filled, hash, at)
  BY <1>3, Zenon DEF Placed
<1>5. \A h \in BucketIds, k \in BucketIds : Placed(buckets, h, k) => Placed(filled, h, k)
  BY <1>2, Zenon DEF Placed
<1> QED
  BY <1>1, <1>2, <1>4, <1>5, Zenon

-----------------------------------------------------------------------------
(* The table *)

Addresses == DOMAIN BackendHash
NormalNames == {Normal[sni] : sni \in DOMAIN Normal}

\* H and I are the hosts and the server ids of the file at hand.
RouteRecords(H, I) ==
  [sni : NormalNames, host : H, backend : Addresses \cup {Unresolved}, server_id : I]
RouteTables(H, I) ==
  [routes : Seq(RouteRecords(H, I)), buckets : [BucketIds -> Nat],
   backend_buckets : [BucketIds -> Nat], server_id_index : [ServerIds -> Nat]]

\* The index of names.
Named(t) ==
  /\ \A k \in BucketIds : t.buckets[k] \in 0 .. Len(t.routes)
  /\ \A i, j \in DOMAIN t.routes : t.routes[i].sni = t.routes[j].sni => i = j
  /\ \A i \in DOMAIN t.routes : \E k \in BucketIds :
       t.buckets[k] = i /\ Placed(t.buckets, SniHash[t.routes[i].sni], k)

\* The index of server ids.
Numbered(t) ==
  \A id \in ServerIds :
    /\ t.server_id_index[id] \in 0 .. Len(t.routes)
    /\ \A i \in DOMAIN t.routes : t.routes[i].server_id = id <=> t.server_id_index[id] = i

\* The index of addresses: before qsr_route_table_resolve, and in it, after n
\* of the routes.  No two buckets are of the same route, so the routes that
\* are left find a gap.
Blank(t) ==
  /\ \A i \in DOMAIN t.routes : t.routes[i].backend = Unresolved
  /\ \A k \in BucketIds : t.backend_buckets[k] = 0
Indexed(t, n) ==
  /\ \A i \in DOMAIN t.routes : t.routes[i].backend \in Addresses
  /\ \A k \in BucketIds : t.backend_buckets[k] \in 0 .. n
  /\ \A k, l \in BucketIds :
       t.backend_buckets[k] = t.backend_buckets[l] /\ t.backend_buckets[k] # 0 => k = l
  /\ \A i \in 1 .. n : \E k \in BucketIds :
       /\ t.backend_buckets[k] # 0
       /\ t.routes[t.backend_buckets[k]].backend = t.routes[i].backend
       /\ Placed(t.backend_buckets, BackendHash[t.routes[i].backend], k)

LEMMA LookupExact ==
  ASSUME NumberLaws, NEW H, NEW I, NEW t \in RouteTables(H, I), Named(t), NEW sni \in DOMAIN Normal
  PROVE  /\ Lookup(t, sni) \in 0 .. Len(t.routes)
         /\ \A i \in DOMAIN t.routes : t.routes[i].sni = Normal[sni] <=> Lookup(t, sni) = i
<1> DEFINE name == Normal[sni]
           hash == SniHash[name]
           S == {i \in DOMAIN t.routes : t.routes[i].sni = name}
           stops == {k \in BucketIds : t.buckets[k] = 0 \/ t.routes[t.buckets[k]].sni = name}
<1>1. /\ hash \in BucketIds /\ t.buckets \in [BucketIds -> Nat]
      /\ Len(t.routes) \in Nat /\ DOMAIN t.routes = 1 .. Len(t.routes)
  BY RouteAssumption DEF RouteTables
<1>2. stops = {k \in BucketIds : t.buckets[k] = 0 \/ t.buckets[k] \in S} /\ 0 \notin S
  BY <1>1 DEF Named
<1>3. Lookup(t, sni) = IF stops = {} THEN 0 ELSE t.buckets[EndsAt(hash, stops)]
  BY Zenon DEF Lookup
<1>4. stops \subseteq BucketIds
  BY Zenon
<1>5. \A i \in S : \E k \in BucketIds : t.buckets[k] = i /\ Placed(t.buckets, hash, k)
  BY Zenon DEF Named
<1>6. \A i, j \in S : i = j
  BY Zenon DEF Named
<1>7. S \subseteq 1 .. Len(t.routes)
  BY <1>1, Zenon
<1>8. \A i \in DOMAIN t.routes : t.routes[i].sni = name <=> i \in S
  BY Zenon
<1>9. \A k \in BucketIds : t.buckets[k] \in 0 .. Len(t.routes)
  BY Zenon DEF Named
<1> HIDE DEF name, hash, S, stops
<1>10. Lookup(t, sni) \in S \cup {0}
  <2>1. CASE stops = {}
    BY <1>3, <2>1, Zenon
  <2>2. CASE stops # {}
    <3>1. EndsAt(hash, stops) \in stops
      BY <1>1, <1>4, <2>2, EndsAtFirst, Zenon
    <3> QED
      BY <1>2, <1>3, <2>2, <3>1, Zenon
  <2> QED
    BY <2>1, <2>2, Zenon
<1>11. \A i \in S : Lookup(t, sni) \in S
  <2> SUFFICES ASSUME NEW i \in S PROVE Lookup(t, sni) \in S
    BY Zenon
  <2>1. PICK k \in BucketIds : t.buckets[k] = i /\ Placed(t.buckets, hash, k)
    BY <1>5, Zenon
  <2>2. stops # {} /\ t.buckets[EndsAt(hash, stops)] \in S
    BY <1>1, <1>2, <2>1, ProbeFinds, Zenon
  <2> QED
    BY <1>3, <2>2, Zenon
<1> DEFINE found == Lookup(t, sni)
<1> HIDE DEF found
<1>12. found \in S \cup {0} /\ \A i \in S : found \in S
  BY <1>10, <1>11, Zenon DEF found
<1>13. \A i \in DOMAIN t.routes : i \in S <=> found = i
  BY ONLY <1>1, <1>6, <1>7, <1>12, SMTT(30), Zenon
<1>14. found \in 0 .. Len(t.routes)
  BY ONLY <1>1, <1>7, <1>12, SMTT(30), Zenon
<1> QED
  BY <1>8, <1>13, <1>14, Zenon DEF name, found

LEMMA NewTableFacts ==
  ASSUME NEW H, NEW I
  PROVE  NewTable \in RouteTables(H, I) /\ Named(NewTable) /\ Numbered(NewTable)
         /\ Blank(NewTable) /\ NewTable.routes = <<>>
<1>1. NewTable \in RouteTables(H, I) /\ NewTable.routes = <<>>
  BY DEF NewTable, RouteTables
<1>2. Named(NewTable)
  BY DEF NewTable, Named
<1>3. Numbered(NewTable)
  BY RouteAssumption DEF NewTable, Numbered
<1>4. Blank(NewTable)
  BY DEF NewTable, Blank
<1> QED
  BY <1>1, <1>2, <1>3, <1>4, Zenon

\* What qsr_route_table_add does to the routes, and to the three indexes.
LEMMA AddFacts ==
  ASSUME NumberLaws, NEW H, NEW I, NEW t \in RouteTables(H, I), Named(t), Numbered(t), Blank(t),
         NEW r, r.host \in H, r.server_id \in I, CanAdd(t, r), NEW u, u = Add(t, r)
  PROVE  /\ u \in RouteTables(H, I) /\ Named(u) /\ Numbered(u) /\ Blank(u)
         /\ Len(u.routes) = Len(t.routes) + 1
         /\ u.routes[Len(u.routes)].host = r.host
         /\ \A i \in DOMAIN t.routes : u.routes[i] = t.routes[i]
<1> DEFINE name == Normal[r.sni]
           gaps == {k \in BucketIds : t.buckets[k] = 0}
           at == EndsAt(SniHash[name], gaps)
           n == Len(t.routes) + 1
           new == [sni |-> name, host |-> r.host, backend |-> Unresolved,
                   server_id |-> r.server_id]
<1>1. /\ t.routes \in Seq(RouteRecords(H, I)) /\ Len(t.routes) \in Nat /\ n \in Nat \ {0}
      /\ DOMAIN t.routes = 1 .. n - 1
      /\ t.buckets \in [BucketIds -> Nat]
  BY DEF RouteTables
<1>2. /\ r.sni \in DOMAIN Normal /\ Lookup(t, r.sni) = 0 /\ gaps # {}
      /\ r.server_id # 0 => t.server_id_index[r.server_id] = 0
  BY Zenon DEF CanAdd
<1>3. SniHash[name] \in BucketIds /\ name \in NormalNames
  BY <1>2, RouteAssumption, Zenon DEF NormalNames
<1>4. new \in RouteRecords(H, I)
  BY <1>3, Zenon DEF RouteRecords
<1>5. u = [t EXCEPT !.routes = Append(t.routes, new), !.buckets = [t.buckets EXCEPT ![at] = n],
                    !.server_id_index = [id \in ServerIds |->
                       IF id = r.server_id THEN n ELSE t.server_id_index[id]]]
  BY Zenon DEF Add, RouteTables
<1>6. /\ u.routes = Append(t.routes, new) /\ u.buckets = [t.buckets EXCEPT ![at] = n]
      /\ u.backend_buckets = t.backend_buckets
      /\ u.server_id_index = [id \in ServerIds |->
           IF id = r.server_id THEN n ELSE t.server_id_index[id]]
  BY <1>5, Zenon DEF RouteTables
<1> HIDE DEF new, n, name
<1>7. /\ u.routes \in Seq(RouteRecords(H, I)) /\ Len(u.routes) = n
      /\ DOMAIN u.routes = 1 .. n
      /\ u.routes[n] = new
      /\ \A i \in 1 .. n - 1 : u.routes[i] = t.routes[i]
  BY <1>1, <1>4, <1>6 DEF n
<1>8. /\ at \in BucketIds /\ t.buckets[at] = 0 /\ u.buckets[at] = n
      /\ u.buckets \in [BucketIds -> Nat]
      /\ \A k \in BucketIds \ {at} : u.buckets[k] = t.buckets[k]
      /\ Placed(u.buckets, SniHash[name], at)
      /\ \A h \in BucketIds, k \in BucketIds :
           Placed(t.buckets, h, k) => Placed(u.buckets, h, k)
  <2> HIDE DEF at, gaps
  <2>1. /\ SniHash[name] \in BucketIds /\ t.buckets \in [BucketIds -> Nat]
        /\ n \in Nat \ {0} /\ gaps # {}
        /\ u.buckets = [t.buckets EXCEPT ![at] = n]
    BY <1>1, <1>2, <1>3, <1>6, Zenon
  <2>2. gaps = {k \in BucketIds : t.buckets[k] = 0} /\ at = EndsAt(SniHash[name], gaps)
    BY Zenon DEF gaps, at
  <2> DEFINE hash == SniHash[name]
             old == t.buckets
             filled == u.buckets
  <2>3. /\ hash \in BucketIds /\ old \in [BucketIds -> Nat] /\ n \in Nat \ {0}
        /\ gaps = {k \in BucketIds : old[k] = 0} /\ gaps # {}
        /\ at = EndsAt(hash, gaps) /\ filled = [old EXCEPT ![at] = n]
    BY <2>1, <2>2, Zenon
  <2> HIDE DEF hash, old, filled
  <2>4. /\ at \in BucketIds /\ old[at] = 0 /\ filled[at] = n
        /\ filled \in [BucketIds -> Nat]
    BY ONLY NumberLaws, <2>3, FillsGap, SMTT(30), Zenon
  <2>5. \A k \in BucketIds \ {at} : filled[k] = old[k]
    BY ONLY NumberLaws, <2>3, FillsGap, Zenon
  <2>6. Placed(filled, hash, at)
    <3>1. gaps \subseteq BucketIds
      BY <2>3, Zenon
    <3>2. \A j \in gaps : ProbeDist(hash, at) <= ProbeDist(hash, j)
      BY ONLY NumberLaws, <2>3, <3>1, EndsAtFirst, Zenon
    <3>3. \A j \in BucketIds : ProbeDist(hash, j) \in Nat
      BY <2>3, ProbeDistFacts, Zenon
    <3> QED
      BY ONLY <2>3, <2>4, <2>5, <3>2, <3>3, SMTT(30), Zenon DEF Placed
  <2>7. \A h \in BucketIds, k \in BucketIds : Placed(old, h, k) => Placed(filled, h, k)
    BY ONLY <2>3, <2>4, <2>5, Zenon DEF Placed
  <2> QED
    BY <2>4, <2>5, <2>6, <2>7, Zenon DEF hash, old, filled
<1> HIDE DEF at, gaps
<1>9. u \in RouteTables(H, I)
  <2>1. u.server_id_index \in [ServerIds -> Nat]
    BY <1>1, <1>6 DEF RouteTables
  <2>2. u.backend_buckets \in [BucketIds -> Nat]
    BY <1>6, Zenon DEF RouteTables
  <2>3. u = [routes |-> u.routes, buckets |-> u.buckets,
             backend_buckets |-> u.backend_buckets, server_id_index |-> u.server_id_index]
    BY <1>5, Zenon DEF RouteTables
  <2> QED
    BY <1>7, <1>8, <2>1, <2>2, <2>3, Zenon DEF RouteTables
<1>10. new.sni = name /\ new.server_id = r.server_id /\ new.backend = Unresolved
       /\ new.host = r.host
  BY Zenon DEF new
<1>rows. /\ n \in Nat \ {0} /\ u.routes[n] = new
         /\ \A i \in 1 .. n - 1 : u.routes[i] = t.routes[i]
  BY <1>1, <1>7, Zenon
<1>11. Named(u)
  <2>1. \A i \in 1 .. n - 1 : t.routes[i].sni # name
    BY <1>1, <1>2, LookupExact DEF name
  <2>2. \A k \in BucketIds : u.buckets[k] \in 0 .. n
    BY <1>1, <1>8 DEF Named, n
  <2>3. \A i, j \in 1 .. n : u.routes[i].sni = u.routes[j].sni => i = j
    <3>1. \A i, j \in 1 .. n - 1 : t.routes[i].sni = t.routes[j].sni => i = j
      BY <1>1, Zenon DEF Named
    <3> QED
      BY ONLY <2>1, <3>1, <1>rows, <1>10, SMTT(30), Zenon
  <2>4. ASSUME NEW i \in 1 .. n
        PROVE  \E k \in BucketIds :
                 u.buckets[k] = i /\ Placed(u.buckets, SniHash[u.routes[i].sni], k)
    <3>1. CASE i = n
      BY <3>1, <1>rows, <1>8, <1>10, Zenon
    <3>2. CASE i # n
      <4>1. i \in 1 .. n - 1 /\ u.routes[i] = t.routes[i]
        BY <1>rows, <3>2
      <4>2. PICK k \in BucketIds :
              t.buckets[k] = i /\ Placed(t.buckets, SniHash[t.routes[i].sni], k)
        BY <1>1, <4>1, Zenon DEF Named
      <4>3. SniHash[t.routes[i].sni] \in BucketIds
        <5>1. t.routes[i] \in RouteRecords(H, I)
          BY <1>1, <4>1
        <5> QED
          BY <5>1, RouteAssumption, Zenon DEF RouteRecords, NormalNames
      <4>4. k # at
        BY <1>8, <4>1, <4>2
      <4> QED
        BY <1>8, <4>1, <4>2, <4>3, <4>4, Zenon
    <3> QED
      BY <3>1, <3>2, Zenon
  <2> QED
    BY <1>7, <2>2, <2>3, <2>4, Zenon DEF Named
<1>12. Numbered(u)
  <2> SUFFICES ASSUME NEW id \in ServerIds
               PROVE  /\ u.server_id_index[id] \in 0 .. n
                      /\ \A i \in 1 .. n :
                           u.routes[i].server_id = id <=> u.server_id_index[id] = i
    BY <1>7, Zenon DEF Numbered
  <2>1. /\ t.server_id_index[id] \in 0 .. n - 1
        /\ \A i \in 1 .. n - 1 :
             t.routes[i].server_id = id <=> t.server_id_index[id] = i
    BY <1>1 DEF Numbered, n
  <2>2. u.server_id_index[id] = IF id = r.server_id THEN n ELSE t.server_id_index[id]
    BY <1>6, Zenon
  <2>3. CASE id = r.server_id
    <3>1. t.server_id_index[id] = 0
      BY <1>2, <2>3, RouteAssumption, Zenon
    <3> QED
      BY ONLY <1>rows, <1>10, <2>1, <2>2, <2>3, <3>1, SMTT(30), Zenon
  <2>4. CASE id # r.server_id
    BY ONLY <1>rows, <1>10, <2>1, <2>2, <2>4, SMTT(30), Zenon
  <2> QED
    BY <2>3, <2>4, Zenon
<1>13. Blank(u)
  BY <1>1, <1>6, <1>7, <1>10 DEF Blank
<1> QED
  BY <1>1, <1>7, <1>9, <1>10, <1>11, <1>12, <1>13, Zenon DEF n

\* More buckets than routes: one of them is a gap.
LEMMA GapLeft ==
  ASSUME NumberLaws, NEW n \in 1 .. RouteBuckets, NEW buckets \in [BucketIds -> 0 .. n - 1],
         \A k, l \in BucketIds : buckets[k] = buckets[l] /\ buckets[k] # 0 => k = l
  PROVE  \E k \in BucketIds : buckets[k] = 0
<1> SUFFICES ASSUME \A k \in BucketIds : buckets[k] # 0 PROVE FALSE
  BY Zenon
<1> DEFINE f == [i \in 1 .. RouteBuckets |-> buckets[i - 1]]
<1>1. RouteBuckets \in Nat /\ n - 1 \in Nat /\ n - 1 < RouteBuckets
  BY RouteAssumption
<1>2. \A i \in 1 .. RouteBuckets : i - 1 \in BucketIds
  BY <1>1 DEF BucketIds
<1>3. f \in [1 .. RouteBuckets -> 1 .. n - 1]
  BY <1>1, <1>2
<1>4. \A i, j \in 1 .. RouteBuckets : f[i] = f[j] => i = j
  <2> SUFFICES ASSUME NEW i \in 1 .. RouteBuckets, NEW j \in 1 .. RouteBuckets, f[i] = f[j]
               PROVE  i = j
    BY Zenon
  <2>1. i - 1 = j - 1
    BY <1>2, Zenon
  <2> QED
    BY ONLY <1>1, <2>1, SMT
<1> HIDE DEF f
<1>5. Into(f, RouteBuckets, n - 1)
  BY <1>3, Zenon DEF Into
<1>6. \E x, y \in 1 .. RouteBuckets : x # y /\ f[x] = f[y]
  BY <1>1, <1>5 DEF NumberLaws, PigeonLaw
<1> QED
  BY <1>4, <1>6, Zenon

\* backend_index_put of route n: its address is there already, under another
\* route, or goes into the first gap.
LEMMA IndexPutFacts ==
  ASSUME NumberLaws, NEW H, NEW I, NEW t \in RouteTables(H, I), Len(t.routes) <= MaxRoutes,
         NEW n \in DOMAIN t.routes, Indexed(t, n - 1), NEW u, u = BackendIndexPut(t, n)
  PROVE  /\ u \in RouteTables(H, I) /\ Indexed(u, n)
         /\ u.routes = t.routes /\ u.buckets = t.buckets
         /\ u.server_id_index = t.server_id_index
<1> DEFINE addr == t.routes[n].backend
           hash == BackendHash[addr]
           old == t.backend_buckets
           S == {i \in 1 .. n - 1 : t.routes[i].backend = addr}
           stops == BackendStops(t, addr)
           at == EndsAt(hash, stops)
           bb == [old EXCEPT ![at] = IF old[at] = 0 THEN n ELSE old[at]]
<1>1. /\ t.routes \in Seq(RouteRecords(H, I)) /\ Len(t.routes) \in Nat
      /\ DOMAIN t.routes = 1 .. Len(t.routes) /\ n \in Nat \ {0}
      /\ n \in 1 .. RouteBuckets /\ n <= Len(t.routes)
      /\ old \in [BucketIds -> Nat]
  BY RouteAssumption DEF RouteTables
<1>2. addr \in Addresses /\ hash \in BucketIds
  BY RouteAssumption, Zenon DEF Indexed, Addresses
<1>3. /\ \A k \in BucketIds : old[k] \in 0 .. n - 1
      /\ \A k, l \in BucketIds : old[k] = old[l] /\ old[k] # 0 => k = l
      /\ \A i \in DOMAIN t.routes : t.routes[i].backend \in Addresses
      /\ \A i \in 1 .. n - 1 : \E k \in BucketIds :
           /\ old[k] # 0
           /\ t.routes[old[k]].backend = t.routes[i].backend
           /\ Placed(old, BackendHash[t.routes[i].backend], k)
  BY Zenon DEF Indexed
<1>4. stops = {k \in BucketIds : old[k] = 0 \/ old[k] \in S} /\ 0 \notin S
  BY <1>1, <1>3 DEF BackendStops
<1>5. /\ u = [t EXCEPT !.backend_buckets = bb]
      /\ u.backend_buckets = bb /\ u.routes = t.routes /\ u.buckets = t.buckets
      /\ u.server_id_index = t.server_id_index
  BY Zenon DEF BackendIndexPut, RouteTables
<1>6. \A i \in 1 .. n - 1 : i \in S <=> t.routes[i].backend = addr
  BY Zenon
<1> HIDE DEF S, stops, at
<1>7. CASE S # {}
  <2>1. PICK k \in BucketIds : old[k] \in S /\ Placed(old, hash, k)
    <3>1. PICK i \in S : i \in 1 .. n - 1 /\ t.routes[i].backend = addr
      BY <1>7, Zenon DEF S
    <3>2. PICK k \in BucketIds : /\ old[k] # 0
                                 /\ t.routes[old[k]].backend = t.routes[i].backend
                                 /\ Placed(old, BackendHash[t.routes[i].backend], k)
      BY <1>3, <3>1, Zenon
    <3>3. old[k] \in S
      BY <1>3, <1>6, <3>1, <3>2
    <3> QED
      BY <3>1, <3>2, <3>3, Zenon
  <2>2. old[at] \in S
    BY <1>1, <1>2, <1>4, <2>1, ProbeFinds, Zenon DEF at
  <2>3. bb = old
    BY <1>1, <1>4, <2>2, Zenon
  <2>4. u = t
    BY <1>5, <2>3 DEF RouteTables
  <2>5. old[k] # 0 /\ t.routes[old[k]].backend = addr
    BY <1>4, <2>1, Zenon DEF S
  <2>6. Indexed(t, n)
    <3>1. \A j \in BucketIds : old[j] \in 0 .. n
      BY <1>1, <1>3
    <3>2. \A i \in 1 .. n : i = n \/ i \in 1 .. n - 1
      BY <1>1
    <3> QED
      BY <1>3, <2>1, <2>5, <3>1, <3>2, Zenon DEF Indexed
  <2> QED
    BY <1>5, <2>4, <2>6, Zenon
<1>8. CASE S = {}
  <2>1. stops = {k \in BucketIds : old[k] = 0}
    BY <1>4, <1>8, Zenon
  <2>2. stops # {}
    <3>1. old \in [BucketIds -> 0 .. n - 1]
      BY <1>1, <1>3, Zenon
    <3> QED
      BY <1>1, <1>3, <2>1, <3>1, GapLeft, Zenon
  <2>3. at \in BucketIds /\ old[at] = 0
    <3> HIDE DEF old, hash, addr
    <3>1. stops \subseteq BucketIds
      BY <2>1, Zenon
    <3>2. at \in stops
      BY ONLY NumberLaws, <1>2, <2>2, <3>1, EndsAtFirst, Zenon DEF at
    <3> QED
      BY <2>1, <3>2, Zenon
  <2>4. bb = [old EXCEPT ![at] = n]
    BY <2>3, Zenon
  <2> HIDE DEF bb, old, addr, hash
  <2>5. /\ bb[at] = n /\ bb \in [BucketIds -> Nat]
        /\ \A k \in BucketIds \ {at} : bb[k] = old[k]
        /\ Placed(bb, hash, at)
        /\ \A h \in BucketIds, k \in BucketIds : Placed(old, h, k) => Placed(bb, h, k)
    <3> DEFINE v == n
    <3>1. at = EndsAt(hash, stops) /\ bb = [old EXCEPT ![at] = v]
      BY <2>4, Zenon DEF at
    <3>2. v \in Nat \ {0} /\ old \in [BucketIds -> Nat] /\ hash \in BucketIds
      BY <1>1, <1>2, Zenon
    <3> HIDE DEF v
    <3>3. /\ bb[at] = v /\ bb \in [BucketIds -> Nat]
          /\ \A k \in BucketIds \ {at} : bb[k] = old[k]
          /\ Placed(bb, hash, at)
          /\ \A h \in BucketIds, k \in BucketIds : Placed(old, h, k) => Placed(bb, h, k)
      <4>1. at \in BucketIds /\ old[at] = 0 /\ bb[at] = v
        BY ONLY NumberLaws, <2>1, <2>2, <3>1, <3>2, FillsGap, SMTT(30), Zenon
      <4>2. bb \in [BucketIds -> Nat]
        BY ONLY NumberLaws, <2>1, <2>2, <3>1, <3>2, FillsGap, Zenon
      <4>3. \A k \in BucketIds \ {at} : bb[k] = old[k]
        BY ONLY NumberLaws, <2>1, <2>2, <3>1, <3>2, FillsGap, Zenon
      <4>4. Placed(bb, hash, at)
        <5>1. stops \subseteq BucketIds
          BY <2>1, Zenon
        <5>2. \A j \in stops : ProbeDist(hash, at) <= ProbeDist(hash, j)
          BY ONLY NumberLaws, <2>2, <3>1, <3>2, <5>1, EndsAtFirst, Zenon
        <5>3. \A j \in BucketIds : ProbeDist(hash, j) \in Nat
          BY <3>2, ProbeDistFacts, Zenon
        <5> QED
          BY ONLY <2>1, <4>1, <4>3, <5>2, <5>3, SMTT(30), Zenon DEF Placed
      <4>5. \A h \in BucketIds, k \in BucketIds : Placed(old, h, k) => Placed(bb, h, k)
        BY ONLY <4>1, <4>3, <3>2, Zenon DEF Placed
      <4> QED
        BY ONLY <4>1, <4>2, <4>3, <4>4, <4>5, Zenon
    <3> QED
      BY <3>3, Zenon DEF v
  <2>6. u \in RouteTables(H, I)
    BY <1>5, <2>5, Zenon DEF RouteTables
  <2>7. \A k \in BucketIds : bb[k] \in 0 .. n
    <3>1. n \in Nat /\ \A k \in BucketIds : old[k] \in 0 .. n - 1
      BY <1>1, <1>3, Zenon
    <3> QED
      BY ONLY <2>5, <3>1, SMTT(30), Zenon
  <2>8. \A k, l \in BucketIds : bb[k] = bb[l] /\ bb[k] # 0 => k = l
    BY <1>1, <1>3, <2>5
  <2>9. ASSUME NEW i \in 1 .. n
        PROVE  \E k \in BucketIds : /\ bb[k] # 0
                                     /\ t.routes[bb[k]].backend = t.routes[i].backend
                                     /\ Placed(bb, BackendHash[t.routes[i].backend], k)
    <3>1. CASE i = n
      BY <1>1, <2>3, <2>5, <3>1, Zenon DEF hash, addr
    <3>2. CASE i # n
      <4>1. i \in 1 .. n - 1 /\ i \in DOMAIN t.routes
        BY <1>1, <3>2
      <4>2. PICK k \in BucketIds : /\ old[k] # 0
                                   /\ t.routes[old[k]].backend = t.routes[i].backend
                                   /\ Placed(old, BackendHash[t.routes[i].backend], k)
        BY <1>3, <4>1, Zenon
      <4>3. BackendHash[t.routes[i].backend] \in BucketIds
        BY <1>3, <4>1, RouteAssumption, Zenon DEF Addresses
      <4>4. k # at
        BY <2>3, <4>2, Zenon
      <4> QED
        BY <2>5, <4>2, <4>3, <4>4, Zenon
    <3> QED
      BY <3>1, <3>2, Zenon
  <2>10. Indexed(u, n)
    BY <1>3, <1>5, <2>7, <2>8, <2>9, Zenon DEF Indexed
  <2> QED
    BY <1>5, <2>6, <2>10, Zenon
<1> QED
  BY <1>7, <1>8, Zenon

LEMMA IndexPutType ==
  ASSUME NEW H, NEW I, NEW t \in RouteTables(H, I), NEW n \in Nat
  PROVE  BackendIndexPut(t, n) \in RouteTables(H, I)
<1> DEFINE at == EndsAt(BackendHash[t.routes[n].backend], BackendStops(t, t.routes[n].backend))
           old == t.backend_buckets
           bb == [old EXCEPT ![at] = IF old[at] = 0 THEN n ELSE old[at]]
<1>1. BackendIndexPut(t, n) = [t EXCEPT !.backend_buckets = bb]
  BY Zenon DEF BackendIndexPut, RouteTables
<1> HIDE DEF at
<1>2. old \in [BucketIds -> Nat]
  BY Zenon DEF RouteTables
<1>3. bb \in [BucketIds -> Nat]
  BY <1>2, Zenon
<1> HIDE DEF bb
<1> QED
  BY <1>1, <1>3, Zenon DEF RouteTables

\* The routes with their addresses, before the addresses are indexed.
Addressed(t) ==
  [t EXCEPT !.routes = [i \in DOMAIN t.routes |->
                          [t.routes[i] EXCEPT !.backend = Resolves[t.routes[i].host]]],
            !.backend_buckets = [k \in BucketIds |-> 0]]

LEMMA AddressedFacts ==
  ASSUME NEW H, NEW I, NEW t \in RouteTables(H, I), Named(t), Numbered(t), CanResolve(t),
         NEW u, u = Addressed(t)
  PROVE  /\ u \in RouteTables(H, I) /\ Named(u) /\ Numbered(u) /\ Indexed(u, 0)
         /\ Len(u.routes) = Len(t.routes) /\ DOMAIN u.routes = DOMAIN t.routes
         /\ \A i \in DOMAIN t.routes : u.routes[i].backend = Resolves[t.routes[i].host]
<1>1. /\ t.routes \in Seq(RouteRecords(H, I)) /\ Len(t.routes) \in Nat
      /\ DOMAIN t.routes = 1 .. Len(t.routes)
  BY DEF RouteTables
<1> DEFINE With(i) == [t.routes[i] EXCEPT !.backend = Resolves[t.routes[i].host]]
           routes == [i \in DOMAIN t.routes |-> With(i)]
<1>2. ASSUME NEW i \in DOMAIN t.routes
      PROVE  /\ With(i) \in RouteRecords(H, I) /\ With(i).sni = t.routes[i].sni
             /\ With(i).server_id = t.routes[i].server_id
             /\ With(i).backend = Resolves[t.routes[i].host] /\ With(i).backend \in Addresses
  <2>1. t.routes[i] \in RouteRecords(H, I)
    BY <1>1
  <2>2. Resolves[t.routes[i].host] \in Addresses
    BY RouteAssumption, Zenon DEF CanResolve, Addresses
  <2> QED
    BY <2>1, <2>2, Zenon DEF RouteRecords
<1> HIDE DEF With
<1>3. /\ routes \in Seq(RouteRecords(H, I)) /\ Len(routes) = Len(t.routes)
      /\ DOMAIN routes = DOMAIN t.routes
      /\ \A i \in DOMAIN t.routes : routes[i] = With(i)
  BY <1>1, <1>2
<1>4. /\ u.routes = routes /\ u.buckets = t.buckets
      /\ u.backend_buckets = [k \in BucketIds |-> 0]
      /\ u.server_id_index = t.server_id_index
      /\ u = [t EXCEPT !.routes = routes, !.backend_buckets = [k \in BucketIds |-> 0]]
  BY Zenon DEF Addressed, RouteTables, With
<1> HIDE DEF routes
<1>5. u \in RouteTables(H, I)
  <2> DEFINE none == [k \in BucketIds |-> 0]
  <2>1. none \in [BucketIds -> Nat]
    BY Zenon
  <2>2. u = [t EXCEPT !.routes = routes, !.backend_buckets = none]
    BY <1>4, Zenon
  <2> HIDE DEF none
  <2>3. routes \in Seq(RouteRecords(H, I))
    BY <1>3, Zenon
  <2> QED
    BY ONLY <2>1, <2>2, <2>3, t \in RouteTables(H, I), Zenon DEF RouteTables
<1>6. \A i \in DOMAIN t.routes : /\ u.routes[i].sni = t.routes[i].sni
                                  /\ u.routes[i].server_id = t.routes[i].server_id
                                  /\ u.routes[i].backend = Resolves[t.routes[i].host]
                                  /\ u.routes[i].backend \in Addresses
  BY <1>2, <1>3, <1>4, Zenon
<1>7. Named(u)
  BY <1>3, <1>4, <1>6 DEF Named
<1>8. Numbered(u)
  BY <1>3, <1>4, <1>6 DEF Numbered
<1>9. Indexed(u, 0)
  BY <1>3, <1>4, <1>6 DEF Indexed
<1> QED
  BY <1>3, <1>4, <1>5, <1>6, <1>7, <1>8, <1>9, Zenon

\* qsr_route_table_resolve.
LEMMA ResolveFacts ==
  ASSUME NumberLaws, NEW H, NEW I, NEW t \in RouteTables(H, I), Named(t), Numbered(t), CanResolve(t),
         Len(t.routes) <= MaxRoutes, NEW u, u = Resolve(t)
  PROVE  /\ u \in RouteTables(H, I) /\ Named(u) /\ Numbered(u) /\ Indexed(u, Len(u.routes))
         /\ Len(u.routes) = Len(t.routes)
         /\ \A i \in DOMAIN t.routes : u.routes[i].backend = Resolves[t.routes[i].host]
<1> DEFINE T == RouteTables(H, I)
           N == Len(t.routes)
           first == Addressed(t)
           step == [n \in 1 .. N |-> [v \in T |-> BackendIndexPut(v, n)]]
           Eq(f) == f = [n \in 0 .. N |-> IF n = 0 THEN first ELSE BackendIndexPut(f[n - 1], n)]
           walk == CHOOSE f : Eq(f)
<1>1. u = walk[N]
  BY Zenon DEF Resolve, Addressed
<1>2. /\ first \in T /\ Named(first) /\ Numbered(first) /\ Indexed(first, 0)
      /\ Len(first.routes) = N /\ DOMAIN first.routes = DOMAIN t.routes
      /\ \A i \in DOMAIN t.routes : first.routes[i].backend = Resolves[t.routes[i].host]
  BY AddressedFacts
<1>3. N \in Nat /\ DOMAIN t.routes = 1 .. N
  BY DEF RouteTables
<1> HIDE DEF first, N
<1>4. \A n \in 1 .. N, v \in T : BackendIndexPut(v, n) \in T
  BY <1>3, IndexPutType
<1> HIDE DEF T
<1>5. step \in [1 .. N -> [T -> T]]
  BY <1>4, Zenon
<1>6. \A n \in 1 .. N, v \in T : step[n][v] = BackendIndexPut(v, n)
  BY Zenon
<1> HIDE DEF step
<1>7. \E f : Eq(f)
  <2>1. PICK f \in [0 .. N -> T] : Stepwise(f, first, step, N)
    BY <1>2, <1>3, <1>5, Zenon DEF NumberLaws, StepsLaw
  <2>2. \A n \in 0 .. N : f[n] = IF n = 0 THEN first ELSE BackendIndexPut(f[n - 1], n)
    BY <2>1, <1>3, <1>6 DEF Stepwise
  <2>3. Eq(f)
    BY <2>2, Zenon
  <2> QED
    BY <2>3, Zenon
<1>8. Eq(walk)
  BY <1>7, Zenon
<1> HIDE DEF walk
<1>9. walk[0] = first /\ \A n \in 1 .. N : walk[n] = BackendIndexPut(walk[n - 1], n)
  <2>1. \A n \in 0 .. N : walk[n] = IF n = 0 THEN first ELSE BackendIndexPut(walk[n - 1], n)
    BY <1>8, Zenon
  <2> QED
    BY <2>1, <1>3
<1> DEFINE Good(v, n) == /\ v \in T /\ Indexed(v, n)
                         /\ v.routes = first.routes /\ v.buckets = first.buckets
                         /\ v.server_id_index = first.server_id_index
           P == {n \in 0 .. N : Good(walk[n], n)}
<1>10. 0 \in P
  BY <1>2, <1>3, <1>9
<1>11. ASSUME NEW n \in 1 .. N, n - 1 \in P PROVE n \in P
  <2>1. walk[n - 1] \in T /\ Indexed(walk[n - 1], n - 1) /\ walk[n - 1].routes = first.routes
    BY <1>11, Zenon
  <2>2. n \in DOMAIN walk[n - 1].routes /\ Len(walk[n - 1].routes) <= MaxRoutes
    BY <1>2, <1>3, <2>1, Zenon DEF N
  <2>3. walk[n] = BackendIndexPut(walk[n - 1], n)
    BY <1>9, Zenon
  <2>4. /\ walk[n] \in T /\ Indexed(walk[n], n)
        /\ walk[n].routes = walk[n - 1].routes /\ walk[n].buckets = walk[n - 1].buckets
        /\ walk[n].server_id_index = walk[n - 1].server_id_index
    BY <2>1, <2>2, <2>3, IndexPutFacts DEF T
  <2> QED
    BY <1>11, <2>4
<1>12. Good(u, N)
  <2> HIDE DEF P
  <2>1. \A n \in 1 .. N : n - 1 \in P => n \in P
    BY <1>11, Zenon
  <2>2. \A n \in 0 .. N : n \in P
    BY ONLY NumberLaws, <1>3, <1>10, <2>1, Zenon DEF NumberLaws, UpToLaw
  <2> QED
    BY <1>1, <1>3, <2>2 DEF P
<1>13. Named(u)
  BY <1>2, <1>12 DEF Named
<1>14. Numbered(u)
  BY <1>2, <1>12 DEF Numbered
<1> QED
  BY <1>2, <1>12, <1>13, <1>14, Zenon DEF T, N

\* The same in one word.
ResolvedFrom(H, I, t, u) ==
  /\ u \in RouteTables(H, I) /\ Len(u.routes) = Len(t.routes)
  /\ \A i \in DOMAIN t.routes : u.routes[i].backend = Resolves[t.routes[i].host]

\* Resolve leaves the table resolved from the one it was given.
LEMMA ResolvesFrom ==
  ASSUME NumberLaws, NEW H, NEW I, NEW t \in RouteTables(H, I), Named(t), Numbered(t), CanResolve(t),
         Len(t.routes) <= MaxRoutes
  PROVE  ResolvedFrom(H, I, t, Resolve(t))
BY ResolveFacts DEF ResolvedFrom

\* The lookup of an address by qsr_route_table_has_backend.
LEMMA HasBackendExact ==
  ASSUME NumberLaws, NEW H, NEW I, NEW t \in RouteTables(H, I), Blank(t) \/ Indexed(t, Len(t.routes)),
         NEW addr \in Addresses
  PROVE  HasBackend(t, addr) <=> \E i \in DOMAIN t.routes : t.routes[i].backend = addr
<1> DEFINE hash == BackendHash[addr]
           bb == t.backend_buckets
           S == {i \in DOMAIN t.routes : t.routes[i].backend = addr}
           stops == BackendStops(t, addr)
<1>1. /\ hash \in BucketIds /\ bb \in [BucketIds -> Nat]
      /\ Len(t.routes) \in Nat /\ DOMAIN t.routes = 1 .. Len(t.routes)
  BY RouteAssumption DEF RouteTables, Addresses
<1>2. stops = {k \in BucketIds : bb[k] = 0 \/ bb[k] \in S} /\ 0 \notin S
  BY <1>1 DEF BackendStops, Blank, Indexed
<1>3. HasBackend(t, addr) <=> stops # {} /\ bb[EndsAt(hash, stops)] # 0
  BY Zenon DEF HasBackend
<1>4. ASSUME NEW i \in S
      PROVE  \E k \in BucketIds : bb[k] \in S /\ Placed(bb, hash, k)
  <2>1. CASE Blank(t)
    BY <2>1, RouteAssumption, Zenon DEF Blank, Addresses
  <2>2. CASE Indexed(t, Len(t.routes))
    <3>1. PICK k \in BucketIds : /\ bb[k] # 0 /\ t.routes[bb[k]].backend = addr
                                 /\ Placed(bb, hash, k)
      BY <1>1, <2>2, Zenon DEF Indexed
    <3>2. bb[k] \in 1 .. Len(t.routes)
      BY <1>1, <2>2, <3>1 DEF Indexed
    <3> QED
      BY ONLY <1>1, <3>1, <3>2, S = {j \in DOMAIN t.routes : t.routes[j].backend = addr}, Zenon
  <2> QED
    BY <2>1, <2>2, Zenon
<1>5. S # {} <=> \E i \in DOMAIN t.routes : t.routes[i].backend = addr
  BY Zenon
<1>6. stops \subseteq BucketIds
  BY <1>2, Zenon
<1> HIDE DEF hash, bb, S, stops
<1>7. CASE S # {}
  <2>1. PICK k \in BucketIds : bb[k] \in S /\ Placed(bb, hash, k)
    BY <1>4, <1>7, Zenon
  <2>2. stops # {} /\ bb[EndsAt(hash, stops)] \in S
    BY <1>1, <1>2, <2>1, ProbeFinds, Zenon
  <2> QED
    BY <1>2, <1>3, <1>5, <1>7, <2>2, Zenon
<1>8. CASE S = {}
  <2>1. ASSUME stops # {} PROVE bb[EndsAt(hash, stops)] = 0
    <3>1. EndsAt(hash, stops) \in stops
      BY <1>1, <1>6, <2>1, EndsAtFirst, Zenon
    <3> QED
      BY <1>2, <1>8, <3>1, Zenon
  <2> QED
    BY <1>3, <1>5, <1>8, <2>1, Zenon
<1> QED
  BY <1>7, <1>8, Zenon

LEMMA PartsExact ==
  ASSUME NumberLaws, NEW H, NEW I, NEW t \in RouteTables(H, I), Named(t), Numbered(t),
         Blank(t) \/ Indexed(t, Len(t.routes))
  PROVE  IndexesExact(t)
<1>1. \A sni \in DOMAIN Normal : \A i \in DOMAIN t.routes :
        t.routes[i].sni = Normal[sni] <=> Lookup(t, sni) = i
  BY LookupExact
<1>2. \A id \in ServerIds : \A i \in DOMAIN t.routes :
        t.routes[i].server_id = id <=> LookupByServerId(t, id) = i
  BY RouteAssumption, Zenon DEF Numbered, LookupByServerId
<1>3. \A addr \in Addresses :
        HasBackend(t, addr) <=> \E i \in DOMAIN t.routes : t.routes[i].backend = addr
  BY HasBackendExact
<1> QED
  BY <1>1, <1>2, <1>3, Zenon DEF IndexesExact, Addresses

-----------------------------------------------------------------------------
(* The file *)

HostsOf(entries) == {entries[i].host : i \in DOMAIN entries}
IdsOf(entries) == {entries[i].server_id : i \in DOMAIN entries}
ValuesOf(entries) == {entries[i].value : i \in DOMAIN entries} \cup {Default[k] : k \in Settings}

\* A route table as parse_root builds it, from the entries of a file.
BuiltTables(entries) ==
  {t \in RouteTables(HostsOf(entries), IdsOf(entries)) :
     Named(t) /\ Numbered(t) /\ Blank(t) /\ Len(t.routes) <= MaxRoutes}
Outcomes(entries) ==
  [loaded : {TRUE}, config : [settings : [Settings -> ValuesOf(entries)],
                              routes : BuiltTables(entries)]] \cup {Failed}

\* The first n entries are in the table.
Includes(t, entries, n) ==
  \A j \in 1 .. n : entries[j].key = "route" =>
    \E i \in DOMAIN t.routes : t.routes[i].host = entries[j].host

LEMMA FailedFacts ==
  ASSUME NEW entries, NEW result \in Outcomes(entries)
  PROVE  /\ ~Failed.loaded
         /\ result.loaded => /\ result \in [loaded : {TRUE},
                                  config : [settings : [Settings -> ValuesOf(entries)],
                                            routes : BuiltTables(entries)]]
<1>1. Failed.loaded = FALSE
  BY Zenon DEF Failed
<1> QED
  BY <1>1, Zenon DEF Outcomes

LEMMA ParseEntryFacts ==
  ASSUME NumberLaws, NEW E, NEW entries \in Seq(E), NEW n \in 1 .. Len(entries),
         NEW result \in Outcomes(entries), NEW after, after = ParseEntry(result, entries[n])
  PROVE  /\ after \in Outcomes(entries)
         /\ after.loaded =>
              /\ result.loaded
              /\ Includes(result.config.routes, entries, n - 1) =>
                   Includes(after.config.routes, entries, n)
<1> DEFINE entry == entries[n]
           cfg == result.config
           Configs == [settings : [Settings -> ValuesOf(entries)], routes : BuiltTables(entries)]
<1>1. CASE ~(result.loaded /\ Accepts(cfg, entry))
  <2>1. after = Failed
    BY <1>1, Zenon DEF ParseEntry
  <2> QED
    BY <2>1, FailedFacts, Zenon DEF Outcomes
<1>2. CASE result.loaded /\ Accepts(cfg, entry)
  <2>1. result \in [loaded : {TRUE}, config : Configs] /\ cfg \in Configs
    BY <1>2, FailedFacts, Zenon
  <2>2. after = [result EXCEPT !.config = Apply(cfg, entry)]
    BY <1>2, Zenon DEF ParseEntry
  <2>3. after.loaded = TRUE /\ after.config = Apply(cfg, entry)
    BY <2>1, <2>2, Zenon
  <2>4. n \in DOMAIN entries /\ n \in Nat /\ DOMAIN entries = 1 .. Len(entries)
    OBVIOUS
  <2>5. CASE entry.key = "route"
    <3> DEFINE t == cfg.routes
               u == Add(t, entry)
               H == HostsOf(entries)
               I == IdsOf(entries)
    <3>1. CanAdd(t, entry) /\ Len(t.routes) < MaxRoutes
      <4>1. CanAdd(t, entry)
        <5> HIDE DEF entry
        <5>1. entry.key \notin Settings
          BY <2>5, Zenon DEF Settings
        <5> QED
          BY <1>2, <2>5, <5>1, Zenon DEF Accepts
      <4> QED
        BY <4>1, Zenon DEF CanAdd
    <3>2. t \in BuiltTables(entries)
      BY <2>1, Zenon
    <3>3. /\ t \in RouteTables(H, I) /\ Named(t) /\ Numbered(t) /\ Blank(t)
          /\ entry.host \in H /\ entry.server_id \in I
      BY <2>4, <3>2, Zenon DEF BuiltTables, HostsOf, IdsOf
    <3> HIDE DEF t, entry, H, I
    <3>4. /\ u \in RouteTables(H, I) /\ Named(u) /\ Numbered(u) /\ Blank(u)
          /\ Len(u.routes) = Len(t.routes) + 1
          /\ u.routes[Len(u.routes)].host = entry.host
          /\ \A i \in DOMAIN t.routes : u.routes[i] = t.routes[i]
      BY <3>1, <3>3, AddFacts
    <3> HIDE DEF u
    <3>5. /\ Len(t.routes) \in Nat /\ MaxRoutes \in Nat
          /\ DOMAIN t.routes = 1 .. Len(t.routes) /\ DOMAIN u.routes = 1 .. Len(u.routes)
      BY <3>3, <3>4, RouteAssumption DEF RouteTables
    <3>6. u \in BuiltTables(entries)
      <4>1. Len(u.routes) <= MaxRoutes
        <5>1. Len(u.routes) = Len(t.routes) + 1
          BY ONLY <3>4, Zenon
        <5>2. Len(t.routes) + 1 <= MaxRoutes
          BY ONLY <3>1, <3>5, OneMore, Zenon
        <5> QED
          BY ONLY <5>1, <5>2, Zenon
      <4>2. u \in RouteTables(HostsOf(entries), IdsOf(entries))
        BY ONLY <3>4, Zenon DEF H, I
      <4> QED
        BY ONLY <3>4, <4>1, <4>2, Zenon DEF BuiltTables
    <3>7. Apply(cfg, entry) = [cfg EXCEPT !.routes = u]
      BY <2>5, Zenon DEF Apply, u, t, entry
    <3>8. Apply(cfg, entry) \in Configs /\ Apply(cfg, entry).routes = u
      BY <2>1, <3>6, <3>7, Zenon
    <3>9. ASSUME Includes(t, entries, n - 1) PROVE Includes(u, entries, n)
      <4> SUFFICES ASSUME NEW j \in 1 .. n, entries[j].key = "route"
                   PROVE  \E i \in DOMAIN u.routes : u.routes[i].host = entries[j].host
        BY Zenon DEF Includes
      <4>1. CASE j = n
        BY <3>4, <3>5, <4>1 DEF entry
      <4>2. CASE j # n
        <5>1. PICK i \in DOMAIN t.routes : t.routes[i].host = entries[j].host
          BY <2>4, <3>9, <4>2 DEF Includes
        <5> QED
          BY <3>4, <3>5, <5>1
      <4> QED
        BY <4>1, <4>2, Zenon
    <3>10. after \in Outcomes(entries)
      BY <2>1, <2>2, <3>8, Zenon DEF Outcomes
    <3> QED
      BY <1>2, <2>3, <3>8, <3>9, <3>10, Zenon DEF t
  <2>6. CASE entry.key # "route"
    <3>1. entry.key \in Settings /\ entry.value \in ValuesOf(entries)
      BY <1>2, <2>4, <2>6, Zenon DEF Accepts, ValuesOf
    <3> HIDE DEF entry
    <3>2. Apply(cfg, entry) = [cfg EXCEPT !.settings = [cfg.settings EXCEPT ![entry.key] = entry.value]]
      BY <2>1, <2>6, Zenon DEF Apply
    <3>3. [cfg.settings EXCEPT ![entry.key] = entry.value] \in [Settings -> ValuesOf(entries)]
      BY <2>1, <3>1, Zenon
    <3>4. Apply(cfg, entry) \in Configs /\ Apply(cfg, entry).routes = cfg.routes
      BY <2>1, <3>2, <3>3, Zenon
    <3>5. after \in Outcomes(entries)
      <4> HIDE DEF Configs, cfg
      <4>1. after \in [loaded : {TRUE}, config : Configs]
        BY <2>1, <2>2, <3>4, Zenon
      <4> QED
        BY <4>1, Zenon DEF Outcomes, Configs
    <3>6. Includes(cfg.routes, entries, n - 1) => Includes(cfg.routes, entries, n)
      <4>1. \A j \in 1 .. n : j = n \/ j \in 1 .. n - 1
        BY <2>4
      <4> QED
        BY <2>6, <4>1, Zenon DEF Includes, entry
    <3> QED
      BY <1>2, <2>3, <3>4, <3>5, <3>6, Zenon
  <2> QED
    BY <2>5, <2>6, Zenon
<1> QED
  BY <1>1, <1>2, Zenon

\* parse_root, entry by entry.
LEMMA ParseFacts ==
  ASSUME NumberLaws, NEW E, NEW entries \in Seq(E), NEW read, read = Parse(entries)
  PROVE  /\ read \in Outcomes(entries)
         /\ read.loaded => Includes(read.config.routes, entries, Len(entries))
<1> DEFINE T == Outcomes(entries)
           N == Len(entries)
           first == [loaded |-> TRUE, config |-> [settings |-> Default, routes |-> NewTable]]
           step == [n \in 1 .. N |-> [r \in T |-> ParseEntry(r, entries[n])]]
           Eq(f) == f = [n \in 0 .. N |-> IF n = 0 THEN first ELSE ParseEntry(f[n - 1], entries[n])]
           walk == CHOOSE f : Eq(f)
<1>1. read = walk[N]
  BY Zenon DEF Parse
<1>2. N \in Nat
  OBVIOUS
<1>3. first \in T /\ Includes(first.config.routes, entries, 0)
  <2>1. Default \in [Settings -> ValuesOf(entries)]
    BY DefaultAssumption, Zenon DEF ValuesOf
  <2>2. /\ NewTable \in RouteTables(HostsOf(entries), IdsOf(entries))
        /\ Named(NewTable) /\ Numbered(NewTable) /\ Blank(NewTable) /\ Len(NewTable.routes) = 0
    BY NewTableFacts
  <2>3. NewTable \in BuiltTables(entries)
    BY <2>2, RouteAssumption DEF BuiltTables
  <2> QED
    BY <2>1, <2>3 DEF Outcomes, Includes
<1>4. \A n \in 1 .. N, r \in T : ParseEntry(r, entries[n]) \in T
  BY ParseEntryFacts, Zenon
<1> HIDE DEF T, N, first
<1>5. step \in [1 .. N -> [T -> T]]
  BY <1>4, Zenon
<1>6. \A n \in 1 .. N, r \in T : step[n][r] = ParseEntry(r, entries[n])
  BY Zenon
<1> HIDE DEF step
<1>7. \E f : Eq(f)
  <2>1. PICK f \in [0 .. N -> T] : Stepwise(f, first, step, N)
    BY <1>2, <1>3, <1>5, Zenon DEF NumberLaws, StepsLaw
  <2>2. \A n \in 0 .. N : f[n] = IF n = 0 THEN first ELSE ParseEntry(f[n - 1], entries[n])
    BY <2>1, <1>2, <1>6 DEF Stepwise
  <2>3. Eq(f)
    BY <2>2, Zenon
  <2> QED
    BY <2>3, Zenon
<1>8. Eq(walk)
  BY <1>7, Zenon
<1> HIDE DEF walk
<1>9. walk[0] = first /\ \A n \in 1 .. N : walk[n] = ParseEntry(walk[n - 1], entries[n])
  <2>1. \A n \in 0 .. N : walk[n] = IF n = 0 THEN first ELSE ParseEntry(walk[n - 1], entries[n])
    BY <1>8, Zenon
  <2> QED
    BY <2>1, <1>2
<1> DEFINE Good(r, n) == r \in T /\ (r.loaded => Includes(r.config.routes, entries, n))
           P == {n \in 0 .. N : Good(walk[n], n)}
<1>10. 0 \in P
  BY <1>2, <1>3, <1>9
<1>11. \A n \in 1 .. N : n - 1 \in P => n \in P
  <2> SUFFICES ASSUME NEW n \in 1 .. N, n - 1 \in P PROVE n \in P
    BY Zenon
  <2>1. walk[n - 1] \in T /\ walk[n] = ParseEntry(walk[n - 1], entries[n])
        /\ (walk[n - 1].loaded => Includes(walk[n - 1].config.routes, entries, n - 1))
    BY <1>9, Zenon
  <2>2. /\ walk[n] \in T
        /\ walk[n].loaded => /\ walk[n - 1].loaded
                             /\ Includes(walk[n - 1].config.routes, entries, n - 1) =>
                                  Includes(walk[n].config.routes, entries, n)
    BY <2>1, ParseEntryFacts, Zenon DEF T, N
  <2> QED
    BY <2>1, <2>2
<1>12. Good(read, N)
  <2> HIDE DEF P
  <2>1. \A n \in 0 .. N : n \in P
    BY ONLY NumberLaws, <1>2, <1>10, <1>11, Zenon DEF NumberLaws, UpToLaw
  <2> QED
    BY <1>1, <1>2, <2>1 DEF P
<1> QED
  BY <1>12, Zenon DEF T, N

\* What reload_from_path has in hand when it evicts: the table of a file that
\* loads and resolves.
InUse(t) ==
  \E H, I : /\ t \in RouteTables(H, I) /\ Named(t) /\ Numbered(t) /\ Indexed(t, Len(t.routes))
            /\ \A i \in DOMAIN t.routes : \E host \in DOMAIN Resolves :
                 t.routes[i].backend = Resolves[host]

LEMMA ResolvedInUse ==
  ASSUME NumberLaws, NEW entries, NEW t \in BuiltTables(entries), CanResolve(t)
  PROVE  InUse(Resolve(t))
<1> DEFINE H == HostsOf(entries)
           I == IdsOf(entries)
           u == Resolve(t)
<1>1. t \in RouteTables(H, I) /\ Named(t) /\ Numbered(t) /\ Len(t.routes) <= MaxRoutes
  BY Zenon DEF BuiltTables
<1> HIDE DEF H, I
<1>2. /\ u \in RouteTables(H, I) /\ Named(u) /\ Numbered(u) /\ Indexed(u, Len(u.routes))
      /\ Len(u.routes) = Len(t.routes)
      /\ \A i \in DOMAIN t.routes : u.routes[i].backend = Resolves[t.routes[i].host]
  BY <1>1, ResolveFacts
<1> HIDE DEF u
<1>3. DOMAIN u.routes = DOMAIN t.routes
  BY <1>1, <1>2 DEF RouteTables
<1>4. \A i \in DOMAIN u.routes : \E host \in DOMAIN Resolves : u.routes[i].backend = Resolves[host]
  BY <1>2, <1>3, Zenon DEF CanResolve
<1> QED
  BY <1>2, <1>4, Zenon DEF InUse, u

LEMMA InUseExact ==
  ASSUME NumberLaws, NEW t, InUse(t)
  PROVE  IndexesExact(t)
BY PartsExact, Zenon DEF InUse

LEMMA LoadedIndexes ==
  ASSUME NumberLaws, NEW E, NEW entries \in Seq(E), NEW read, read = Load(entries), read.loaded,
         CanResolve(read.config.routes)
  PROVE  /\ IndexesExact(Resolve(read.config.routes))
         /\ \A b \in BackendsIn(entries) : HasBackend(Resolve(read.config.routes), b)
<1> DEFINE t == read.config.routes
           u == Resolve(t)
<1>1. read = Parse(entries)
  BY FailedFacts, Zenon DEF Load, Failed
<1>2. read \in Outcomes(entries) /\ Includes(t, entries, Len(entries))
  BY <1>1, ParseFacts, Zenon
<1>3. t \in BuiltTables(entries)
  BY <1>2, FailedFacts, Zenon
<1>4. InUse(u)
  BY <1>3, ResolvedInUse, Zenon
<1>5. ASSUME NEW b \in BackendsIn(entries) PROVE HasBackend(u, b)
  <2>1. PICK j \in DOMAIN entries : /\ entries[j].key = "route"
                                    /\ entries[j].host \in DOMAIN Resolves
                                    /\ b = Resolves[entries[j].host]
    BY <1>5, Zenon DEF BackendsIn
  <2>2. j \in 1 .. Len(entries) /\ b \in Addresses
    BY <2>1, RouteAssumption DEF Addresses
  <2>3. PICK i \in DOMAIN t.routes : t.routes[i].host = entries[j].host
    BY <1>2, <2>1, <2>2, Zenon DEF Includes
  <2> HIDE DEF t
  <2>4. /\ Len(u.routes) = Len(t.routes) /\ u.routes[i].backend = b
        /\ u \in RouteTables(HostsOf(entries), IdsOf(entries))
    <3>1. /\ t \in RouteTables(HostsOf(entries), IdsOf(entries)) /\ Named(t) /\ Numbered(t)
          /\ Len(t.routes) <= MaxRoutes /\ CanResolve(t)
      BY <1>3, Zenon DEF BuiltTables, t
    <3>2. ResolvedFrom(HostsOf(entries), IdsOf(entries), t, u)
      BY ONLY NumberLaws, <3>1, ResolvesFrom, Zenon
    <3> QED
      BY ONLY <2>1, <2>3, <3>2, Zenon DEF ResolvedFrom
  <2> HIDE DEF u
  <2>5. i \in DOMAIN u.routes
    BY <1>3, <2>4 DEF BuiltTables, RouteTables
  <2>6. IndexesExact(u)
    BY <1>4, InUseExact, Zenon
  <2> QED
    BY <2>2, <2>4, <2>5, <2>6, Zenon DEF IndexesExact, Addresses
<1> QED
  BY <1>4, <1>5, InUseExact, Zenon

-----------------------------------------------------------------------------
(* What is held *)

StartStages == {"load", "sessions", "flows", "resolve", "listen", "bind", "nonblock",
                "pending", "epoll", "register", "batch"}

\* What the stages before stage have acquired for certain.
AcquiredBefore(stage) ==
  CASE stage = "flows" -> {"sessions"}
    [] stage \in {"resolve", "listen", "bind"} -> {"sessions", "flows"}
    [] stage \in {"nonblock", "pending"} -> {"sessions", "flows", "socket"}
    [] stage = "epoll" -> {"sessions", "flows", "socket", "pending"}
    [] stage \in {"register", "batch"} -> {"sessions", "flows", "socket", "pending", "epoll"}
    [] OTHER -> {}

LoopHolds == {"sessions", "flows", "socket", "pending", "epoll", "batch"}

HeldInv ==
  /\ pc \in StartStages \cup LoopPcs
  /\ pc \in StartStages => /\ AcquiredBefore(pc) \subseteq held
                           /\ held \subseteq Frees(pc)
                           /\ table = Empty
  /\ pc \in {"top", "reload", "wait", "dispatch"} => LoopHolds \subseteq held /\ held \subseteq Parts
  /\ pc = "exited" => held = {} /\ table.fds = {}

\* The stages are distinct strings, so the one after each is the next.
LEMMA StageOrder ==
  /\ StageAfter("load") = "sessions" /\ StageAfter("sessions") = "flows"
  /\ StageAfter("flows") = "resolve" /\ StageAfter("resolve") = "listen"
  /\ StageAfter("listen") = "bind" /\ StageAfter("bind") = "nonblock"
  /\ StageAfter("nonblock") = "pending" /\ StageAfter("pending") = "epoll"
  /\ StageAfter("epoll") = "register" /\ StageAfter("register") = "batch"
  /\ StageAfter("batch") = "top"
<1>1. DOMAIN Stages = 1 .. 12
  BY DEF Stages
<1>2. \A i, j \in 1 .. 12 : Stages[i] = Stages[j] => i = j
  BY DEF Stages
<1>3. \A i \in 1 .. 11 : StageAfter(Stages[i]) = Stages[1 + i]
  BY <1>1, <1>2 DEF StageAfter
<1>4. /\ Stages[1] = "load" /\ Stages[2] = "sessions" /\ Stages[3] = "flows"
      /\ Stages[4] = "resolve" /\ Stages[5] = "listen" /\ Stages[6] = "bind"
      /\ Stages[7] = "nonblock" /\ Stages[8] = "pending" /\ Stages[9] = "epoll"
      /\ Stages[10] = "register" /\ Stages[11] = "batch" /\ Stages[12] = "top"
  BY Zenon DEF Stages
<1> QED
  BY <1>3, <1>4

LEMMA StartingStages == Starting <=> pc \in StartStages
<1>1. {Stages[i] : i \in 1 .. Len(Stages) - 1} = StartStages
  BY DEF Stages, StartStages
<1> QED
  BY <1>1, Zenon DEF Starting

LEMMA HeldInit == Init => HeldInv
BY Zenon DEF Init, HeldInv, Stages, StartStages, AcquiredBefore, Frees, LoopPcs

\* A stage succeeds: what it acquires is what the next stage's error path
\* frees besides.
LEMMA StartKeeps ==
  ASSUME HeldInv, Start
  PROVE  HeldInv'
<1>1. PICK extra \in SUBSET MayAcquire(pc) : held' = held \cup Acquires(pc) \cup extra
  BY Zenon DEF Start
<1>2. /\ pc \in StartStages /\ pc' = StageAfter(pc) /\ table' = Empty
      /\ AcquiredBefore(pc) \subseteq held /\ held \subseteq Frees(pc)
  BY StartingStages, Zenon DEF Start, HeldInv
<1>3. CASE pc \in {"load", "sessions", "flows", "resolve"}
  BY <1>1, <1>2, <1>3, StageOrder, Zenon
  DEF HeldInv, StartStages, LoopPcs, AcquiredBefore, Frees, RuntimeParts, EpollParts, Acquires, MayAcquire
<1>4. CASE pc \in {"listen", "bind", "nonblock", "pending"}
  BY <1>1, <1>2, <1>4, StageOrder, Zenon
  DEF HeldInv, StartStages, LoopPcs, AcquiredBefore, Frees, RuntimeParts, EpollParts, Acquires, MayAcquire
<1>5. CASE pc \in {"epoll", "register", "batch"}
  BY <1>1, <1>2, <1>5, StageOrder, Zenon
  DEF HeldInv, StartStages, LoopPcs, AcquiredBefore, Frees, RuntimeParts, EpollParts, Acquires,
      MayAcquire, LoopHolds, Parts
<1> QED
  BY <1>2, <1>3, <1>4, <1>5, Zenon DEF StartStages

LEMMA FailKeeps ==
  ASSUME HeldInv, FailToStart
  PROVE  HeldInv'
<1>1. pc \in StartStages /\ held' = {} /\ table' = Empty /\ pc' = "exited"
  BY StartingStages, Zenon DEF FailToStart, HeldInv
<1> QED
  BY <1>1, Zenon DEF HeldInv, Empty, StartStages, LoopPcs

LEMMA ShutdownKeeps ==
  ASSUME HeldInv, pc \in {"top", "wait"}, Shutdown
  PROVE  HeldInv'
<1>1. held' = {} /\ table' = Empty /\ pc' = "exited"
  BY Zenon DEF Shutdown, HeldInv, Parts, EpollParts, RuntimeParts
<1> QED
  BY <1>1, Zenon DEF HeldInv, Empty, StartStages, LoopPcs

LEMMA HeldStep ==
  ASSUME HeldInv, [Next]_vars
  PROVE  HeldInv'
<1> USE DEF HeldInv, StartStages, LoopPcs
<1>1. CASE Start
  BY <1>1, StartKeeps, Zenon
<1>2. CASE FailToStart
  BY <1>2, FailKeeps, Zenon
<1>3. CASE Poll
  BY <1>3, Zenon DEF Poll
<1>4. CASE Reload
  BY <1>4, Zenon DEF Reload
<1>5. CASE LeaveLoop
  BY <1>5, ShutdownKeeps, Zenon DEF LeaveLoop
<1>6. CASE Wait
  BY <1>6, Zenon DEF Wait
<1>7. CASE WaitInterrupted
  BY <1>7, Zenon DEF WaitInterrupted
<1>8. CASE WaitFails
  BY <1>8, ShutdownKeeps, Zenon DEF WaitFails
<1>9. CASE ReceiveReply
  BY <1>9, Zenon DEF ReceiveReply
<1>10. CASE NextEvent
  BY <1>10, Zenon DEF NextEvent
<1>11. CASE EndEvents
  BY <1>11, Zenon DEF EndEvents
<1>12. CASE ReceiveClient
  BY <1>12, Zenon DEF ReceiveClient
<1>13. CASE Replace \/ Remove \/ Truncate \/ Write
  <2>1. UNCHANGED <<pc, held, table>>
    BY <1>13, Zenon DEF Replace, Remove, Truncate, Write, Edit
  <2> QED
    BY <2>1, Zenon
<1>14. CASE \E c \in Clients : ClientSends(c)
  BY <1>14, Zenon DEF ClientSends
<1>15. CASE \E p \in Slots : BackendSends(p)
  BY <1>15, Zenon DEF BackendSends
<1>16. CASE Signal
  BY <1>16, Zenon DEF Signal
<1>17. CASE Tick
  BY <1>17, Zenon DEF Tick
<1>18. CASE UNCHANGED vars
  BY <1>18, Zenon DEF vars
<1> QED
  BY <1>1, <1>2, <1>3, <1>4, <1>5, <1>6, <1>7, <1>8, <1>9, <1>10, <1>11, <1>12, <1>13,
     <1>14, <1>15, <1>16, <1>17, <1>18, Zenon DEF Next, LoopStep

\* No return of qsr_udp_run, from any stage of the start-up or from the loop,
\* leaves memory or a descriptor behind, and the loop runs with all it needs.
THEOREM FreesEverything == Spec => []ResourcesFreed
<1>1. HeldInv => ResourcesFreed
  BY StartingStages, Zenon DEF HeldInv, ResourcesFreed, Running, StartStages, LoopPcs, LoopHolds
<1> QED
  BY <1>1, HeldInit, HeldStep, PTL DEF Spec

-----------------------------------------------------------------------------
(* The routes *)

FileInv ==
  \/ file = NoFile
  \/ /\ file = [doc |-> file.doc, written |-> file.written]
     /\ file.doc \in Documents /\ file.written \in 0 .. Len(file.doc)

BuiltStages == {"sessions", "flows", "resolve"}
UsedStages == {"listen", "bind", "nonblock", "pending", "epoll", "register", "batch",
               "top", "reload", "wait", "dispatch"}
ConfigInv ==
  /\ config = [settings |-> config.settings, routes |-> config.routes]
  /\ pc \in BuiltStages => \E entries : config.routes \in BuiltTables(entries)
  /\ pc \in UsedStages => InUse(config.routes)
  /\ pc \in {"load", "exited"} => IndexesExact(config.routes)

LEMMA DocumentFacts ==
  ASSUME NEW d \in Documents, NEW n \in 0 .. Len(d)
  PROVE  /\ SubSeq(d, 1, n) \in Seq({d[i] : i \in DOMAIN d})
         /\ SubSeq(d, 1, Len(d)) = d
         /\ SubSeq(d, 1, n) \in Prefixes(d)
<1> DEFINE E == {d[i] : i \in DOMAIN d}
<1>1. d \in Seq(E)
  BY DocumentAssumption, Zenon
<1> HIDE DEF E
<1>2. SubSeq(d, 1, n) \in Seq(E)
  BY <1>1
<1>3. SubSeq(d, 1, Len(d)) = d
  BY <1>1
<1> QED
  BY <1>2, <1>3, Zenon DEF Prefixes, E

\* A file is read to its end, or to where the operator has come with it.
LEMMA ContentsFacts ==
  ASSUME FileInv
  PROVE  \/ Contents(file) = Missing
         \/ /\ \E E : Contents(file) \in Seq(E)
            /\ \E d \in Documents : Contents(file) \in Prefixes(d)
BY DocumentFacts, Zenon DEF FileInv, Contents

LEMMA LoadFacts ==
  ASSUME NumberLaws, NEW entries, entries = Missing \/ \E E : entries \in Seq(E), Load(entries).loaded
  PROVE  /\ entries # Missing /\ Load(entries) = Parse(entries)
         /\ Load(entries).config
              = [settings |-> Load(entries).config.settings, routes |-> Load(entries).config.routes]
         /\ Load(entries).config.routes \in BuiltTables(entries)
         /\ Load(entries) = [loaded |-> TRUE, config |-> Load(entries).config]
<1>1. entries # Missing /\ Load(entries) = Parse(entries)
  BY Zenon DEF Load, Failed
<1>2. Load(entries) \in Outcomes(entries)
  BY <1>1, ParseFacts, Zenon
<1>3. Load(entries) \in [loaded : {TRUE}, config : [settings : [Settings -> ValuesOf(entries)],
                                                    routes : BuiltTables(entries)]]
  BY <1>2, FailedFacts, Zenon
<1> QED
  BY <1>1, <1>3, Zenon

\* reload_from_path up to the eviction.
LEMMA ReadingFacts ==
  ASSUME NumberLaws, FileInv, Usable(Contents(file)), NEW new, new = Resolved(Contents(file)),
         NEW read, read = Load(Contents(file))
  PROVE  /\ InUse(new.routes) /\ read.loaded /\ CanResolve(read.config.routes)
         /\ new.routes = Resolve(read.config.routes)
<1> DEFINE entries == Contents(file)
<1>1. entries = Missing \/ \E E : entries \in Seq(E)
  BY ContentsFacts, Zenon
<1>2. entries \in {Missing} \cup UNION {Prefixes(d) : d \in Documents}
  BY ContentsFacts, Zenon
<1> HIDE DEF entries
<1>3. Readings[entries] = IF read.loaded /\ CanResolve(read.config.routes)
                          THEN [read EXCEPT !.config.routes = Resolve(read.config.routes)]
                          ELSE Failed
  BY <1>2, Zenon DEF Readings, entries
<1>4. read.loaded /\ CanResolve(read.config.routes)
  BY <1>3 DEF Usable, Failed, entries
<1>5. /\ read = [loaded |-> TRUE, config |-> read.config]
      /\ read.config = [settings |-> read.config.settings, routes |-> read.config.routes]
      /\ read.config.routes \in BuiltTables(entries)
  BY <1>1, <1>4, LoadFacts, Zenon DEF entries
<1>6. new.routes = Resolve(read.config.routes)
  <2>1. new = [read EXCEPT !.config.routes = Resolve(read.config.routes)].config
    BY <1>3, <1>4, Zenon DEF Resolved, entries
  <2> QED
    BY <1>5, <2>1, Zenon
<1>7. InUse(new.routes)
  BY <1>4, <1>5, <1>6, ResolvedInUse, Zenon
<1> QED
  BY <1>4, <1>6, <1>7, Zenon

LEMMA FileStep ==
  ASSUME FileInv, [Next]_vars
  PROVE  FileInv'
<1>1. CASE Replace
  <2>1. PICK d \in Documents : file' = Whole(d)
    BY <1>1, Zenon DEF Replace, Edit
  <2>2. Len(d) \in Nat
    BY DocumentAssumption
  <2> QED
    BY <2>1, <2>2 DEF FileInv, Whole
<1>2. CASE Remove
  BY <1>2, Zenon DEF Remove, Edit, FileInv
<1>3. CASE Truncate
  <2>1. PICK d \in InPlace : file' = [doc |-> d, written |-> 0]
    BY <1>3, Zenon DEF Truncate, Edit
  <2>2. d \in Documents /\ Len(d) \in Nat
    BY DocumentAssumption
  <2> QED
    BY <2>1, <2>2 DEF FileInv
<1>4. CASE Write
  <2>1. file.written \in 0 .. Len(file.doc) - 1
        /\ file' = [file EXCEPT !.written = file.written + 1]
    BY <1>4, Zenon DEF Write, Edit
  <2>2. file # NoFile
    BY <2>1 DEF NoFile
  <2>3. /\ file = [doc |-> file.doc, written |-> file.written] /\ file.doc \in Documents
        /\ Len(file.doc) \in Nat
    BY <2>2, DocumentAssumption DEF FileInv
  <2>4. file' = [doc |-> file.doc, written |-> file.written + 1]
    BY <2>1, <2>3, Zenon
  <2> QED
    BY <2>1, <2>3, <2>4 DEF FileInv
<1>5. CASE UNCHANGED file
  BY <1>5, Zenon DEF FileInv
<1>6. ~(Replace \/ Remove \/ Truncate \/ Write) => UNCHANGED file
  BY Zenon DEF Next, LoopStep, Start, FailToStart, Poll, Reload, LeaveLoop, Wait, WaitInterrupted,
         WaitFails, Shutdown, ReceiveReply, NextEvent, EndEvents, ReceiveClient, ClientSends,
         BackendSends, Signal, Tick, vars, disk
<1> QED
  BY <1>1, <1>2, <1>3, <1>4, <1>5, <1>6, Zenon

LEMMA ConfigKept ==
  ASSUME NumberLaws, HeldInv, ConfigInv, UNCHANGED config,
         \/ pc' = pc
         \/ pc \in UsedStages /\ pc' \in UsedStages
         \/ pc' = "exited"
  PROVE  ConfigInv'
<1>1. IndexesExact(config.routes)
  <2>1. CASE pc \in BuiltStages
    BY <2>1, PartsExact, Zenon DEF ConfigInv, BuiltTables
  <2>2. CASE pc \in UsedStages
    BY <2>2, InUseExact, Zenon DEF ConfigInv
  <2>3. CASE pc \in {"load", "exited"}
    BY <2>3, Zenon DEF ConfigInv
  <2> QED
    BY <2>1, <2>2, <2>3, Zenon DEF HeldInv, StartStages, LoopPcs, BuiltStages, UsedStages
<1>2. CASE pc' = pc
  BY <1>2, Zenon DEF ConfigInv
<1>3. CASE pc \in UsedStages /\ pc' \in UsedStages
  BY <1>3, Zenon DEF ConfigInv, UsedStages, BuiltStages
<1>4. CASE pc' = "exited"
  BY <1>1, <1>4, Zenon DEF ConfigInv, UsedStages, BuiltStages
<1> QED
  BY <1>2, <1>3, <1>4, Zenon

LEMMA ConfigStart ==
  ASSUME NumberLaws, HeldInv, ConfigInv, FileInv, Start
  PROVE  ConfigInv'
<1>1. pc \in StartStages /\ pc' = StageAfter(pc) /\ config' = StartedConfig(pc) /\ Startable(pc)
  BY StartingStages, Zenon DEF Start
<1>2. CASE pc = "load"
  <2> DEFINE entries == Contents(file)
             read == Load(entries)
  <2>1. pc' = "sessions" /\ read.loaded /\ config' = read.config
    BY <1>1, <1>2, StageOrder, Zenon DEF Startable, StartedConfig
  <2>2. entries = Missing \/ \E E : entries \in Seq(E)
    BY ContentsFacts, Zenon
  <2> HIDE DEF entries
  <2>3. /\ read.config = [settings |-> read.config.settings, routes |-> read.config.routes]
        /\ read.config.routes \in BuiltTables(entries)
    BY <2>1, <2>2, LoadFacts, Zenon
  <2> HIDE DEF read
  <2> QED
    BY <2>1, <2>3, Zenon DEF ConfigInv, BuiltStages, UsedStages
<1>3. CASE pc = "resolve"
  <2>1. /\ pc' = "listen" /\ CanResolve(config.routes)
        /\ config' = [config EXCEPT !.routes = Resolve(config.routes)]
    BY <1>1, <1>3, StageOrder, Zenon DEF Startable, StartedConfig
  <2>2. PICK entries : config.routes \in BuiltTables(entries)
    BY <1>3, Zenon DEF ConfigInv, BuiltStages
  <2>3. InUse(Resolve(config.routes))
    BY <2>1, <2>2, ResolvedInUse, Zenon
  <2>4. config' = [settings |-> config.settings, routes |-> Resolve(config.routes)]
    BY <2>1, Zenon DEF ConfigInv
  <2> QED
    BY <2>1, <2>3, <2>4, Zenon DEF ConfigInv, BuiltStages, UsedStages
<1>4. CASE pc \in {"sessions", "flows"}
  <2>1. config' = config /\ pc' \in BuiltStages
    BY <1>1, <1>4, StageOrder, Zenon DEF StartedConfig, BuiltStages
  <2> QED
    BY <1>4, <2>1, Zenon DEF ConfigInv, BuiltStages, UsedStages
<1>5. CASE pc \in {"listen", "bind", "nonblock", "pending", "epoll", "register", "batch"}
  <2>1. config' = config /\ pc \in UsedStages /\ pc' \in UsedStages
    BY <1>1, <1>5, StageOrder, Zenon DEF StartedConfig, UsedStages
  <2> QED
    BY <2>1, ConfigKept, Zenon
<1> QED
  BY <1>1, <1>2, <1>3, <1>4, <1>5, Zenon DEF StartStages

LEMMA ConfigReload ==
  ASSUME NumberLaws, HeldInv, ConfigInv, FileInv, Reload
  PROVE  ConfigInv'
<1> DEFINE new == Resolved(Contents(file))
<1>1. pc = "reload" /\ pc' = "wait"
  BY Zenon DEF Reload
<1>2. CASE Usable(Contents(file))
  <2>1. config' = Swapped(new)
    BY <1>2, Zenon DEF Reload
  <2>2. InUse(new.routes)
    BY <1>2, ReadingFacts, Zenon
  <2> HIDE DEF new
  <2>3. config'.routes = new.routes
        /\ config' = [settings |-> config'.settings, routes |-> config'.routes]
    BY <2>1, Zenon DEF Swapped
  <2> QED
    BY <1>1, <2>2, <2>3, Zenon DEF ConfigInv, BuiltStages, UsedStages
<1>3. CASE ~Usable(Contents(file))
  <2>1. UNCHANGED config
    BY <1>3, Zenon DEF Reload
  <2> QED
    BY <1>1, <2>1, ConfigKept, Zenon DEF UsedStages
<1> QED
  BY <1>2, <1>3, Zenon

LEMMA ConfigStep ==
  ASSUME NumberLaws, HeldInv, ConfigInv, FileInv, [Next]_vars
  PROVE  ConfigInv'
<1>1. CASE Start
  BY <1>1, ConfigStart, Zenon
<1>2. CASE Reload
  BY <1>2, ConfigReload, Zenon
<1>3. CASE ~Start /\ ~Reload
  <2>1. UNCHANGED config
    BY <1>3, Zenon DEF Next, LoopStep, FailToStart, Poll, LeaveLoop, Wait, WaitInterrupted,
         WaitFails, Shutdown, ReceiveReply, NextEvent, EndEvents, ReceiveClient, ClientSends,
         BackendSends, Signal, Tick, Replace, Remove, Truncate, Write, Edit, vars
  <2>2. pc' = pc \/ (pc \in UsedStages /\ pc' \in UsedStages) \/ pc' = "exited"
    BY <1>3, Zenon DEF Next, LoopStep, FailToStart, Poll, LeaveLoop, Wait, WaitInterrupted,
         WaitFails, Shutdown, ReceiveReply, NextEvent, EndEvents, ReceiveClient, ClientSends,
         BackendSends, Signal, Tick, Replace, Remove, Truncate, Write, Edit, vars, UsedStages
  <2> QED
    BY <2>1, <2>2, ConfigKept, Zenon
<1> QED
  BY <1>1, <1>2, <1>3, Zenon

LEMMA ConfigInit ==
  ASSUME NumberLaws, Init
  PROVE  ConfigInv /\ FileInv
<1>1. pc = "load" /\ config = [settings |-> Default, routes |-> NewTable]
  BY Zenon DEF Init, Stages
<1>2. IndexesExact(NewTable)
  <2>1. /\ NewTable \in RouteTables({}, {}) /\ Named(NewTable) /\ Numbered(NewTable)
        /\ Blank(NewTable)
    BY NewTableFacts, Zenon
  <2> QED
    BY <2>1, PartsExact, Zenon
<1>3. file = Whole(FirstDocument) /\ FirstDocument \in Documents /\ Len(FirstDocument) \in Nat
  BY DocumentAssumption DEF Init
<1> QED
  BY <1>1, <1>2, <1>3 DEF ConfigInv, FileInv, Whole, BuiltStages, UsedStages

-----------------------------------------------------------------------------
(* The flows *)

FlowInv == Sound(table, {}) /\ now \in Nat /\ clients \in Seq(Clients)

\* A route leads to a backend.
LEMMA RoutedBackend ==
  ASSUME NumberLaws, NEW t, InUse(t), NEW sni, Lookup(t, sni) # 0
  PROVE  t.routes[Lookup(t, sni)].backend \in Backends
<1>1. sni \in DOMAIN Normal
  BY Zenon DEF Lookup
<1>2. PICK H, I : /\ t \in RouteTables(H, I) /\ Named(t)
                  /\ \A i \in DOMAIN t.routes : \E host \in DOMAIN Resolves :
                       t.routes[i].backend = Resolves[host]
  BY Zenon DEF InUse
<1>3. Lookup(t, sni) \in 0 .. Len(t.routes)
  BY <1>1, <1>2, LookupExact, Zenon
<1>4. Lookup(t, sni) \in DOMAIN t.routes
  BY <1>2, <1>3 DEF RouteTables
<1> QED
  BY <1>2, <1>4, ResolvesAssumption, Zenon

LEMMA ClientFlows ==
  ASSUME FlowLaws, NumberLaws, ConfigInv, FlowInv, ReceiveClient
  PROVE  FlowInv'
<1> DEFINE c == Head(clients)
<1>1. /\ pc = "dispatch" /\ More /\ Head(events) = MainTag /\ clients' = Tail(clients)
      /\ now' = now /\ (Forwarded(c) \/ Routed(c) \/ Dropped(c))
  BY Zenon DEF ReceiveClient
<1>2. clients # <<>>
  <2>1. MainTag # InotifyTag
    BY CapacityAssumption DEF MainTag, InotifyTag
  <2> QED
    BY <1>1, <2>1, Zenon DEF More, Readable
<1>3. c \in Clients /\ clients' \in Seq(Clients)
  BY <1>1, <1>2 DEF FlowInv
<1> HIDE DEF c
<1>4. CASE Forwarded(c)
  <2> DEFINE p == SlotOf(table, c)
             b == table.flows[p].backend
  <2>1. p # NoSlot /\ table' = Reuse(table, p, b, now)
    BY <1>4, Zenon DEF Forwarded, WithFlows
  <2>2. p \in UsedSlots(table)
    BY <2>1, Zenon DEF FlowLaws, SlotLaw
  <2>3. b \in Backends
    <3>1. table.flows \in [Slots -> Flow \cup {Unused}]
      BY Zenon DEF FlowInv, Sound, Tables
    <3>2. table.flows[p] \in Flow
      BY <2>2, <3>1, Zenon DEF UsedSlots, Used
    <3> QED
      BY <3>2, Zenon DEF Flow
  <2>4. table' = Acquired(table, c, b, TRUE, now)
    BY <2>1, Zenon DEF Acquired
  <2> HIDE DEF p, b
  <2>5. Sound(table', {})
    BY <1>3, <2>3, <2>4, Zenon DEF FlowLaws, AcquireLaw, FlowInv
  <2> QED
    BY <1>1, <1>3, <2>5, Zenon DEF FlowInv
<1>5. CASE Routed(c)
  <2> DEFINE r == Lookup(config.routes, NameOf[c])
             b == config.routes.routes[r].backend
  <2>1. PICK registered \in BOOLEAN : table' = Acquired(table, c, b, registered, now)
    BY <1>5, Zenon DEF Routed, WithFlows
  <2>2. r # 0
    BY <1>5, Zenon DEF Routed
  <2>3. b \in Backends
    BY <1>1, <2>2, RoutedBackend, Zenon DEF ConfigInv, UsedStages
  <2> HIDE DEF r, b
  <2>4. Sound(table', {})
    BY <1>3, <2>1, <2>3, Zenon DEF FlowLaws, AcquireLaw, FlowInv
  <2> QED
    BY <1>1, <1>3, <2>4, Zenon DEF FlowInv
<1>6. CASE Dropped(c)
  BY <1>1, <1>3, <1>6, Zenon DEF Dropped, FlowInv
<1> QED
  BY <1>1, <1>4, <1>5, <1>6, Zenon

LEMMA ReplyFlows ==
  ASSUME FlowLaws, FlowInv, ReceiveReply
  PROVE  FlowInv'
<1> DEFINE p == Head(events)
           f == [table.flows[p] EXCEPT !.last_seen = now]
<1>1. /\ More /\ p \in Slots /\ table' = [table EXCEPT !.flows[p].last_seen = now]
      /\ UNCHANGED <<now, clients>>
  BY Zenon DEF ReceiveReply
<1>2. p # MainTag /\ p # InotifyTag
  BY <1>1, CapacityAssumption DEF Slots, MainTag, InotifyTag
<1>3. Used(table, p)
  BY <1>1, <1>2, Zenon DEF More, Readable
<1> HIDE DEF p
<1>4. table \in Tables /\ table.flows \in [Slots -> Flow \cup {Unused}]
  BY Zenon DEF FlowInv, Sound, Tables
<1>5. table.flows[p] \in Flow
  BY <1>1, <1>3, <1>4, Zenon DEF Used
<1>6. /\ f \in Flow /\ f.client = table.flows[p].client /\ f.fd = table.flows[p].fd
      /\ f.id = table.flows[p].id
  BY <1>5, Zenon DEF Flow, FlowInv
<1>7. table' = [table EXCEPT !.flows = [table.flows EXCEPT ![p] = f]]
  BY <1>1, <1>4, <1>5, Zenon DEF Tables
<1>8. p \in UsedSlots(table)
  BY <1>1, <1>3, Zenon DEF UsedSlots
<1> HIDE DEF f
<1>9. Sound(table', {})
  BY <1>6, <1>7, <1>8, Zenon DEF FlowLaws, RefreshLaw, FlowInv
<1> QED
  BY <1>1, <1>9, Zenon DEF FlowInv

LEMMA FlowStep ==
  ASSUME FlowLaws, NumberLaws, ConfigInv, FlowInv, [Next]_vars
  PROVE  FlowInv'
<1>1. CASE ReceiveClient
  BY <1>1, ClientFlows, Zenon
<1>2. CASE ReceiveReply
  BY <1>2, ReplyFlows, Zenon
<1>3. CASE Reload
  <2>1. CASE Usable(Contents(file))
    <3> DEFINE doomed == Doomed(Resolved(Contents(file)))
    <3>1. table' = EvictBackends(table, doomed)
      BY <1>3, <2>1, Zenon DEF Reload, WithFlows
    <3> HIDE DEF doomed
    <3>2. Sound(table', {})
      BY <3>1, Zenon DEF FlowLaws, EvictLaw, FlowInv
    <3> QED
      BY <1>3, <3>2, Zenon DEF Reload, FlowInv
  <2>2. CASE ~Usable(Contents(file))
    BY <1>3, <2>2, Zenon DEF Reload, FlowInv
  <2> QED
    BY <2>1, <2>2, Zenon
<1>4. CASE EndEvents
  <2>1. table' = ExpireAll(table, now) \/ UNCHANGED table
    BY <1>4, Zenon DEF EndEvents, WithFlows
  <2>2. Sound(table', {})
    BY <2>1, Zenon DEF FlowLaws, ExpireLaw, FlowInv
  <2> QED
    BY <1>4, <2>2, Zenon DEF EndEvents, FlowInv
<1>5. CASE LeaveLoop \/ WaitFails
  <2>1. table' = Empty /\ clients' = <<>> /\ now' = now
    BY <1>5, Zenon DEF LeaveLoop, WaitFails, Shutdown
  <2> QED
    BY <2>1 DEF FlowLaws, EmptyLaw, FlowInv
<1>6. CASE \E c \in Clients : ClientSends(c)
  BY <1>6 DEF ClientSends, FlowInv
<1>7. CASE Tick
  BY <1>7 DEF Tick, FlowInv
<1>8. CASE UNCHANGED <<table, now, clients>>
  BY <1>8, Zenon DEF FlowInv
<1>9. \/ ReceiveClient \/ ReceiveReply \/ Reload \/ EndEvents \/ LeaveLoop \/ WaitFails
      \/ (\E c \in Clients : ClientSends(c)) \/ Tick \/ UNCHANGED <<table, now, clients>>
  BY Zenon DEF Next, LoopStep, Start, FailToStart, Poll, Wait, WaitInterrupted, NextEvent,
         BackendSends, Signal, Replace, Remove, Truncate, Write, Edit, vars, kernel
<1> QED
  BY <1>1, <1>2, <1>3, <1>4, <1>5, <1>6, <1>7, <1>8, <1>9, Zenon

\* The eviction of a reload spares the flows of a file that is whole.
LEMMA ReloadSpares ==
  ASSUME FlowLaws, NumberLaws, FlowInv, FileInv, Reload, file.written = Len(file.doc),
         NEW p \in UsedSlots(table),
         table.flows[p].backend \in BackendsIn(file.doc) \/ ~Usable(file.doc)
  PROVE  table'.flows[p] = table.flows[p]
<1> DEFINE new == Resolved(file.doc)
           read == Load(file.doc)
           b == table.flows[p].backend
<1>1. file # NoFile
  BY DEF NoFile
<1>2. file.doc \in Documents /\ file.doc \in Seq({file.doc[i] : i \in DOMAIN file.doc})
  BY <1>1, DocumentAssumption, Zenon DEF FileInv
<1>3. Contents(file) = file.doc
  <2>1. Len(file.doc) \in Nat
    BY <1>2
  <2> QED
    BY <1>1, <1>2, <2>1, DocumentFacts DEF Contents
<1>4. CASE ~Usable(file.doc)
  BY <1>3, <1>4, Zenon DEF Reload
<1>5. CASE Usable(file.doc)
  <2>1. table' = EvictBackends(table, Doomed(new))
    BY <1>3, <1>5, Zenon DEF Reload, WithFlows
  <2>2. /\ read.loaded /\ CanResolve(read.config.routes)
        /\ new.routes = Resolve(read.config.routes)
    BY <1>3, <1>5, ReadingFacts, Zenon
  <2>3. b \in BackendsIn(file.doc)
    BY <1>5, Zenon
  <2> HIDE DEF new, b
  <2>4. \A x \in BackendsIn(file.doc) : HasBackend(Resolve(read.config.routes), x)
    BY <1>2, <2>2, LoadedIndexes, Zenon
  <2> HIDE DEF read
  <2>5. b \notin Doomed(new)
    BY <2>2, <2>3, <2>4, Zenon DEF Doomed
  <2> DEFINE doomed == Doomed(new)
  <2> HIDE DEF doomed
  <2>6. table'.flows[p] = table.flows[p]
    BY <2>1, <2>5 DEF FlowLaws, EvictLaw, FlowInv, doomed, b
  <2> QED
    BY <2>6, Zenon
<1> QED
  BY <1>4, <1>5, Zenon

-----------------------------------------------------------------------------
(* The queues, and the types *)

LEMMA AmongType ==
  ASSUME NumberLaws, NEW X, NEW s \in Seq(X), NEW keep
  PROVE  Among(s, keep) \in Seq(X)
<1> DEFINE T == Seq(X)
           N == Len(s)
           Next1(r, n) == IF s[n] \in keep THEN Append(r, s[n]) ELSE r
           step == [n \in 1 .. N |-> [r \in T |-> Next1(r, n)]]
           Eq(f) == f = [n \in 0 .. N |-> IF n = 0 THEN <<>> ELSE Next1(f[n - 1], n)]
           walk == CHOOSE f : Eq(f)
<1>1. Among(s, keep) = walk[N]
  BY Zenon DEF Among
<1>2. N \in Nat /\ <<>> \in T
  OBVIOUS
<1>3. \A n \in 1 .. N, r \in T : Next1(r, n) \in T
  OBVIOUS
<1> HIDE DEF T, N, Next1
<1>4. step \in [1 .. N -> [T -> T]]
  BY <1>3, Zenon
<1>5. \A n \in 1 .. N, r \in T : step[n][r] = Next1(r, n)
  BY Zenon
<1> HIDE DEF step
<1>6. \E f : Eq(f)
  <2>1. PICK f \in [0 .. N -> T] : Stepwise(f, <<>>, step, N)
    BY <1>2, <1>4, Zenon DEF NumberLaws, StepsLaw
  <2>2. \A n \in 0 .. N : f[n] = IF n = 0 THEN <<>> ELSE Next1(f[n - 1], n)
    BY <2>1, <1>2, <1>5 DEF Stepwise
  <2>3. Eq(f)
    BY <2>2, Zenon
  <2> QED
    BY <2>3, Zenon
<1>7. Eq(walk)
  BY <1>6, Zenon
<1> HIDE DEF walk
<1>8. walk[0] = <<>> /\ \A n \in 1 .. N : walk[n] = Next1(walk[n - 1], n)
  <2>1. \A n \in 0 .. N : walk[n] = IF n = 0 THEN <<>> ELSE Next1(walk[n - 1], n)
    BY <1>7, Zenon
  <2> QED
    BY <2>1, <1>2
<1> DEFINE P == {n \in 0 .. N : walk[n] \in T}
<1>9. 0 \in P
  BY <1>2, <1>8
<1>10. \A n \in 1 .. N : n - 1 \in P => n \in P
  BY <1>2, <1>3, <1>8
<1>11. walk[N] \in T
  <2> HIDE DEF P
  <2>1. \A n \in 0 .. N : n \in P
    BY ONLY NumberLaws, <1>2, <1>9, <1>10, Zenon DEF NumberLaws, UpToLaw
  <2> QED
    BY <1>2, <2>1 DEF P
<1> QED
  BY <1>1, <1>11, Zenon DEF T

\* A flag, a queue or a list of the loop and of the kernel, each within its
\* bound.
QueueInv ==
  /\ events \in Seq(Tags) /\ Len(events) <= MaxEvents
  /\ rounds \in 0 .. ReceiveRounds
  /\ stop \in BOOLEAN /\ notify \in BOOLEAN
  /\ clients \in Seq(Clients) /\ Len(clients) <= MaxQueue
  /\ replies \in [Fds -> 0 .. MaxQueue]
  /\ ready \in Seq(Tags)
  /\ now \in Nat /\ last_expire \in 0 .. now

LEMMA TagFacts ==
  /\ MainTag \in Tags /\ InotifyTag \in Tags /\ MainTag # InotifyTag /\ Slots \subseteq Tags
  /\ \A p \in Slots : p # MainTag /\ p # InotifyTag
BY CapacityAssumption DEF Tags, MainTag, InotifyTag, Slots

LEMMA WokenType ==
  ASSUME ready \in Seq(Tags), NEW tag \in Tags
  PROVE  Woken(tag) \in Seq(Tags)
BY DEF Woken

LEMMA StillReadyType ==
  ASSUME NumberLaws, ready \in Seq(Tags)
  PROVE  StillReady \in Seq(Tags)
<1> DEFINE keep == {tag \in Tags : Readable(tag)'}
<1>1. StillReady = Among(ready, keep)
  BY Zenon DEF StillReady
<1> HIDE DEF keep
<1> QED
  BY <1>1, AmongType, Zenon

LEMMA WithFlowsType ==
  ASSUME replies \in [Fds -> 0 .. MaxQueue], NEW t, WithFlows(t)
  PROVE  replies' \in [Fds -> 0 .. MaxQueue]
<1>1. replies' = [fd \in Fds |->
         IF \E p \in Slots : SameFlow(p) /\ table.flows[p].fd = fd THEN replies[fd] ELSE 0]
  BY Zenon DEF WithFlows
<1>2. 0 \in 0 .. MaxQueue
  BY LoopAssumption
<1> QED
  BY <1>1, <1>2, Zenon

LEMMA NothingQueued ==
  /\ <<>> \in Seq(Tags) /\ Len(<<>>) <= MaxEvents
  /\ <<>> \in Seq(Clients) /\ Len(<<>>) <= MaxQueue
  /\ 0 \in 0 .. ReceiveRounds /\ 0 \in Nat /\ 0 \in 0 .. 0
BY LoopAssumption

LEMMA NoReplies == [fd \in Fds |-> 0] \in [Fds -> 0 .. MaxQueue]
<1>1. 0 \in 0 .. MaxQueue
  BY LoopAssumption
<1> QED
  BY <1>1, Zenon

LEMMA Requeued ==
  ASSUME replies \in [Fds -> 0 .. MaxQueue], NEW fd \in Fds, NEW n \in 0 .. MaxQueue,
         NEW r, r = [replies EXCEPT ![fd] = n]
  PROVE  r \in [Fds -> 0 .. MaxQueue]
BY Zenon

LEMMA FdOfFlow ==
  ASSUME FlowInv, NEW p \in Slots, Used(table, p)
  PROVE  table.flows[p].fd \in Fds
<1>1. table.flows \in [Slots -> Flow \cup {Unused}]
  BY Zenon DEF FlowInv, Sound, Tables
<1>2. table.flows[p] \in Flow
  BY <1>1, Zenon DEF Used
<1> QED
  BY <1>2, Zenon DEF Flow

LEMMA RestOf ==
  ASSUME NEW X, NEW s \in Seq(X), s # <<>>
  PROVE  Tail(s) \in Seq(X) /\ Len(s) \in Nat /\ Len(Tail(s)) = Len(s) - 1 /\ Head(s) \in X
OBVIOUS

\* A datagram is taken from a socket that has one, in a round that is left.
LEMMA ReceiveQueues ==
  ASSUME NumberLaws, FlowInv, QueueInv, ReceiveClient \/ ReceiveReply
  PROVE  QueueInv'
<1>1. /\ More /\ rounds' = rounds + 1 /\ ready' = StillReady
      /\ UNCHANGED <<events, stop, notify, now, last_expire>>
  BY Zenon DEF ReceiveClient, ReceiveReply, RoundDone, disk
<1>2. rounds' \in 0 .. ReceiveRounds
  <2>1. rounds < ReceiveRounds
    BY <1>1, Zenon DEF More
  <2> QED
    BY <1>1, <2>1, LoopAssumption DEF QueueInv
<1>3. ready' \in Seq(Tags)
  BY <1>1, StillReadyType, Zenon DEF QueueInv
<1>4. CASE ReceiveClient
  <2>1. Head(events) = MainTag /\ clients' = Tail(clients)
    BY <1>4, Zenon DEF ReceiveClient
  <2>2. clients # <<>>
    BY <1>1, <2>1, TagFacts, Zenon DEF More, Readable
  <2>3. clients' \in Seq(Clients) /\ Len(clients') <= MaxQueue
    <3>1. /\ Tail(clients) \in Seq(Clients) /\ Len(clients) \in Nat
          /\ Len(Tail(clients)) = Len(clients) - 1
      BY <2>2, RestOf, Zenon DEF QueueInv
    <3>2. Len(clients) <= MaxQueue
      BY Zenon DEF QueueInv
    <3> QED
      BY <2>1, <3>1, <3>2, LoopAssumption
  <2>4. replies' \in [Fds -> 0 .. MaxQueue]
    <3>1. (\E t : WithFlows(t)) \/ UNCHANGED replies
      BY <1>4, Zenon DEF ReceiveClient, Forwarded, Routed, Dropped
    <3> QED
      BY <3>1, WithFlowsType, Zenon DEF QueueInv
  <2> QED
    BY <1>1, <1>2, <1>3, <2>3, <2>4, Zenon DEF QueueInv
<1>5. CASE ReceiveReply
  <2> DEFINE p == Head(events)
             fd == table.flows[p].fd
  <2>1. p \in Slots /\ replies' = [replies EXCEPT ![fd] = @ - 1] /\ clients' = clients
    BY <1>5, Zenon DEF ReceiveReply
  <2>2. Used(table, p) /\ replies[fd] > 0
    BY <1>1, <2>1, TagFacts, Zenon DEF More, Readable
  <2>3. replies' \in [Fds -> 0 .. MaxQueue]
    <3>1. fd \in Fds
      BY <2>1, <2>2, FdOfFlow, Zenon
    <3> HIDE DEF fd
    <3>2. replies[fd] \in 0 .. MaxQueue
      BY <3>1, Zenon DEF QueueInv
    <3>3. replies[fd] - 1 \in 0 .. MaxQueue
      BY <2>2, <3>2, LoopAssumption
    <3> QED
      BY <2>1, <3>1, <3>3, Requeued, Zenon DEF QueueInv
  <2> QED
    BY <1>1, <1>2, <1>3, <2>1, <2>3, Zenon DEF QueueInv
<1> QED
  BY <1>4, <1>5, Zenon

LEMMA WaitQueues ==
  ASSUME QueueInv, Wait
  PROVE  QueueInv'
<1> DEFINE n == IF Len(ready) < MaxEvents THEN Len(ready) ELSE MaxEvents
<1>1. /\ events' = SubSeq(ready, 1, n) /\ ready' = SubSeq(ready, n + 1, Len(ready)) \o events'
      /\ rounds' = 0 /\ UNCHANGED <<stop, notify, clients, replies, now, last_expire>>
  BY Zenon DEF Wait, disk
<1>2. ready \in Seq(Tags) /\ Len(ready) \in Nat
  BY DEF QueueInv
<1>3. n \in 0 .. Len(ready) /\ n <= MaxEvents
  BY <1>2, LoopAssumption
<1> HIDE DEF n
<1>4. events' \in Seq(Tags) /\ Len(events') = n
  BY <1>1, <1>2, <1>3
<1>5. SubSeq(ready, n + 1, Len(ready)) \in Seq(Tags)
  BY <1>2, <1>3
<1>6. ready' \in Seq(Tags)
  BY <1>1, <1>4, <1>5
<1>7. 0 \in 0 .. ReceiveRounds
  BY LoopAssumption
<1> QED
  BY <1>1, <1>3, <1>4, <1>6, <1>7, Zenon DEF QueueInv

LEMMA QueueStep ==
  ASSUME NumberLaws, FlowInv, QueueInv, [Next]_vars
  PROVE  QueueInv'
<1>1. CASE ReceiveClient \/ ReceiveReply
  BY <1>1, ReceiveQueues, Zenon
<1>2. CASE Wait
  BY <1>2, WaitQueues, Zenon
<1>3. CASE Poll
  <2>1. /\ ready' = StillReady /\ notify' = FALSE
        /\ UNCHANGED <<events, rounds, stop, clients, replies, now, last_expire>>
    BY <1>3, Zenon DEF Poll
  <2> QED
    BY <2>1, StillReadyType, Zenon DEF QueueInv
<1>4. CASE Reload
  <2>1. /\ ready' = StillReady
        /\ (\E t : WithFlows(t)) \/ UNCHANGED replies
        /\ UNCHANGED <<events, rounds, stop, notify, clients, now, last_expire>>
    BY <1>4, Zenon DEF Reload, disk
  <2> QED
    BY <2>1, StillReadyType, WithFlowsType, Zenon DEF QueueInv
<1>5. CASE LeaveLoop \/ WaitFails
  <2>1. /\ notify' = FALSE /\ events' = <<>> /\ rounds' = 0 /\ clients' = <<>>
        /\ replies' = [fd \in Fds |-> 0] /\ ready' = <<>> /\ UNCHANGED <<stop, now, last_expire>>
    BY <1>5, Zenon DEF LeaveLoop, WaitFails, Shutdown
  <2>2. replies' \in [Fds -> 0 .. MaxQueue]
    BY <2>1, NoReplies, Zenon
  <2>3. stop' \in BOOLEAN /\ now' \in Nat /\ last_expire' \in 0 .. now'
    BY <2>1, Zenon DEF QueueInv
  <2> QED
    BY <2>1, <2>2, <2>3, NothingQueued, Zenon DEF QueueInv
<1>6. CASE NextEvent
  <2>1. /\ events # <<>> /\ events' = Tail(events) /\ rounds' = 0
        /\ UNCHANGED <<stop, notify, clients, replies, ready, now, last_expire>>
    BY <1>6, Zenon DEF NextEvent, disk, kernel
  <2>2. /\ events' \in Seq(Tags) /\ Len(events) \in Nat /\ Len(events') = Len(events) - 1
        /\ Len(events) <= MaxEvents
    BY <2>1, RestOf, Zenon DEF QueueInv
  <2>3. Len(events') <= MaxEvents /\ rounds' \in 0 .. ReceiveRounds
    BY <2>1, <2>2, LoopAssumption
  <2> QED
    BY <2>1, <2>2, <2>3, Zenon DEF QueueInv
<1>7. CASE EndEvents
  <2>1. /\ ready' = StillReady
        /\ (\E t : WithFlows(t)) \/ UNCHANGED replies
        /\ last_expire' = now \/ UNCHANGED last_expire
        /\ UNCHANGED <<events, rounds, stop, notify, clients, now>>
    BY <1>7, Zenon DEF EndEvents, disk
  <2> QED
    BY <2>1, StillReadyType, WithFlowsType DEF QueueInv
<1>8. CASE \E c \in Clients : ClientSends(c)
  <2>1. PICK c \in Clients : /\ Len(clients) < MaxQueue /\ clients' = Append(clients, c)
                             /\ ready' = Woken(MainTag)
    BY <1>8, Zenon DEF ClientSends
  <2>2. UNCHANGED <<events, rounds, stop, notify, replies, now, last_expire>>
    BY <1>8, Zenon DEF ClientSends, disk
  <2>3. clients' \in Seq(Clients) /\ Len(clients') <= MaxQueue
    BY <2>1, LoopAssumption DEF QueueInv
  <2>4. ready' \in Seq(Tags)
    BY <2>1, TagFacts, WokenType, Zenon DEF QueueInv
  <2> QED
    BY <2>2, <2>3, <2>4, Zenon DEF QueueInv
<1>9. CASE \E p \in Slots : BackendSends(p)
  <2>1. PICK p \in Slots : BackendSends(p)
    BY <1>9, Zenon
  <2> DEFINE fd == table.flows[p].fd
  <2>2. /\ Used(table, p) /\ replies[fd] < MaxQueue /\ replies' = [replies EXCEPT ![fd] = @ + 1]
        /\ ready' = Woken(p)
        /\ UNCHANGED <<events, rounds, stop, notify, clients, now, last_expire>>
    BY <2>1, Zenon DEF BackendSends, disk
  <2>3. replies' \in [Fds -> 0 .. MaxQueue]
    <3>1. fd \in Fds
      BY <2>2, FdOfFlow, Zenon
    <3> HIDE DEF fd
    <3>2. replies[fd] \in 0 .. MaxQueue
      BY <3>1, Zenon DEF QueueInv
    <3>3. replies[fd] + 1 \in 0 .. MaxQueue
      BY <2>2, <3>2, LoopAssumption
    <3> QED
      BY <2>2, <3>1, <3>3, Requeued, Zenon DEF QueueInv
  <2>4. ready' \in Seq(Tags)
    BY <2>2, TagFacts, WokenType, Zenon DEF QueueInv
  <2> QED
    BY <2>2, <2>3, <2>4, Zenon DEF QueueInv
<1>10. CASE Replace \/ Remove \/ Truncate \/ Write
  <2>1. /\ UNCHANGED <<events, rounds, stop, clients, replies, now, last_expire>>
        /\ \E f, event : Edit(f, event)
    BY <1>10, Zenon DEF Replace, Remove, Truncate, Write, Edit
  <2>2. notify' \in BOOLEAN /\ ready' \in {ready, Woken(InotifyTag)}
    BY <2>1, Zenon DEF Edit
  <2> QED
    BY <2>1, <2>2, TagFacts, WokenType, Zenon DEF QueueInv
<1>11. CASE Tick
  <2>1. now' = now + 1 /\ UNCHANGED <<events, rounds, stop, notify, clients, replies, ready, last_expire>>
    BY <1>11, Zenon DEF Tick, disk
  <2> QED
    BY <2>1 DEF QueueInv
<1>12. CASE UNCHANGED <<events, rounds, notify, clients, replies, ready, now, last_expire>>
            /\ stop' \in {stop, TRUE}
  BY <1>12, Zenon DEF QueueInv
<1>13. Start \/ FailToStart \/ WaitInterrupted \/ Signal \/ UNCHANGED vars =>
         /\ UNCHANGED <<events, rounds, notify, clients, replies, ready, now, last_expire>>
         /\ stop' \in {stop, TRUE}
  BY Zenon DEF Start, FailToStart, WaitInterrupted, Signal, vars, disk, kernel
<1> QED
  BY <1>1, <1>2, <1>3, <1>4, <1>5, <1>6, <1>7, <1>8, <1>9, <1>10, <1>11, <1>12, <1>13, Zenon
  DEF Next, LoopStep

-----------------------------------------------------------------------------
(* The steps, and what the invariants say *)

ProcessInv == HeldInv /\ ConfigInv /\ FileInv /\ FlowInv /\ QueueInv

LEMMA ProcessInit ==
  ASSUME FlowLaws, NumberLaws, Init
  PROVE  ProcessInv
<1>1. FlowInv
  BY DEF FlowLaws, EmptyLaw, Init, FlowInv
<1>2. QueueInv
  BY NothingQueued, NoReplies, Zenon DEF Init, QueueInv
<1> QED
  BY <1>1, <1>2, HeldInit, ConfigInit, Zenon DEF ProcessInv

LEMMA ProcessStep ==
  ASSUME FlowLaws, NumberLaws, ProcessInv, [Next]_vars
  PROVE  ProcessInv'
<1>1. HeldInv /\ ConfigInv /\ FileInv /\ FlowInv /\ QueueInv
  BY Zenon DEF ProcessInv
<1>2. HeldInv' /\ FileInv'
  BY <1>1, HeldStep, FileStep, Zenon
<1>3. ConfigInv'
  BY <1>1, ConfigStep, Zenon
<1>4. FlowInv'
  BY <1>1, FlowStep, Zenon
<1>5. QueueInv'
  BY <1>1, QueueStep, Zenon
<1> QED
  BY <1>2, <1>3, <1>4, <1>5, Zenon DEF ProcessInv

LEMMA ProcessRoutes ==
  ASSUME NumberLaws, ProcessInv
  PROVE  RoutesExact
<1> HeldInv /\ ConfigInv
  BY Zenon DEF ProcessInv
<1> SUFFICES IndexesExact(config.routes)
  BY Zenon DEF RoutesExact
<1>1. CASE pc \in BuiltStages
  BY <1>1, PartsExact, Zenon DEF ConfigInv, BuiltTables
<1>2. CASE pc \in UsedStages
  BY <1>2, InUseExact, Zenon DEF ConfigInv
<1>3. CASE pc \in {"load", "exited"}
  BY <1>3, Zenon DEF ConfigInv
<1> QED
  BY <1>1, <1>2, <1>3, Zenon DEF HeldInv, StartStages, LoopPcs, BuiltStages, UsedStages

LEMMA ProcessSpares ==
  ASSUME FlowLaws, NumberLaws, ProcessInv, Next, pc = "reload", file.written = Len(file.doc),
         NEW p \in UsedSlots(table),
         table.flows[p].backend \in BackendsIn(file.doc) \/ ~Usable(file.doc)
  PROVE  table'.flows[p] = table.flows[p]
<1> HeldInv /\ ConfigInv /\ FileInv /\ FlowInv
  BY Zenon DEF ProcessInv
<1>1. CASE Reload
  BY <1>1, ReloadSpares, Zenon
<1>2. CASE ~Reload
  <2>1. ~Starting
    BY StartingStages, Zenon DEF StartStages
  <2>2. UNCHANGED table
    BY <1>2, <2>1, Zenon DEF Next, LoopStep, Start, FailToStart, Poll, Wait, WaitInterrupted,
       LeaveLoop, WaitFails, ReceiveClient, ReceiveReply, EndEvents, NextEvent, ClientSends,
       BackendSends, Signal, Tick, Replace, Remove, Truncate, Write, Edit
  <2> QED
    BY <2>2, Zenon
<1> QED
  BY <1>1, <1>2, Zenon

LEMMA ProcessTypes ==
  ASSUME ProcessInv
  PROVE  TypeOK
<1> HeldInv /\ FileInv /\ FlowInv /\ QueueInv
  BY Zenon DEF ProcessInv
<1>1. pc \in LoopPcs \cup {Stages[i] : i \in DOMAIN Stages}
  <2>1. StartStages \subseteq {Stages[i] : i \in DOMAIN Stages}
    BY DEF StartStages, Stages
  <2> QED
    BY <2>1, Zenon DEF HeldInv
<1>2. held \subseteq Parts
  BY Zenon DEF HeldInv, Frees, RuntimeParts, EpollParts, Parts, StartStages, LoopPcs
<1>3. table \in Tables
  BY Zenon DEF FlowInv, Sound
<1>4. file.written \in -1 .. Len(file.doc)
  <2>1. CASE file = NoFile
    BY <2>1 DEF NoFile
  <2>2. CASE file # NoFile
    <3>1. file.written \in 0 .. Len(file.doc) /\ file.doc \in Documents
      BY <2>2, Zenon DEF FileInv
    <3>2. Len(file.doc) \in Nat
      BY <3>1, DocumentAssumption
    <3> QED
      BY <3>1, <3>2
  <2> QED
    BY <2>1, <2>2, Zenon
<1> QED
  BY <1>1, <1>2, <1>3, <1>4, Zenon DEF TypeOK, QueueInv

-----------------------------------------------------------------------------
(* The laws of the flow table *)

Flows == INSTANCE FlowTableProofs
           WITH MaxTime <- 0, MaxId <- 0, call <- 0

\* The operators of the flow table are those of FlowTableProofs, so the laws
\* proved there hold of them.
LEMMA FlowLawsHold == FlowLaws
<1>1. \A t, c : Flows!SlotOf(t, c) = SlotOf(t, c) /\ Flows!UsedSlots(t) = UsedSlots(t)
  BY Zenon
  DEF Slots, Flows!Slots, NoSlot, Flows!NoSlot, Used, Flows!Used, UsedSlots,
      Flows!UsedSlots, SlotOf, Flows!SlotOf
<1>2. Flows!NoSlot = NoSlot /\ Flows!NoFd = NoFd /\ Flows!Flow = Flow /\ Flows!Empty = Empty
  BY Zenon
  DEF NoSlot, Flows!NoSlot, NoFd, Flows!NoFd, Flow, Flows!Flow, Slots,
      Flows!Slots, Empty, Flows!Empty
<1>3. \A t, extra : Flows!Sound(t, extra) <=> Sound(t, extra)
  BY Zenon
  DEF Flow, Flows!Flow, Tables, Flows!Tables, Slots, Flows!Slots, Used,
      Flows!Used, UsedSlots, Flows!UsedSlots, Freed, Flows!Freed, Stacked,
      Flows!Stacked, Owned, Flows!Owned, Single, Flows!Single, Dated,
      Flows!Dated, Sound, Flows!Sound, Cardinality, Flows!Cardinality
<1>4. \A t, p : Flows!RemoveSlot(t, p) = RemoveSlot(t, p)
  BY Zenon
  DEF RemoveSlot, Flows!RemoveSlot
<1>5. \A t : Flows!EvictOldest(t) = EvictOldest(t)
  BY Zenon
  DEF Slots, Flows!Slots, NoSlot, Flows!NoSlot, Used, Flows!Used, UsedSlots,
      Flows!UsedSlots, Dist, Flows!Dist, RemoveSlot, Flows!RemoveSlot,
      EvictScans, Flows!EvictScans, EvictWindow, Flows!EvictWindow, IsVictim,
      Flows!IsVictim, EvictOldest, Flows!EvictOldest
<1>6. \A t : Flows!SocketFd(t) = SocketFd(t)
  BY Zenon
  DEF SocketFd, Flows!SocketFd, NoFd, Flows!NoFd
<1>7. \A t, c, b, fd, time : Flows!PutInto(t, c, b, fd, time) = PutInto(t, c, b, fd, time)
  BY Zenon
  DEF PutInto, Flows!PutInto
<1>8. \A t, c, b, fd, time : Flows!PutNew(t, c, b, fd, time) = PutNew(t, c, b, fd, time)
  <2> TAKE t, c, b, fd, time
  <2>1. (IF t.free_slots = <<>> THEN Flows!EvictOldest(t) ELSE t) =
        (IF t.free_slots = <<>> THEN EvictOldest(t) ELSE t)
    BY <1>5, Zenon
  <2> QED
    BY <1>7, <2>1, Zenon DEF PutNew, Flows!PutNew
<1>9. \A t : Flows!SocketOpen(t) = SocketOpen(t)
  BY <1>2, <1>5, <1>6, Zenon
  DEF SocketOpen, Flows!SocketOpen
<1>10. \A t, c, b, time : Flows!Open(t, c, b, time) = Open(t, c, b, time)
  BY <1>2, <1>6, <1>8, <1>9, Zenon
  DEF Open, Flows!Open
<1>11. \A t, p, b, time : Flows!Reuse(t, p, b, time) = Reuse(t, p, b, time)
  BY Zenon
  DEF Reuse, Flows!Reuse
<1>12. \A t, c, b, registered, time :
        Flows!Acquired(t, c, b, registered, time) = Acquired(t, c, b, registered, time)
  BY <1>1, <1>2, <1>4, <1>10, <1>11, SMT
  DEF Acquired, Flows!Acquired
<1>13. \A t, p, time : Flows!IdleAt(t, p, time) <=> IdleAt(t, p, time)
  BY Zenon
  DEF IdleAt, Flows!IdleAt, Used, Flows!Used
<1>14. \A t, time : Flows!ExpireAll(t, time) = ExpireAll(t, time)
  BY Zenon
  DEF ExpireAll, Flows!ExpireAll, ExpireOne, Flows!ExpireOne, IdleAt,
      Flows!IdleAt, Used, Flows!Used, RemoveSlot, Flows!RemoveSlot, After,
      Flows!After
<1>15. \A t, doomed : Flows!EvictBackends(t, doomed) = EvictBackends(t, doomed)
  BY Zenon
  DEF EvictBackends, Flows!EvictBackends, Used, Flows!Used, RemoveSlot,
      Flows!RemoveSlot
<1>16. /\ \A t, u : (Flows!Kept(t, u) <=> Kept(t, u)) /\ (Flows!Opened(t, u) <=> Opened(t, u))
       /\ \A t, u, c, b, time : Flows!Aimed(t, u, c, b, time) <=> Aimed(t, u, c, b, time)
       /\ \A t, c : Flows!Stranger(t, c) <=> Stranger(t, c)
  BY Zenon
  DEF Slots, Flows!Slots, Used, Flows!Used, UsedSlots, Flows!UsedSlots, Kept,
      Flows!Kept, Opened, Flows!Opened, Aimed, Flows!Aimed, Stranger,
      Flows!Stranger
<1>17. Flows!FlowLaws
  BY <1>2, Flows!FlowLawsTheorem,
     CapacityAssumption, FdsAssumption, UnusedAssumption, LimitAssumption, Zenon
<1>18. SlotLaw
  BY <1>16, <1>17, <1>1, <1>2, Zenon
  DEF Flows!FlowLaws, SlotLaw, Flows!SlotLaw
<1>19. EmptyLaw
  BY <1>16, <1>17, <1>2, <1>3, Zenon
  DEF Flows!FlowLaws, EmptyLaw, Flows!EmptyLaw
<1>20. RefreshLaw
  <2> SUFFICES ASSUME NEW t, NEW f, NEW u,
                      NEW p \in UsedSlots(t), Sound(t, {}), f \in Flow,
                      f.client = t.flows[p].client, f.fd = t.flows[p].fd, f.id = t.flows[p].id,
                      u = [t EXCEPT !.flows = [t.flows EXCEPT ![p] = f]]
               PROVE  Sound(u, {})
    BY Zenon DEF RefreshLaw
  <2>1. p \in Flows!UsedSlots(t) /\ Flows!Sound(t, {}) /\ f \in Flows!Flow
    BY <1>1, <1>2, <1>3, Zenon
  <2>2. Flows!Sound(u, {})
    BY <1>17, <2>1, Zenon DEF Flows!FlowLaws, Flows!RefreshLaw
  <2> QED
    BY <1>3, <2>2, Zenon
<1>21. AcquireLaw
  <2> SUFFICES ASSUME NEW t, NEW c, NEW b, NEW registered, NEW time, NEW u,
                      Sound(t, {}), time \in Nat, c \in Clients, b \in Backends,
                      u = Acquired(t, c, b, registered, time)
               PROVE  /\ Sound(u, {}) /\ Aimed(t, u, c, b, time)
                      /\ \/ Opened(t, u)
                         \/ SlotOf(t, c) # NoSlot /\ u = Reuse(t, SlotOf(t, c), b, time)
    BY SMT, Zenon DEF AcquireLaw
  <2>1. Flows!Sound(t, {}) /\ u = Flows!Acquired(t, c, b, registered, time)
    BY <1>3, <1>12, Zenon
  <2>2. Flows!AcquireLaw
    BY <1>17, Zenon DEF Flows!FlowLaws
  <2>3. /\ Flows!Sound(u, {}) /\ Flows!Aimed(t, u, c, b, time)
        /\ \/ Flows!Opened(t, u)
           \/ Flows!SlotOf(t, c) # Flows!NoSlot /\ u = Flows!Reuse(t, Flows!SlotOf(t, c), b, time)
    BY <2>1, <2>2, SMT DEF Flows!AcquireLaw
  <2> QED
    BY <1>1, <1>2, <1>3, <1>11, <1>16, <2>3, Zenon
<1>22. ExpireLaw
  <2> SUFFICES ASSUME NEW t, NEW time, NEW u,
                      Sound(t, {}), u = ExpireAll(t, time)
               PROVE  /\ Sound(u, {}) /\ Kept(t, u)
                      /\ \A q \in UsedSlots(t) : ~IdleAt(t, q, time) => q \in UsedSlots(u)
    BY Zenon DEF ExpireLaw
  <2>1. Flows!Sound(t, {}) /\ u = Flows!ExpireAll(t, time)
    BY <1>3, <1>14, Zenon
  <2>2. /\ Flows!Sound(u, {}) /\ Flows!Kept(t, u)
        /\ \A q \in Flows!UsedSlots(t) : ~Flows!IdleAt(t, q, time) => q \in Flows!UsedSlots(u)
    BY <1>17, <2>1, Zenon DEF Flows!FlowLaws, Flows!ExpireLaw
  <2> QED
    BY <1>1, <1>3, <1>13, <1>16, <2>2, Zenon
<1>23. EvictLaw
  <2> SUFFICES ASSUME NEW t, NEW doomed, NEW u,
                      Sound(t, {}), u = EvictBackends(t, doomed)
               PROVE  /\ Sound(u, {}) /\ Kept(t, u)
                      /\ \A q \in UsedSlots(u) : u.flows[q].backend \notin doomed
                      /\ \A q \in UsedSlots(t) : t.flows[q].backend \notin doomed =>
                                                   q \in UsedSlots(u) /\ u.flows[q] = t.flows[q]
    BY Zenon DEF EvictLaw
  <2>1. Flows!Sound(t, {}) /\ u = Flows!EvictBackends(t, doomed)
    BY <1>3, <1>15, Zenon
  <2>2. /\ Flows!Sound(u, {}) /\ Flows!Kept(t, u)
        /\ \A q \in Flows!UsedSlots(u) : u.flows[q].backend \notin doomed
        /\ \A q \in Flows!UsedSlots(t) : t.flows[q].backend \notin doomed =>
                                           q \in Flows!UsedSlots(u) /\ u.flows[q] = t.flows[q]
    BY <1>17, <2>1, Zenon DEF Flows!FlowLaws, Flows!EvictLaw
  <2> QED
    BY <1>1, <1>3, <1>16, <2>2, Zenon
<1> QED
  BY <1>18, <1>19, <1>20, <1>21, <1>22, <1>23, Zenon DEF FlowLaws

LEMMA NumberLawsHold == NumberLaws
<1>1. Flows!Flow = Flow
  BY Zenon DEF Flow, Flows!Flow
<1>2. Flows!NumberLaws
  BY <1>1, Flows!NumberLawsTheorem,
     CapacityAssumption, FdsAssumption, UnusedAssumption, LimitAssumption, Zenon
<1> QED
  BY <1>2, Zenon
  DEF NumberLaws, Flows!NumberLaws, LeastLaw, Flows!LeastLaw, UpToLaw,
      Flows!UpToLaw, StepsLaw, Flows!StepsLaw, PigeonLaw, Flows!PigeonLaw,
      Into, Flows!Into, Stepwise, Flows!Stepwise

-----------------------------------------------------------------------------
(* Theorems *)

\* A file that loads and resolves gives a table whose three indexes are exact,
\* in which the eviction of qsr_runtime_poll finds every backend of the file:
\* for any hashes, number of buckets, duplicates and order of the entries.
THEOREM LoadedIndexesExact ==
  ASSUME NEW E, NEW entries \in Seq(E), NEW read, read = Load(entries), read.loaded,
         CanResolve(read.config.routes)
  PROVE  /\ IndexesExact(Resolve(read.config.routes))
         /\ \A b \in BackendsIn(entries) : HasBackend(Resolve(read.config.routes), b)
BY NumberLawsHold, LoadedIndexes, Zenon

LEMMA ProcessAlways == Spec => []ProcessInv
<1>1. Init => ProcessInv
  BY FlowLawsHold, NumberLawsHold, ProcessInit, Zenon
<1>2. ProcessInv /\ [Next]_vars => ProcessInv'
  BY FlowLawsHold, NumberLawsHold, ProcessStep, Zenon
<1> QED
  BY <1>1, <1>2, PTL DEF Spec

\* The routes in force are found by name, by server id and by address, in
\* every state of the process and for any documents the operator may write.
THEOREM RoutesExactTheorem == Spec => []RoutesExact
<1>1. ProcessInv => RoutesExact
  BY NumberLawsHold, ProcessRoutes, Zenon
<1> QED
  BY <1>1, ProcessAlways, PTL

\* A reload closes no flow whose backend is in the file, and a file that does
\* not load or resolve closes none: for any routes, any number of them, any
\* hashes and any flows.
THEOREM SurvivorsKeepFlowTheorem == Spec => SurvivorsKeepFlow
<1> DEFINE Spares == pc = "reload" /\ file.written = Len(file.doc) =>
             \A p \in UsedSlots(table) :
               table.flows[p].backend \in BackendsIn(file.doc) \/ ~Usable(file.doc) =>
                 table'.flows[p] = table.flows[p]
<1>1. ProcessInv /\ [Next]_vars => [Spares]_vars
  BY FlowLawsHold, NumberLawsHold, ProcessSpares, Zenon
<1> QED
  BY <1>1, ProcessAlways, PTL DEF Spec, SurvivorsKeepFlow

\* Every queue keeps within its bound, every tag is a slot's or one of the two
\* others, and the clock of the sweeps is never ahead, whatever the operator,
\* the clients and the kernel do.
THEOREM TypeOKTheorem == Spec => []TypeOK
<1>1. ProcessInv => TypeOK
  BY ProcessTypes, Zenon
<1> QED
  BY <1>1, ProcessAlways, PTL
=============================================================================
