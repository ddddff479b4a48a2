------------------------------ MODULE RouteTable ------------------------------
(***************************************************************************)
(* The route table of src/src/route_table.c: routes in the order they were *)
(* added, and three indexes of them.  Names and backend addresses are in   *)
(* open-addressed buckets that are only ever inserted into; server ids     *)
(* index an array.  A bucket holds a route's number, 0 (SIZE_MAX in the    *)
(* code) for none.                                                         *)
(***************************************************************************)
EXTENDS Integers, Sequences

CONSTANTS
  RouteBuckets,  \* QSR_ROUTE_BUCKETS
  MaxRoutes,     \* QSR_MAX_ROUTES
  Normal,        \* normalize_hostname, of the names it accepts
  SniHash, BackendHash, \* the first bucket of a normalized name, of an address
  Resolves,      \* getaddrinfo, of the hosts it finds
  ServerIds,     \* the server ids, 0 for none not among them
  Unresolved     \* the address of a route before qsr_route_table_resolve

BucketIds == 0 .. RouteBuckets - 1

ASSUME RouteAssumption ==
  /\ RouteBuckets \in Nat \ {0} /\ MaxRoutes \in 0 .. RouteBuckets
  /\ \A sni \in DOMAIN Normal : SniHash[Normal[sni]] \in BucketIds
  /\ \A addr \in DOMAIN BackendHash : BackendHash[addr] \in BucketIds
  /\ \A host \in DOMAIN Resolves : Resolves[host] \in DOMAIN BackendHash
  /\ Unresolved \notin DOMAIN BackendHash
  /\ 0 \notin ServerIds

\* qsr_route_table_init.
NewTable ==
  [routes |-> <<>>,
   buckets |-> [k \in BucketIds |-> 0],
   backend_buckets |-> [k \in BucketIds |-> 0],
   server_id_index |-> [id \in ServerIds |-> 0]]

\* The probe from hash takes the buckets in the order of their distance, and
\* ends at the first one in stops.
ProbeDist(hash, k) == IF k >= hash THEN k - hash ELSE k - hash + RouteBuckets
EndsAt(hash, stops) ==
  CHOOSE k \in stops : \A j \in stops : ProbeDist(hash, k) <= ProbeDist(hash, j)

\* qsr_route_table_lookup, as the number of the route.
Lookup(t, sni) ==
  LET stops == {k \in BucketIds :
        t.buckets[k] = 0 \/ t.routes[t.buckets[k]].sni = Normal[sni]}
  IN IF sni \notin DOMAIN Normal \/ stops = {} THEN 0
     ELSE t.buckets[EndsAt(SniHash[Normal[sni]], stops)]

LookupByServerId(t, id) == IF id = 0 THEN 0 ELSE t.server_id_index[id]

\* Where the probe for an address ends.
BackendStops(t, addr) ==
  {k \in BucketIds : t.backend_buckets[k] = 0
                       \/ t.routes[t.backend_buckets[k]].backend = addr}

\* qsr_route_table_has_backend.
HasBackend(t, addr) ==
  LET stops == BackendStops(t, addr)
  IN stops # {} /\ t.backend_buckets[EndsAt(BackendHash[addr], stops)] # 0

\* qsr_route_table_add: what it accepts, and the table with the route.
CanAdd(t, r) ==
  /\ Len(t.routes) < MaxRoutes
  /\ r.sni \in DOMAIN Normal /\ Lookup(t, r.sni) = 0
  /\ r.server_id # 0 => t.server_id_index[r.server_id] = 0
  /\ \E k \in BucketIds : t.buckets[k] = 0
Add(t, r) ==
  LET name == Normal[r.sni]
      at == EndsAt(SniHash[name], {k \in BucketIds : t.buckets[k] = 0})
      number == Len(t.routes) + 1
  IN [t EXCEPT !.routes = Append(@, [sni |-> name, host |-> r.host, backend |-> Unresolved,
                                     server_id |-> r.server_id]),
               !.buckets[at] = number,
               !.server_id_index = [id \in ServerIds |->
                                      IF id = r.server_id THEN number ELSE @[id]]]

\* Deviation: only the first bucket is tried.
BackendIndexPutUnprobed(t, i) ==
  [t EXCEPT !.backend_buckets[BackendHash[t.routes[i].backend]] =
     IF @ = 0 THEN i ELSE @]

\* backend_index_put: a bucket per address, whichever route has it first.
BackendIndexPut(t, i) ==
  LET addr == t.routes[i].backend
      at == EndsAt(BackendHash[addr], BackendStops(t, addr))
  IN [t EXCEPT !.backend_buckets[at] = IF @ = 0 THEN i ELSE @]

\* qsr_route_table_resolve: every host is found, or the table is not used.
CanResolve(t) == \A i \in DOMAIN t.routes : t.routes[i].host \in DOMAIN Resolves
Resolve(t) ==
  LET resolved == [t EXCEPT
        !.routes = [i \in DOMAIN @ |->
                      [@[i] EXCEPT !.backend = Resolves[t.routes[i].host]]],
        !.backend_buckets = [k \in BucketIds |-> 0]]
      indexed[n \in 0 .. Len(t.routes)] ==
        IF n = 0 THEN resolved ELSE BackendIndexPut(indexed[n - 1], n)
  IN indexed[Len(t.routes)]

\* What the three lookups promise: each finds the route there is, whatever was
\* inserted around it.
IndexesExact(t) ==
  /\ \A sni \in DOMAIN Normal : \A i \in DOMAIN t.routes :
       t.routes[i].sni = Normal[sni] <=> Lookup(t, sni) = i
  /\ \A id \in ServerIds : \A i \in DOMAIN t.routes :
       t.routes[i].server_id = id <=> LookupByServerId(t, id) = i
  /\ \A addr \in DOMAIN BackendHash :
       HasBackend(t, addr) <=> \E i \in DOMAIN t.routes : t.routes[i].backend = addr
=============================================================================
