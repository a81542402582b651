----------------------------- MODULE RouteCache ------------------------------
(***************************************************************************)
(* The route cache (src/src/engine/route_cache.rs, walker/route.rs): walks *)
(* of lookup, insert, batched insert and erase that start at a remembered  *)
(* blob below the root, over the trees of BlobTree.                        *)
(*                                                                         *)
(* An entry is believed if its parent's content version is the one it was  *)
(* learned at, or else if the edge is still there.  Content versions start *)
(* again at 0 when a blob is evicted and loaded.  A writer has the latch   *)
(* of the parent until it has the child's, so its call is one step.  A     *)
(* lookup holds a latch for one crossing at a time and no gate: each       *)
(* crossing of a lookup is a step of its own.                              *)
(*                                                                         *)
(* Guids are never used twice; BlobTree numbers the blobs alive, so a guid *)
(* here is that number with the count of blobs that have had it.           *)
(***************************************************************************)
EXTENDS RangeIter

CONSTANTS
  ROUTE_CACHE_CAPACITY,
  ROUTE_PREFIX_MAX

VARIABLES
  routes,     \* RouteEntries.map: from prefixes to routes
  version,    \* content versions
  births      \* the blobs that have had each number

routeVars == <<routes, version, births>>

Guid(g) == <<g, births[g]>>

\* BufferManager::pin finds the blob; one that was merged away is pending deletion.
CanPin(guid) == guid[1] \in DOMAIN blobs /\ guid = Guid(guid[1])

-----------------------------------------------------------------------------
(* Crossings *)

\* lookup_at as far as the next blob node: the blob behind it and the depth there.
RECURSIVE Crossing(_, _, _, _)
Crossing(f, slot, k, d) ==
  LET n == Node(f, slot)
  IN  CASE n.type = "blob" -> <<n.guid, d>>
        [] n.type = "prefix" ->
             IF IsPrefix(n.bytes, Rest(k, d)) THEN Crossing(f, n.child, k, d + Len(n.bytes)) ELSE NoBlob
        [] IsInner(n) ->
             IF d < Len(k) /\ k[d + 1] \in DOMAIN n.kids
             THEN Crossing(f, n.kids[k[d + 1]], k, d + 1) ELSE NoBlob
        [] OTHER -> NoBlob

CrossingFrom(g, k, d) == Crossing(blobs[g], blobs[g].root, k, d)

Route(g, d, to) ==
  [parent |-> Guid(g), parentDepth |-> d, version |-> version[g],
   child |-> Guid(to[1]), depth |-> to[2]]

\* The crossings of the walk from blob g, as the routes that may be learned there.
RECURSIVE Walk(_, _, _)
Walk(k, g, d) ==
  LET to == CrossingFrom(g, k, d)
  IN  IF to = NoBlob THEN {} ELSE {Route(g, d, to)} \cup Walk(k, to[1], to[2])

-----------------------------------------------------------------------------
(* The cache *)

\* SearchKey::user_prefix, which has no prefix that takes in the terminator.
HasPrefix(k, n) == n <= Len(User(k))
Prefix(k, n) == SubSeq(k, 1, n)

SameEdge(r, s) == r.parent = s.parent /\ r.parentDepth = s.parentDepth /\ r.child = s.child

\* The prefix an entry is found under.
Cached(k, r) == Prefix(k, r.depth)

\* At the capacity one entry makes room; which, the replace cursor says.
Inserted(rs, p, r) ==
  LET kept == {q \in DOMAIN rs : ~(IsStrictPrefix(p, q) /\ SameEdge(rs[q], r))}
  IN  {p :> r @@ Restrict(rs, kept \ out) :
         out \in IF Cardinality(kept) < ROUTE_CACHE_CAPACITY THEN {{}} ELSE {{q} : q \in kept}}

\* RouteCache::learn: what the cache may become.
Learn(rs, k, r) ==
  LET p == Cached(k, r)
  IN  IF ~HasPrefix(k, r.depth) \/ Len(p) > ROUTE_PREFIX_MAX THEN {rs}
      ELSE IF p \in DOMAIN rs THEN {[rs EXCEPT ![p] = r]}
      ELSE IF \E q \in DOMAIN rs : IsStrictPrefix(q, p) /\ SameEdge(rs[q], r) THEN {rs}
      ELSE Inserted(rs, p, r)

\* RouteCache::lookup: the longest prefix that is cached, if there is one.
Hits(k) == {p \in DOMAIN routes : HasPrefix(k, Len(p)) /\ IsPrefix(p, k)}
Hit(k) == {p \in Hits(k) : \A q \in Hits(k) : Len(q) <= Len(p)}

\* validate_route_edge
EdgeIsThere(k, r) ==
  LET to == CrossingFrom(r.parent[1], k, r.parentDepth)
  IN  to # NoBlob /\ Guid(to[1]) = r.child /\ to[2] = r.depth

\* Mutant of IsUsable: the edge is believed without a look at the child.
IsUsableUnpinned(k, r) ==
  /\ CanPin(r.parent)
  /\ version[r.parent[1]] = r.version \/ EdgeIsThere(k, r)

IsUsable(k, r) ==
  /\ CanPin(r.parent)
  /\ version[r.parent[1]] = r.version \/ EdgeIsThere(k, r)
  /\ CanPin(r.child)

\* The route a walk takes, if there is one.
Taken(k) == {r \in {routes[p] : p \in Hit(k)} : IsUsable(k, r)}

\* refresh_parent_version, and invalidate for an entry that is of no use
Refreshed(k, r) == [routes EXCEPT ![Cached(k, r)].version = version[r.parent[1]]]
Dropped(k) == Restrict(routes, DOMAIN routes \ Hit(k))

-----------------------------------------------------------------------------
(* Where a write starts, and the cache then: by a route, at the blob the root *)
(* leads to, which is learned, or at the root                                 *)

FromRoot(k, to) ==
  IF to = NoBlob THEN {[g |-> 0, d |-> 0, routes |-> Dropped(k)]}
  ELSE {[g |-> to[1], d |-> to[2], routes |-> rs] : rs \in Learn(Dropped(k), k, Route(0, 0, to))}

Starts(k) ==
  IF Taken(k) = {} THEN FromRoot(k, CrossingFrom(0, k, 0))
  ELSE {[g |-> r.child[1], d |-> r.depth, routes |-> Refreshed(k, r)] : r \in Taken(k)}

\* The exclusive latch of a blob raises its content version, whether or not the blob
\* changes.  A blob that is new starts at 0.
Versioned(latched) ==
  /\ version' = [g \in DOMAIN blobs' |->
                   IF g \notin DOMAIN blobs THEN 0
                   ELSE IF g \in latched THEN version[g] + 1
                   ELSE version[g]]
  /\ births' = [g \in Guids |->
                  IF g \in DOMAIN blobs' \ DOMAIN blobs THEN births[g] + 1 ELSE births[g]]
  /\ UNCHANGED scanVars

\* The blobs a writer latches: where it starts and every blob it crosses to.
Latched(k, s) == {s.g} \cup {r.child[1] : r \in Walk(k, s.g, s.d)}

RoutedPut(k, v) ==
  \E s \in Starts(k) :
    /\ PutFrom(k, v, s.g, s.d)
    /\ routes' = s.routes
    /\ Versioned(Latched(k, s))

RoutedDelete(k) ==
  \E s \in Starts(k) :
    /\ DeleteFrom(k, s.g, s.d)
    /\ routes' = s.routes
    /\ Versioned(Latched(k, s))

-----------------------------------------------------------------------------
(* A run of puts, <<key, value>> each, as an atomic batch makes them *)

\* same_child_prefix_run_len
InRun(k, first, d) == k = first \/ (HasPrefix(k, d) /\ HasPrefix(first, d) /\ Prefix(k, d) = Prefix(first, d))

\* The items up to the first one that belongs below another child.
Run(items, d) ==
  SelectInSeq(items, LAMBDA i : ~InRun(i[1], items[1][1], d))

RunOf(items, d) ==
  IF Run(items, d) = 0 THEN items ELSE SubSeq(items, 1, Run(items, d) - 1)

\* One item in the pinned blob g: the run stops where the walk leaves the blob or
\* finds no space in it.  What that last walk allocated stays until a compaction.
InsertNext(acc, item, g, r) ==
  IF r.f.err = "slots" THEN [acc EXCEPT !.blobs[g] = Handled(r.f), !.result = "slots", !.open = FALSE]
  ELSE IF r.f.err = "space" THEN [acc EXCEPT !.blobs[g] = Handled(r.f), !.cut = TRUE, !.open = FALSE]
  ELSE IF r.cross # NoBlob THEN [acc EXCEPT !.open = FALSE]
  ELSE [acc EXCEPT !.blobs[g] = [r.f EXCEPT !.root = r.slot], !.applied = @ \o <<item>>]

\* insert_batch_in_pinned_blob
InsertBatchInBlob(items, g, d) ==
  FoldLeft(LAMBDA acc, i :
             IF ~acc.open THEN acc
             ELSE InsertNext(acc, i, g,
                    InsertAtStep(acc.blobs[g], acc.blobs[g].root, i[1], i[2], d)),
           [blobs |-> blobs, applied |-> <<>>, result |-> "ok", open |-> TRUE, cut |-> FALSE], items)

\* A run that applied nothing makes its first put by itself, from the same blob.
RunOrFirst(run, item, r) ==
  IF run.applied # <<>> \/ run.result # "ok" THEN run
  ELSE [blobs |-> r.blobs, result |-> r.result, cut |-> FALSE,
        applied |-> IF r.result = "ok" THEN <<item>> ELSE <<>>]

\* insert_multi_batch_conditional: the caller comes back with the items left over.
RoutedRun(items) ==
  \E s \in Starts(items[1][1]) :
    \E run \in {InsertBatchInBlob(RunOf(items, s.d), s.g, s.d)} :
      \E r \in {RunOrFirst(run, items[1],
                 InsertInBlob(run.blobs, s.g, items[1][1], items[1][2], s.d, 0))} :
        /\ r.result # "out of bounds"
        /\ Called(IF r.cut THEN "cut" ELSE r.result)
        /\ blobs' = r.blobs
        /\ dict' = FoldLeft(LAMBDA m, i : [m EXCEPT ![i[1]] = i[2]], dict, r.applied)
        /\ routes' = s.routes
        /\ Versioned(Latched(items[1][1], s))

-----------------------------------------------------------------------------
(* Lookups, and what goes on around them *)

\* lookup_from_cached_route: what a lookup leaves of the entry it tries.
TryRoute(k) ==
  /\ routes' \in IF Taken(k) = {} THEN {Dropped(k)} ELSE {Refreshed(k, r) : r \in Taken(k)}
  /\ UNCHANGED <<vars, scanVars, version, births>>

\* pin_validated_child: a lookup learns every crossing it makes.
LearnCrossing(k, r) ==
  /\ routes' \in Learn(routes, k, r)
  /\ UNCHANGED <<vars, scanVars, version, births>>

\* A blob that is clean and unpinned leaves the cache and is loaded again; the root is pinned.
EvictAndLoad(g) ==
  /\ g # 0
  /\ version' = [version EXCEPT ![g] = 0]
  /\ UNCHANGED <<vars, scanVars, routes, births>>

Maintain(g) ==
  /\ Compact(g) \/ Merge(g)
  /\ UNCHANGED routes
  /\ Versioned({g})

\* The calls through the cache start from the trees of three levels, the others not.
RouteInit ==
  /\ RangeInit
  /\ (scan.routed > 0) = (\E g \in DOMAIN blobs \ {0} : blobs[g].ext # 0)
  /\ routes = <<>>
  /\ version = [g \in DOMAIN blobs |-> 0]
  /\ births = [g \in Guids |-> IF g \in DOMAIN blobs THEN 1 ELSE 0]

Uncached == RangeNext /\ UNCHANGED routeVars

RoutedCall ==
  /\ calls < scan.routed
  /\ \/ \E k \in scan.keys, v \in scan.values : RoutedPut(k, v)
     \/ \E k \in scan.keys : RoutedDelete(k)
     \/ \E j, k \in scan.keys, v \in scan.values : j # k /\ RoutedRun(<<<<j, v>>, <<k, v>>>>)
     \/ \E g \in DOMAIN blobs : Maintain(g)

RoutedLookup ==
  /\ scan.routed > 0
  /\ \/ \E k \in scan.keys : TryRoute(k) \/ \E r \in Walk(k, 0, 0) : LearnCrossing(k, r)
     \/ \E g \in DOMAIN blobs : EvictAndLoad(g)

RouteNext == Uncached \/ RoutedCall \/ RoutedLookup

RouteSpec == RouteInit /\ [][RouteNext]_<<vars, scanVars, routeVars>>

-----------------------------------------------------------------------------
(***************************************************************************)
(* A route that passes its checks leads where the walk from the root leads *)
(* (route_cache.rs:3-7): the walk of the key goes through that very blob   *)
(* at that depth, although the parent's version may be one it had before   *)
(* an eviction, and blobs were spilled, merged and compacted since.        *)
(***************************************************************************)
RoutesLeadHome ==
  \A k \in Keys : \A r \in Taken(k) :
    \E w \in Walk(k, 0, 0) : w.child = r.child /\ w.depth = r.depth
=============================================================================
