----------------------------- MODULE MCRangeIter -----------------------------
(***************************************************************************)
(* RangeIter and RouteCache over the trees of MCBlobTree.                  *)
(***************************************************************************)
EXTENDS MCBlobTree, RouteCache

MCScan(prefix, after, delimiter, n, keys, values) ==
  [on |-> TRUE, prefix |-> prefix, after |-> after, delimiter |-> delimiter,
   calls |-> n, routed |-> 0, keys |-> keys, values |-> values]

MCNoScan ==
  [MCScan(<<>>, Inclusive(<<>>), NoDelimiter, MaxCalls, Keys, Values) EXCEPT !.on = FALSE]

\* Calls through the route cache, and no scan.
MCRouted(n, keys, values) ==
  [MCNoScan EXCEPT !.calls = 0, !.routed = n, !.keys = keys, !.values = values]

\* The two before the last see no puts and more of the other calls.
MCScans ==
  { MCNoScan,
    MCScan(<<>>, Inclusive(<<>>), NoDelimiter, 2, {kb, kc, ke}, {30}),
    MCScan(<<1>>, Exclusive(<<1, 1>>), Slash, 2, {kb, kc, ke}, {30}),
    MCScan(<<>>, Inclusive(<<>>), NoDelimiter, 4, {kc, kd}, {}),
    MCScan(<<>>, Inclusive(<<>>), Slash, 4, {kc, kd}, {}),
    MCRouted(4, {kb, kc}, {2, 30}) }
=============================================================================
