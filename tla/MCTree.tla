------------------------------- MODULE MCTree -------------------------------
(* The calls and the layout that the runs of Tree explore. *)
EXTENDS Tree, TLC

CONSTANTS a, b

MCShard == [k \in Keys |-> IF k = a THEN 1 ELSE 2]
MCBlobOf == [k \in Keys |-> k]

MCOp(kind, key) ==
  [kind |-> kind, key |-> key, dst |-> key, force |-> FALSE, ver |-> 0]
MCRename(src, dst, force) ==
  [kind |-> "rename", key |-> src, dst |-> dst, force |-> force, ver |-> 0]

MCSingle(op) == [call |-> "single", ops |-> <<op>>]
MCBatch(ops) == [call |-> "batch", ops |-> ops]
MCView == [call |-> "view", ops |-> <<>>]
MCList == [call |-> "list", ops |-> <<>>]

\* One call of every kind, on the keys where it can meet the others.
MCCalls ==
  {MCSingle(op) : op \in {MCOp("put", a), MCOp("delete", b),
                          MCOp("compareAndPut", a), MCOp("deleteIfVersion", a),
                          MCRename(a, b, TRUE), MCRename(b, a, FALSE)}}
  \cup
  {MCBatch(ops) : ops \in {<<MCOp("putIfAbsent", b), MCRename(b, a, FALSE)>>,
                           <<MCRename(a, b, TRUE), MCOp("putIfAbsent", b)>>,
                           <<MCOp("delete", a), MCOp("assertPrefixEmpty", a)>>,
                           <<MCRename(a, a, FALSE), MCOp("put", b)>>,
                           <<MCOp("assertVersion", a), MCOp("put", b)>>}}
  \cup {MCView}

\* The calls whose replay does not depend on the image it starts from.
MCRecoveryCalls ==
  {MCSingle(op) : op \in {MCOp("put", a), MCOp("delete", a), MCOp("put", b)}}
  \cup {MCBatch(<<MCOp("delete", b), MCOp("put", a)>>)}

\* Calls whose replay does depend on it.
MCRenameCalls ==
  {MCSingle(op) : op \in {MCOp("put", a), MCRename(a, b, FALSE)}}

\* Writes under listings.
MCListCalls ==
  {MCSingle(MCOp("put", a)), MCBatch(<<MCOp("delete", a), MCOp("put", b)>>), MCList}

MCOption(calls, walSync, n, f, l, c) ==
  [calls |-> calls, walSync |-> walSync, seqs |-> n, faults |-> f, flushes |-> l,
   crashes |-> c]

\* Every call with a walker call that fails; crashes and what reaches the
\* store before them; listings.
MCOptions ==
  [ops |-> MCOption(MCCalls, FALSE, 3, 1, 0, 0),
   recovery |-> MCOption(MCRecoveryCalls, TRUE, 3, 0, 2, 1),
   lists |-> MCOption(MCListCalls, FALSE, 3, 0, 0, 0)]

MCRenameOptions == [renames |-> MCOption(MCRenameCalls, TRUE, 3, 0, 2, 1)]

MCListOptions == [lists |-> MCOption(MCListCalls, FALSE, 2, 0, 0, 0)]

MCSymmetry == Permutations(Threads)
=============================================================================
