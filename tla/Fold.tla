-------------------------------- MODULE Fold --------------------------------
(* FoldLeft alone of SequencesExt, as a recursion over the prefixes of the   *)
(* sequence: a proof carries every definition of the modules its own         *)
(* extends, and that module is large.                                        *)
EXTENDS Integers, Sequences

\* op over the elements of s, from the first to the last, starting at base.
FoldLeft(op(_, _), base, s) ==
  LET f[i \in 0 .. Len(s)] == IF i = 0 THEN base ELSE op(f[i - 1], s[i])
  IN  f[Len(s)]
=============================================================================
