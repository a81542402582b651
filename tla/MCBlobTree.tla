----------------------------- MODULE MCBlobTree ------------------------------
(***************************************************************************)
(* Small instances of BlobTree.                                            *)
(***************************************************************************)
EXTENDS BlobTree

ka == <<1, 0>>
kb == <<1, 1, 0>>
kc == <<1, 1, 2, 0>>
kd == <<2, 0>>
ke == <<1, 2, 0>>
kg == <<1, 3, 0>>

MCKeys == {ka, kb, kc, kd, ke, kg}

\* The code's sizes in units of 8 bytes, the two larger inner nodes apart.
MCSizes ==
  [leaf |-> 2, prefix |-> 16, blob |-> 16, node4 |-> 3, node16 |-> 11,
   node48 |-> 14, node256 |-> 20, empty |-> 1]

MCCap == [node4 |-> 2, node16 |-> 3, node48 |-> 4, node256 |-> 256]

\* The last has a blob below a blob below the root.
MCLoads ==
  {<<>>,
   <<<<ka, 30>>, <<kb, 30>>>>,
   <<<<kb, 30>>, <<kc, 30>>, <<kd, 2>>>>,
   <<<<kb, 30>>, <<kc, 30>>, <<kd, 30>>, <<kg, 2>>>>,
   <<<<ka, 2>>, <<kb, 2>>, <<ke, 30>>, <<kg, 2>>>>,
   <<<<kb, 30>>, <<kc, 30>>, <<kd, 30>>, <<kg, 2>>, <<ka, 2>>, <<ka, 30>>>>}
=============================================================================
