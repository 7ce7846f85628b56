---------------------------- MODULE MCStableTree ----------------------------
(* Three nodes over contents that collide at the low strength and, two of   *)
(* them, at full strength too, through the 0 that page_hash_max turns to 1. *)
EXTENDS StableTree, TLC

CONSTANTS n1, n2, n3, a, b, c

MCHash ==
  a :> (1 :> 1 @@ 3 :> 0) @@
  b :> (1 :> 1 @@ 3 :> 1) @@
  c :> (1 :> 1 @@ 3 :> 2)

NodeSymmetry == Permutations(Nodes)
=============================================================================
