----------------------------- MODULE MCFhTable ------------------------------
(* Three blocks of two lengths and a hash with collisions of every kind: of *)
(* two contents, of two lengths, and in a bucket only.                      *)
EXTENDS FhTable, TLC
CONSTANTS b1, b2, b3, c1, c2, c3, short, long
MCLen == b1 :> short @@ b2 :> short @@ b3 :> long
MCHash(c, l) ==
  CASE c = c1 -> 5 [] c = c2 /\ l = short -> 5 [] c = c2 -> 3 [] OTHER -> 1
=============================================================================
