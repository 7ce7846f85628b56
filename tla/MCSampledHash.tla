--------------------------- MODULE MCSampledHash ----------------------------
(* prandom_u32 over a range that leaves every remainder, on a clock of      *)
(* eight ticks.  Words of 8 bits with shifts 2 and 3, a quarter of 32, 8    *)
(* and 12.  Pages of three words, two of them sampled again beyond full     *)
(* strength.                                                                *)
EXTENDS SampledHash
MCRandom == 0 .. 5
MCWords == {0, 1, 2, 85, 128, 255}
=============================================================================
