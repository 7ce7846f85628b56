---------------------------- MODULE MCHashKernel ----------------------------
(* Grids of three threads for one block and for two, so that some have no   *)
(* block.  5-bit words, odd constants as irregular as the code's, shifts of *)
(* about half a word as 33, 29 and 32 are; long blocks of 20 words.         *)
EXTENDS HashKernel
MCShifts == <<3, 2, 3>>
MCSeeds == {5, 17, 30}
=============================================================================
