--------------------------- MODULE MCHashStrength ---------------------------
EXTENDS HashStrength

(* A measurement of each class of ratio.  Two of the highest class, so that *)
(* under WrongRound a search can begin with a benefit that three probes are *)
(* below.  Of 7 strengths it then probes 2, 3 and 5 and settles on 1, and a *)
(* period of 8 leaves two rounds to climb before the next; with a period of *)
(* 7 DriftsUp fails.  The benefit of 0 in the middle class is away from a   *)
(* stable benefit of 1 by more than half.                                   *)
MCLiveMeasurements ==
  { [ratio |-> 0,  benefit |-> 1], [ratio |-> 50, benefit |-> 0],
    [ratio |-> 95, benefit |-> 0], [ratio |-> 95, benefit |-> 1] }
=============================================================================
