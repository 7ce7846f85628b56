------------------------ MODULE MCHashStrengthSearch ------------------------
EXTENDS HashStrengthSearch

(* A ratio of each class judge_rshash_direction tells apart, with benefits  *)
(* below and above one another.                                             *)
MCMeasurements ==
  { [ratio |-> 0,  benefit |-> 3], [ratio |-> 50, benefit |-> 1],
    [ratio |-> 50, benefit |-> 2], [ratio |-> 95, benefit |-> 0] }
=============================================================================
