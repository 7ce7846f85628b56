-------------------------- MODULE HashStrengthSearch --------------------------
(***************************************************************************)
(* HashStrength with a history of each search, to say what a search has    *)
(* seen when it settles.  The code keeps no such record: start and probes  *)
(* are read by no action.                                                  *)
(***************************************************************************)
EXTENDS HashStrength

VARIABLES
  start,    \* benefit of the round that began the latest search
  probes    \* <<strength, benefit>> of each of its rounds, the first included

searchVars == <<vars, start, probes>>

Record(m) ==
  LET probe == <<hash_strength, m.benefit>>
  IN \/ /\ rshash_state.state \in Probing
        /\ probes' = probes \cup {probe}
        /\ UNCHANGED start
     \/ /\ rshash_state.state \notin Probing /\ rshash_state'.state \in Probing
        /\ probes' = {probe}
        /\ start' = m.benefit
     \/ /\ rshash_state.state \notin Probing /\ rshash_state'.state \notin Probing
        /\ UNCHANGED <<start, probes>>

SearchInit == Init /\ start = 0 /\ probes = {}

SearchScan == \E m \in Measurements : Round(m) /\ Record(m)
SearchNext == SearchScan \/ (EmptyRound /\ UNCHANGED <<start, probes>>)

SearchSpec == SearchInit /\ [][SearchNext]_searchVars
SearchFairSpec == SearchSpec /\ WF_searchVars(SearchScan)

-----------------------------------------------------------------------------
(* Properties. *)

(* Each turning point is a strength this search measured, with the benefit  *)
(* it measured there: a point and a benefit of different rounds, or of an   *)
(* earlier search, are never paired.                                        *)
TurningPointsMeasured ==
  rshash_state.state \in Probing \cup {"PRE_STILL"} =>
    /\ <<rshash_state.turn_point_down, rshash_state.turn_benefit_down>> \in probes
    /\ <<rshash_state.turn_point_up, rshash_state.turn_benefit_up>> \in probes

(* The strength a search settles on beats or equals every probe, except the *)
(* downward probes below the old stable benefit, which are never candidates *)
(* (the "else if" under benefit < stable_benefit in the TRYDOWN case).      *)
Settled == rshash_state.state = "PRE_STILL"
SettledBenefit ==
  IF rshash_state.turn_benefit_up > rshash_state.turn_benefit_down
    THEN rshash_state.turn_benefit_up ELSE rshash_state.turn_benefit_down
SettlesAtBestCandidate ==
  Settled =>
    /\ <<hash_strength, SettledBenefit>> \in probes
    /\ SettledBenefit >= start
    /\ \A p \in probes :
         \/ p[2] <= SettledBenefit
         \/ p[1] <= rshash_state.stable_point /\ p[2] < rshash_state.stable_benefit

(* The search implements the abstract one. *)
Abstract ==
  INSTANCE StrengthSearch WITH
    Benefits <- {m.benefit : m \in Measurements},
    strength <- hash_strength,
    searching <- rshash_state.state \in Probing,
    measured <- probes
ImplementsSearch == Abstract!FairSpec
=============================================================================
