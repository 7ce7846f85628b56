------------------------------ MODULE MCRshash ------------------------------
(* Six strengths, rounds of at most two pages with two charging calls       *)
(* each, and two full hashes in a rebuild.  No counter comes near U64_MAX:  *)
(* Benefit is about that.                                                   *)
EXTENDS Rshash

MCMeasurements == [ratio : 0 .. 100, benefit : 0 .. HASH_STRENGTH_FULL]

(* The steps depend on pages_scanned only through the pages of this round,  *)
(* and on each part of rshash_state only while the state machine reads it:  *)
(* a search leaves a step exponent of 0, so that the direction before it no *)
(* longer matters.                                                          *)
r == rshash_state
LoopView ==
  <<hash_strength, hash_strength_delta, rshash_neg_cont_zero, rshash_cont_obscure,
    fully_scanned_round, r.state,
    IF r.state = "STILL" THEN r.pre_direct ELSE "-",
    IF r.state \in Probing THEN
      <<r.below_count, r.lookup_window_index, r.stable_point,
        r.turn_point_down, r.turn_benefit_down, r.turn_point_up, r.turn_benefit_up>>
    ELSE <<>>,
    r.stable_benefit,
    acct.rshash_pos, acct.rshash_neg, Fresh(acct), calls, rebuild>>
=============================================================================
