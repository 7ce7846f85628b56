------------------------------ MODULE MCBenefit ------------------------------
(* Three-bit counters: a page charges little against U64_MAX, as in the     *)
(* code, and a round is long enough for the counters to be scaled twice.    *)
EXTENDS Benefit
=============================================================================
