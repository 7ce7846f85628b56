---------------------------- MODULE HashStrength ----------------------------
(***************************************************************************)
(* The adaptive hash-strength state machine of dirtPages.c: rshash_adjust  *)
(* with judge_rshash_direction and the inc/dec helpers.  One step is one   *)
(* call of rshash_adjust at the end of a scan round, followed by the       *)
(* scanner's increment of fully_scanned_round (the scanner is not in the   *)
(* repository; the header of section 13 gives its call sequence).          *)
(*                                                                         *)
(* What a round measured, get_current_neg_ratio() and                      *)
(* get_current_benefit(), is any member of Measurements here; the module   *)
(* Rshash composes this machine with the counters that produce it.         *)
(***************************************************************************)
EXTENDS Integers

CONSTANTS
  HASH_STRENGTH_FULL,       \* u32 words in a page
  HASH_STRENGTH_START,      \* the first strength (HASH_STRENGTH_FULL >> 4)
  HASH_STRENGTH_LOOPBACK,   \* positions sampled a second time (10 in the code)
  HASH_STRENGTH_DELTA_MAX,  \* largest exponent of a step (5 in the code)
  EXPLORE_PERIOD,           \* 256: fully_scanned_round is masked with 0xFF
  EXPLORE_ROUND,            \* 10: the masked round that re-explores
  U8_MAX,                   \* 255: range of below_count, lookup_window_index
  Measurements              \* what a round can measure

HASH_STRENGTH_MAX == HASH_STRENGTH_FULL + HASH_STRENGTH_LOOPBACK
Strengths == 1 .. HASH_STRENGTH_MAX
MaxStep == 2 ^ HASH_STRENGTH_DELTA_MAX

(* A probing phase lasts at most this many rounds: the step doubles for     *)
(* DELTA_MAX rounds and is MaxStep from then on.                            *)
SearchBound == HASH_STRENGTH_DELTA_MAX + (HASH_STRENGTH_MAX \div MaxStep) + 2

ASSUME StrengthAssumption ==
  /\ HASH_STRENGTH_FULL \in Nat \ {0}
  /\ HASH_STRENGTH_START \in 1 .. HASH_STRENGTH_FULL
  /\ HASH_STRENGTH_LOOPBACK \in Nat
  /\ HASH_STRENGTH_DELTA_MAX \in Nat \ {0}
ASSUME RoundAssumption ==
  EXPLORE_PERIOD \in Nat \ {0} /\ EXPLORE_ROUND \in 0 .. EXPLORE_PERIOD - 1
ASSUME MeasurementsAssumption ==
  \A m \in Measurements : m.ratio \in Nat /\ m.benefit \in Nat
(* 1 << delta stays between 1 and the largest step. *)
ASSUME ShiftAssumption ==
  MaxStep \in Nat /\ \A d \in 0 .. HASH_STRENGTH_DELTA_MAX : 2 ^ d \in 1 .. MaxStep
(* With 4 KB pages a phase ends long before its u8 round counter can wrap.  *)
ASSUME WindowAssumption == U8_MAX \in Nat /\ 3 <= U8_MAX /\ SearchBound < U8_MAX

VARIABLES
  hash_strength,         \* positions sampled per hash
  hash_strength_delta,   \* exponent of the next step
  rshash_neg_cont_zero,  \* consecutive rounds with a zero ratio, up to Cap
  rshash_cont_obscure,   \* consecutive rounds with a large drift, up to Cap
  rshash_state,          \* the struct of the same name
  fully_scanned_round    \* rounds completed, as (round & 0xFF)

vars == <<hash_strength, hash_strength_delta, rshash_neg_cont_zero,
          rshash_cont_obscure, rshash_state, fully_scanned_round>>

States == {"NEW", "STILL", "TRYDOWN", "TRYUP", "PRE_STILL"}
Directions == {"GO_UP", "GO_DOWN", "OBSCURE", "STILL"}
Probing == {"TRYDOWN", "TRYUP"}

(* The two consecutive-round counters are only ever tested with "> 2".      *)
Cap == 3
Count(n) == IF n < Cap THEN n + 1 ELSE Cap

RshashStates ==
  [state : States, pre_direct : {"GO_UP", "GO_DOWN"},
   below_count : 0 .. U8_MAX, lookup_window_index : 0 .. U8_MAX,
   stable_benefit : Nat, stable_point : Nat,
   turn_point_down : Nat, turn_benefit_down : Nat,
   turn_point_up : Nat, turn_benefit_up : Nat]

TypeOK ==
  /\ hash_strength \in Strengths
  /\ hash_strength_delta \in 0 .. HASH_STRENGTH_DELTA_MAX
  /\ rshash_neg_cont_zero \in 0 .. Cap
  /\ rshash_cont_obscure \in 0 .. Cap
  /\ rshash_state \in RshashStates
  /\ fully_scanned_round \in 0 .. EXPLORE_PERIOD - 1

Init ==
  /\ hash_strength = HASH_STRENGTH_START
  /\ hash_strength_delta = 0
  /\ rshash_neg_cont_zero = 0
  /\ rshash_cont_obscure = 0
  /\ rshash_state = [state |-> "NEW", pre_direct |-> "GO_UP",
                     below_count |-> 0, lookup_window_index |-> 0,
                     stable_benefit |-> 0, stable_point |-> 0,
                     turn_point_down |-> 0, turn_benefit_down |-> 0,
                     turn_point_up |-> 0, turn_benefit_up |-> 0]
  /\ fully_scanned_round = 1 % EXPLORE_PERIOD

-----------------------------------------------------------------------------
(* inc_hash_strength, dec_hash_strength and inc_hash_strength_delta.        *)
(* Mutant: a lower bound of two.                                            *)
DecStrengthToTwo(s, d) == IF s <= 2 ^ d + 1 THEN 2 ELSE s - 2 ^ d

IncStrength(s, d) ==
  IF s + 2 ^ d > HASH_STRENGTH_MAX THEN HASH_STRENGTH_MAX ELSE s + 2 ^ d
DecStrength(s, d) == IF s <= 2 ^ d + 1 THEN 1 ELSE s - 2 ^ d
IncDelta(d) ==
  IF d + 1 > HASH_STRENGTH_DELTA_MAX THEN HASH_STRENGTH_DELTA_MAX ELSE d + 1

StepUp(s, d) ==
  hash_strength' = IncStrength(s, d) /\ hash_strength_delta' = IncDelta(d)
StepDown(s, d) ==
  hash_strength' = DecStrength(s, d) /\ hash_strength_delta' = IncDelta(d)

(* How far, in percent, a benefit is from the stable one. *)
Drift(benefit) ==
  LET stable == rshash_state.stable_benefit
      delta  == IF benefit > stable THEN benefit - stable ELSE stable - benefit
  IN (100 * delta) \div stable

(* Mutant: the masked round never takes this value. *)
ExploreNever == fully_scanned_round = EXPLORE_PERIOD

ExploreNow == fully_scanned_round = EXPLORE_ROUND

(* judge_rshash_direction returns dir.  The counters it keeps change only   *)
(* when it is called.                                                       *)
Judge(m, dir) ==
  \/ /\ ExploreNow
     /\ dir = "OBSCURE"
     /\ rshash_cont_obscure' = 0
     /\ UNCHANGED rshash_neg_cont_zero
  \/ /\ ~ExploreNow /\ m.ratio = 0
     /\ rshash_neg_cont_zero' = Count(rshash_neg_cont_zero)
     /\ dir = IF rshash_neg_cont_zero' > 2 THEN "GO_DOWN" ELSE "STILL"
     /\ UNCHANGED rshash_cont_obscure
  \/ /\ ~ExploreNow /\ m.ratio # 0
     /\ rshash_neg_cont_zero' = 0
     /\ \/ /\ m.ratio > 90
           /\ dir = "GO_UP"
           /\ rshash_cont_obscure' = 0
        \/ /\ m.ratio <= 90 /\ rshash_state.stable_benefit = 0
           /\ dir = "OBSCURE"
           /\ rshash_cont_obscure' = 0
        \/ /\ m.ratio <= 90 /\ rshash_state.stable_benefit # 0
           /\ Drift(m.benefit) > 50
           /\ rshash_cont_obscure' = Count(rshash_cont_obscure)
           /\ dir = IF rshash_cont_obscure' > 2 THEN "OBSCURE" ELSE "STILL"
        \/ /\ m.ratio <= 90 /\ rshash_state.stable_benefit # 0
           /\ Drift(m.benefit) <= 50
           /\ dir = "STILL"
           /\ rshash_cont_obscure' = 0

-----------------------------------------------------------------------------
(* The cases of rshash_adjust, each with its sub-cases. *)

(* Mutant: GO_UP only makes the next step longer.                           *)
StillGoWithoutStep(m, dir) ==
  /\ rshash_state.state = "STILL"
  /\ Judge(m, dir)
  /\ LET d == IF dir # rshash_state.pre_direct THEN 0 ELSE hash_strength_delta
     IN \/ dir = "GO_UP" /\ UNCHANGED hash_strength /\ hash_strength_delta' = IncDelta(d)
        \/ dir = "GO_DOWN" /\ StepDown(hash_strength, d)
  /\ rshash_state' = [rshash_state EXCEPT !.stable_benefit = m.benefit,
                                          !.pre_direct = dir]

(* RSHASH_STILL, GO_UP and GO_DOWN: a step whose size restarts from one     *)
(* when the direction turns.                                                *)
StillGo(m, dir) ==
  /\ rshash_state.state = "STILL"
  /\ Judge(m, dir)
  /\ LET d == IF dir # rshash_state.pre_direct THEN 0 ELSE hash_strength_delta
     IN \/ dir = "GO_UP" /\ StepUp(hash_strength, d)
        \/ dir = "GO_DOWN" /\ StepDown(hash_strength, d)
  /\ rshash_state' = [rshash_state EXCEPT !.stable_benefit = m.benefit,
                                          !.pre_direct = dir]

(* Mutant: the upward turning point of the search before is kept. *)
StillObscureStale(m) ==
  /\ rshash_state.state = "STILL"
  /\ Judge(m, "OBSCURE")
  /\ StepDown(hash_strength, hash_strength_delta)
  /\ rshash_state' = [rshash_state EXCEPT !.state = "TRYDOWN",
                        !.stable_point = hash_strength,
                        !.turn_point_down = hash_strength,
                        !.turn_benefit_down = m.benefit,
                        !.turn_benefit_up = m.benefit,
                        !.lookup_window_index = 0]

(* RSHASH_STILL, OBSCURE: a search starts here, downwards first. *)
StillObscure(m) ==
  /\ rshash_state.state = "STILL"
  /\ Judge(m, "OBSCURE")
  /\ StepDown(hash_strength, hash_strength_delta)
  /\ rshash_state' = [rshash_state EXCEPT !.state = "TRYDOWN",
                        !.stable_point = hash_strength,
                        !.turn_point_down = hash_strength,
                        !.turn_point_up = hash_strength,
                        !.turn_benefit_down = m.benefit,
                        !.turn_benefit_up = m.benefit,
                        !.lookup_window_index = 0]

StillStay(m) ==
  /\ rshash_state.state = "STILL"
  /\ Judge(m, "STILL")
  /\ UNCHANGED <<hash_strength, hash_strength_delta, rshash_state>>

(* Mutant: below_count never restarts. *)
BelowCountKept(m, floor) ==
  LET b == rshash_state.below_count
  IN IF m.benefit < floor THEN (b + 1) % (U8_MAX + 1) ELSE b

(* A probe of the search: below_count restarts every fifth round of a phase *)
(* and counts the rounds worse than floor.                                  *)
BelowCount(m, floor) ==
  LET b == IF rshash_state.lookup_window_index % 5 = 0
             THEN 0 ELSE rshash_state.below_count
  IN IF m.benefit < floor THEN (b + 1) % (U8_MAX + 1) ELSE b

NextWindow == (rshash_state.lookup_window_index + 1) % (U8_MAX + 1)

(* rshash_state after the bookkeeping that opens a TRYDOWN or TRYUP round. *)
ProbedDown(m) ==
  LET r      == rshash_state
      better == m.benefit >= r.stable_benefit /\ m.benefit > r.turn_benefit_down
  IN [r EXCEPT !.lookup_window_index = NextWindow,
               !.below_count = BelowCount(m, r.stable_benefit),
               !.turn_point_down = IF better THEN hash_strength ELSE @,
               !.turn_benefit_down = IF better THEN m.benefit ELSE @]

ProbedUp(m) ==
  LET r      == rshash_state
      better == m.benefit >= r.turn_benefit_down /\ m.benefit > r.turn_benefit_up
  IN [r EXCEPT !.lookup_window_index = NextWindow,
               !.below_count = BelowCount(m, r.turn_benefit_down),
               !.turn_point_up = IF better THEN hash_strength ELSE @,
               !.turn_benefit_up = IF better THEN m.benefit ELSE @]

(* Whether a phase that would end on verdict dir, or at strength last, ends *)
(* now: below_count is tested first, and then judge is not called.          *)
PhaseEnds(m, probed, dir, last) ==
  \/ probed.below_count >= 3
     /\ UNCHANGED <<rshash_neg_cont_zero, rshash_cont_obscure>>
  \/ /\ probed.below_count < 3
     /\ \E j \in Directions : Judge(m, j) /\ (j = dir \/ hash_strength = last)

PhaseGoesOn(m, probed, dir, last) ==
  /\ probed.below_count < 3
  /\ hash_strength # last
  /\ \E j \in Directions \ {dir} : Judge(m, j)

TryDownMore(m) ==
  /\ rshash_state.state = "TRYDOWN"
  /\ PhaseGoesOn(m, ProbedDown(m), "GO_UP", 1)
  /\ StepDown(hash_strength, hash_strength_delta)
  /\ rshash_state' = ProbedDown(m)

(* Mutant: the upward phase starts where the downward one ended. *)
TryDownEndsThere(m) ==
  /\ rshash_state.state = "TRYDOWN"
  /\ PhaseEnds(m, ProbedDown(m), "GO_UP", 1)
  /\ hash_strength' = IncStrength(hash_strength, 0)
  /\ hash_strength_delta' = 0
  /\ rshash_state' = [ProbedDown(m) EXCEPT !.lookup_window_index = 0,
                                           !.state = "TRYUP"]

(* Back to the stable point, then one up: the upward phase starts. *)
TryDownEnds(m) ==
  /\ rshash_state.state = "TRYDOWN"
  /\ PhaseEnds(m, ProbedDown(m), "GO_UP", 1)
  /\ hash_strength' = IncStrength(rshash_state.stable_point, 0)
  /\ hash_strength_delta' = 0
  /\ rshash_state' = [ProbedDown(m) EXCEPT !.lookup_window_index = 0,
                                           !.state = "TRYUP"]

TryUpMore(m) ==
  /\ rshash_state.state = "TRYUP"
  /\ PhaseGoesOn(m, ProbedUp(m), "GO_DOWN", HASH_STRENGTH_MAX)
  /\ StepUp(hash_strength, hash_strength_delta)
  /\ rshash_state' = ProbedUp(m)

(* Mutants: the search settles on the worse turning point; it stays at the  *)
(* last strength it probed.                                                 *)
TryUpEndsWorse(m) ==
  /\ rshash_state.state = "TRYUP"
  /\ PhaseEnds(m, ProbedUp(m), "GO_DOWN", HASH_STRENGTH_MAX)
  /\ LET r == ProbedUp(m)
     IN /\ hash_strength' = IF r.turn_benefit_up < r.turn_benefit_down
                              THEN r.turn_point_up ELSE r.turn_point_down
        /\ rshash_state' = [r EXCEPT !.state = "PRE_STILL"]
  /\ UNCHANGED hash_strength_delta
TryUpEndsThere(m) ==
  /\ rshash_state.state = "TRYUP"
  /\ PhaseEnds(m, ProbedUp(m), "GO_DOWN", HASH_STRENGTH_MAX)
  /\ rshash_state' = [ProbedUp(m) EXCEPT !.state = "PRE_STILL"]
  /\ UNCHANGED <<hash_strength, hash_strength_delta>>

(* The search settles on the better of the two turning points. *)
TryUpEnds(m) ==
  /\ rshash_state.state = "TRYUP"
  /\ PhaseEnds(m, ProbedUp(m), "GO_DOWN", HASH_STRENGTH_MAX)
  /\ LET r == ProbedUp(m)
     IN /\ hash_strength' = IF r.turn_benefit_up > r.turn_benefit_down
                              THEN r.turn_point_up ELSE r.turn_point_down
        /\ rshash_state' = [r EXCEPT !.state = "PRE_STILL"]
  /\ UNCHANGED hash_strength_delta

(* RSHASH_NEW and RSHASH_PRE_STILL: this round's benefit is the baseline. *)
Settle(m) ==
  /\ rshash_state.state \in {"NEW", "PRE_STILL"}
  /\ rshash_state' = [rshash_state EXCEPT !.stable_benefit = m.benefit,
                                          !.state = "STILL"]
  /\ hash_strength_delta' = 0
  /\ UNCHANGED <<hash_strength, rshash_neg_cont_zero, rshash_cont_obscure>>

Adjust(m) ==
  \/ \E dir \in {"GO_UP", "GO_DOWN"} : StillGo(m, dir)
  \/ StillObscure(m)
  \/ StillStay(m)
  \/ TryDownMore(m)
  \/ TryDownEnds(m)
  \/ TryUpMore(m)
  \/ TryUpEnds(m)
  \/ Settle(m)

(* The scanner counts the completed round. *)
CountRound == fully_scanned_round' = (fully_scanned_round + 1) % EXPLORE_PERIOD

(* A round that scanned some page. *)
Round(m) == Adjust(m) /\ CountRound
ScanRound == \E m \in Measurements : Round(m)

(* A round that scanned none: encode_benefit returns 0 and rshash_adjust    *)
(* returns at once, so a masked round EXPLORE_ROUND can pass unseen.        *)
EmptyRound ==
  /\ CountRound
  /\ UNCHANGED <<hash_strength, hash_strength_delta, rshash_neg_cont_zero,
                 rshash_cont_obscure, rshash_state>>

Next == ScanRound \/ EmptyRound

Spec == Init /\ [][Next]_vars
(* Rounds that scan pages never stop coming while the scanner runs. *)
FairSpec == Spec /\ WF_vars(ScanRound)

-----------------------------------------------------------------------------
(* Properties. *)

(* A search never leaves the range it is exploring: the downward phase      *)
(* probes below its starting point, the upward phase above it, each turning *)
(* point lies on its own side of the start, and the strength a search       *)
(* settles on is one of the turning points of this search, never a stale    *)
(* point of an earlier one (stable_point and turn_point_* are only set      *)
(* again by the OBSCURE case).                                              *)
SearchStaysInRange ==
  LET r == rshash_state
  IN /\ r.state \in Probing \cup {"PRE_STILL"} =>
          /\ r.turn_point_down \in 1 .. r.stable_point
          /\ r.turn_point_up \in r.stable_point .. HASH_STRENGTH_MAX
     /\ r.state = "TRYDOWN" =>
          /\ hash_strength < r.stable_point \/ hash_strength = 1
          /\ r.turn_point_up = r.stable_point
          /\ hash_strength > 1 => hash_strength < r.turn_point_down
     /\ r.state = "TRYUP" =>
          /\ hash_strength > r.stable_point \/ hash_strength = HASH_STRENGTH_MAX
          /\ hash_strength < HASH_STRENGTH_MAX => hash_strength > r.turn_point_up
     /\ r.state = "PRE_STILL" =>
          hash_strength \in {r.turn_point_down, r.turn_point_up}

(* A phase of the search ends before its u8 round counter wraps, whatever   *)
(* the rounds measure: the step doubles, so the end of the range is met     *)
(* within SearchBound rounds.                                               *)
SearchIsBounded ==
  rshash_state.state \in Probing => rshash_state.lookup_window_index < SearchBound

(* The rounds below the floor are those of the current phase and of the     *)
(* current window of five: a count of 3 is acted on in the round it is      *)
(* reached, and what the downward phase counted never cuts the upward one   *)
(* short.                                                                   *)
BelowCountIsCurrent ==
  LET r == rshash_state
  IN r.state \in Probing /\ r.lookup_window_index # 0 =>
       r.below_count <= 2 /\ r.below_count <= 1 + ((r.lookup_window_index - 1) % 5)

(* The turning point carries the better of two benefits and never a worse   *)
(* one than the round that started the search: a search is not a reason to  *)
(* settle lower than the measurement it began with.                         *)
TurningPointsImprove ==
  [][LET r == rshash_state
     IN r.state \in Probing =>
          /\ rshash_state'.turn_benefit_down >= r.turn_benefit_down
          /\ rshash_state'.turn_benefit_up >= r.turn_benefit_up
          /\ rshash_state'.turn_point_down # r.turn_point_down =>
               /\ r.state = "TRYDOWN"
               /\ rshash_state'.turn_benefit_down > r.turn_benefit_down
          /\ rshash_state'.turn_point_up # r.turn_point_up =>
               /\ r.state = "TRYUP"
               /\ rshash_state'.turn_benefit_up > r.turn_benefit_up]_vars

(* After long stable periods the landscape is explored again, provided the  *)
(* rounds with (fully_scanned_round & 0xFF) = 10 scan some page: an empty   *)
(* round in that place loses the exploration of that whole period.          *)
Reexplores ==
  <>[][ExploreNow => ScanRound]_vars => []<>(rshash_state.state = "TRYDOWN")

ZeroRound == \E m \in Measurements : m.ratio = 0 /\ Round(m)
WrongRound == \E m \in Measurements : m.ratio > 90 /\ Round(m)

(* When the hash is never wrong again (ratio 0 in every round that scans),  *)
(* the strength keeps returning to the cheapest value: the doubling steps   *)
(* of GO_DOWN get there although the periodic searches interrupt them.      *)
DriftsDown ==
  <>[][ZeroRound \/ EmptyRound]_vars /\ []<><<ZeroRound>>_vars
    => []<>(hash_strength = 1)

(* When the hash is almost always wrong (ratio above 90 in every round),    *)
(* the strength keeps returning to the largest value.  The searches alone   *)
(* do not see to it, for three bad probes end one early, on the strength it *)
(* began with or below: what the climb between two searches gains must be   *)
(* more than what the next search gives up.  Rounds that scan nothing are   *)
(* excluded, for they shorten the climb.                                    *)
DriftsUp == <>[][WrongRound]_vars => []<>(hash_strength = HASH_STRENGTH_MAX)
=============================================================================
