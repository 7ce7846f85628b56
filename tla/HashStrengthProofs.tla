-------------------------- MODULE HashStrengthProofs --------------------------
(* Proofs about the hash-strength state machine, for every page size, step  *)
(* bound, exploration period and set of measurements; about the history of  *)
(* its searches (HashStrengthSearch); and about the feedback loop that      *)
(* attaches the counters to it (Rshash), the last part, which alone uses    *)
(* the assumptions of Counters and Rshash.                                  *)
EXTENDS HashStrengthSearch, Rshash, TLAPS

LEMMA StrengthFacts ==
  /\ HASH_STRENGTH_MAX \in Nat /\ 1 <= HASH_STRENGTH_MAX
  /\ Strengths = 1 .. HASH_STRENGTH_MAX
BY StrengthAssumption DEF HASH_STRENGTH_MAX, Strengths

(* The helpers of rshash_adjust keep a strength and an exponent in range,   *)
(* and move the strength the way they are named.                            *)
LEMMA IncStrengthRange ==
  ASSUME NEW s \in Strengths, NEW d \in 0 .. HASH_STRENGTH_DELTA_MAX
  PROVE  /\ IncStrength(s, d) \in Strengths
         /\ IncStrength(s, d) > s \/ IncStrength(s, d) = HASH_STRENGTH_MAX
         /\ IncStrength(s, d) >= s
BY StrengthFacts, ShiftAssumption DEF IncStrength

LEMMA DecStrengthRange ==
  ASSUME NEW s \in Strengths, NEW d \in 0 .. HASH_STRENGTH_DELTA_MAX
  PROVE  /\ DecStrength(s, d) \in Strengths
         /\ DecStrength(s, d) < s \/ DecStrength(s, d) = 1
         /\ DecStrength(s, d) <= s
BY StrengthFacts, ShiftAssumption DEF DecStrength

LEMMA IncDeltaRange ==
  ASSUME NEW d \in 0 .. HASH_STRENGTH_DELTA_MAX
  PROVE  /\ IncDelta(d) \in 0 .. HASH_STRENGTH_DELTA_MAX
         /\ IncDelta(d) = d + 1 \/ (d = HASH_STRENGTH_DELTA_MAX /\ IncDelta(d) = d)
BY StrengthAssumption DEF IncDelta

LEMMA CountRange == ASSUME NEW n \in 0 .. Cap PROVE Count(n) \in 0 .. Cap
BY DEF Count, Cap

LEMMA BelowCountRange ==
  ASSUME TypeOK, NEW m \in Measurements, NEW floor
  PROVE  BelowCount(m, floor) \in 0 .. U8_MAX
BY WindowAssumption DEF BelowCount, TypeOK, RshashStates

LEMMA NextWindowRange == TypeOK => NextWindow \in 0 .. U8_MAX
BY WindowAssumption DEF NextWindow, TypeOK, RshashStates

(* judge_rshash_direction, called or not, keeps its two counters in range.  *)
CountersTyped ==
  rshash_neg_cont_zero \in 0 .. Cap /\ rshash_cont_obscure \in 0 .. Cap

LEMMA JudgeRange ==
  ASSUME TypeOK, NEW m \in Measurements, NEW dir, Judge(m, dir)
  PROVE  CountersTyped'
<1> USE DEF CountersTyped, TypeOK
<1>1. CASE ExploreNow
  BY <1>1 DEF Judge, Cap
<1>2. CASE ~ExploreNow /\ m.ratio = 0
  BY <1>2, CountRange DEF Judge
<1>3. CASE ~ExploreNow /\ m.ratio # 0
  BY <1>3, CountRange DEF Judge, Cap
<1>4. QED
  BY <1>1, <1>2, <1>3

LEMMA PhaseRange ==
  ASSUME TypeOK, NEW m \in Measurements, NEW probed, NEW dir, NEW last,
         PhaseEnds(m, probed, dir, last) \/ PhaseGoesOn(m, probed, dir, last)
  PROVE  CountersTyped'
<1>1. CASE \E j \in Directions : Judge(m, j)
  BY <1>1, JudgeRange
<1>2. CASE UNCHANGED <<rshash_neg_cont_zero, rshash_cont_obscure>>
  BY <1>2 DEF TypeOK, CountersTyped
<1>3. QED
  BY <1>1, <1>2 DEF PhaseEnds, PhaseGoesOn

LEMMA ProbedRange ==
  ASSUME TypeOK, NEW m \in Measurements
  PROVE  ProbedDown(m) \in RshashStates /\ ProbedUp(m) \in RshashStates
<1>1. m.benefit \in Nat /\ hash_strength \in Nat /\ rshash_state \in RshashStates
  BY MeasurementsAssumption, StrengthFacts DEF TypeOK
<1>2. NextWindow \in 0 .. U8_MAX
  BY NextWindowRange
<1>3. BelowCount(m, rshash_state.stable_benefit) \in 0 .. U8_MAX
  BY BelowCountRange
<1>4. BelowCount(m, rshash_state.turn_benefit_down) \in 0 .. U8_MAX
  BY BelowCountRange
<1>5. ProbedDown(m) \in RshashStates
  BY <1>1, <1>2, <1>3 DEF ProbedDown, RshashStates
<1>6. ProbedUp(m) \in RshashStates
  BY <1>1, <1>2, <1>4 DEF ProbedUp, RshashStates
<1>7. QED
  BY <1>5, <1>6

-----------------------------------------------------------------------------
(* The points a search works with are strengths.  TypeOK needs this: the    *)
(* strength is set back to stable_point or to a turning point.              *)
PointsInRange ==
  rshash_state.state \in Probing =>
    /\ rshash_state.stable_point \in Strengths
    /\ rshash_state.turn_point_down \in Strengths
    /\ rshash_state.turn_point_up \in Strengths

TypeInv == TypeOK /\ PointsInRange

LEMMA ProbedPoints ==
  ASSUME TypeInv, NEW m \in Measurements, rshash_state.state \in Probing
  PROVE  /\ ProbedDown(m).stable_point \in Strengths
         /\ ProbedDown(m).turn_point_down \in Strengths
         /\ ProbedDown(m).turn_point_up \in Strengths
         /\ ProbedUp(m).turn_point_down \in Strengths
         /\ ProbedUp(m).turn_point_up \in Strengths
         /\ ProbedUp(m).stable_point \in Strengths
BY DEF TypeInv, TypeOK, PointsInRange, ProbedDown, ProbedUp, RshashStates

LEMMA TypeInvInit == Init => TypeInv
BY StrengthFacts, StrengthAssumption, RoundAssumption, WindowAssumption
DEF Init, TypeInv, TypeOK, PointsInRange, States, Probing, Cap,
    RshashStates, HASH_STRENGTH_MAX

(* One round keeps the variables of rshash_adjust typed. *)
AdjustTyped ==
  /\ hash_strength \in Strengths
  /\ hash_strength_delta \in 0 .. HASH_STRENGTH_DELTA_MAX
  /\ CountersTyped
  /\ rshash_state \in RshashStates
  /\ PointsInRange

LEMMA AdjustKeepsTypes ==
  ASSUME TypeInv, NEW m \in Measurements, Adjust(m)
  PROVE  AdjustTyped'
<1> USE DEF AdjustTyped
<1>1. /\ TypeOK
      /\ m.benefit \in Nat
      /\ hash_strength \in Strengths /\ hash_strength \in Nat
      /\ hash_strength_delta \in 0 .. HASH_STRENGTH_DELTA_MAX
      /\ 0 \in 0 .. HASH_STRENGTH_DELTA_MAX
      /\ 0 \in 0 .. U8_MAX
      /\ rshash_state \in RshashStates
  BY MeasurementsAssumption, StrengthFacts, StrengthAssumption, WindowAssumption
  DEF TypeInv, TypeOK
<1>2. ASSUME NEW dir \in {"GO_UP", "GO_DOWN"}, StillGo(m, dir)
      PROVE  AdjustTyped'
  <2> DEFINE d == IF dir # rshash_state.pre_direct THEN 0 ELSE hash_strength_delta
  <2>1. d \in 0 .. HASH_STRENGTH_DELTA_MAX
    BY <1>1
  <2>2. StepUp(hash_strength, d) \/ StepDown(hash_strength, d)
    BY <1>2 DEF StillGo
  <2>3. /\ hash_strength' \in Strengths
        /\ hash_strength_delta' \in 0 .. HASH_STRENGTH_DELTA_MAX
    BY <1>1, <2>1, <2>2, IncStrengthRange, DecStrengthRange, IncDeltaRange
    DEF StepUp, StepDown
  <2>4. CountersTyped'
    BY <1>1, <1>2, JudgeRange DEF StillGo
  <2>5. rshash_state' \in RshashStates /\ PointsInRange'
    BY <1>1, <1>2 DEF StillGo, RshashStates, PointsInRange, Probing
  <2>6. QED
    BY <2>3, <2>4, <2>5
<1>3. ASSUME StillObscure(m)
      PROVE  AdjustTyped'
  <2>1. /\ hash_strength' \in Strengths
        /\ hash_strength_delta' \in 0 .. HASH_STRENGTH_DELTA_MAX
    BY <1>1, <1>3, DecStrengthRange, IncDeltaRange DEF StillObscure, StepDown
  <2>2. CountersTyped'
    BY <1>1, <1>3, JudgeRange DEF StillObscure
  <2>3. rshash_state' \in RshashStates
    BY <1>1, <1>3 DEF StillObscure, RshashStates, States
  <2>4. PointsInRange'
    BY <1>1, <1>3 DEF StillObscure, RshashStates, PointsInRange
  <2>5. QED
    BY <2>1, <2>2, <2>3, <2>4
<1>4. ASSUME StillStay(m)
      PROVE  AdjustTyped'
  <2>1. CountersTyped'
    BY <1>1, <1>4, JudgeRange DEF StillStay
  <2>2. QED
    BY <1>1, <1>4, <2>1 DEF StillStay, TypeInv, PointsInRange
<1>5. ASSUME TryDownMore(m)
      PROVE  AdjustTyped'
  <2>1. /\ hash_strength' \in Strengths
        /\ hash_strength_delta' \in 0 .. HASH_STRENGTH_DELTA_MAX
    BY <1>1, <1>5, DecStrengthRange, IncDeltaRange DEF TryDownMore, StepDown
  <2>2. CountersTyped'
    BY <1>1, <1>5, PhaseRange DEF TryDownMore
  <2>3. rshash_state' \in RshashStates /\ PointsInRange'
    BY <1>1, <1>5, ProbedRange, ProbedPoints DEF TryDownMore, PointsInRange, Probing
  <2>4. QED
    BY <2>1, <2>2, <2>3
<1>6. ASSUME TryDownEnds(m)
      PROVE  AdjustTyped'
  <2>1. rshash_state.stable_point \in Strengths
    BY <1>6 DEF TypeInv, PointsInRange, TryDownEnds, Probing
  <2>2. /\ hash_strength' \in Strengths
        /\ hash_strength_delta' \in 0 .. HASH_STRENGTH_DELTA_MAX
    BY <1>1, <1>6, <2>1, IncStrengthRange DEF TryDownEnds
  <2>3. CountersTyped'
    BY <1>1, <1>6, PhaseRange DEF TryDownEnds
  <2>4. ProbedDown(m) \in RshashStates
    BY <1>1, ProbedRange
  <2>5. rshash_state' \in RshashStates
    BY <1>1, <1>6, <2>4 DEF TryDownEnds, RshashStates, States
  <2>6. PointsInRange'
    <3>1. rshash_state.state \in Probing
      BY <1>6 DEF TryDownEnds, Probing
    <3>2. /\ rshash_state'.stable_point = ProbedDown(m).stable_point
          /\ rshash_state'.turn_point_down = ProbedDown(m).turn_point_down
          /\ rshash_state'.turn_point_up = ProbedDown(m).turn_point_up
      BY <1>6, <2>4 DEF TryDownEnds, RshashStates
    <3>3. QED
      BY <3>1, <3>2, ProbedPoints DEF PointsInRange
  <2>7. QED
    BY <2>2, <2>3, <2>5, <2>6
<1>7. ASSUME TryUpMore(m)
      PROVE  AdjustTyped'
  <2>1. /\ hash_strength' \in Strengths
        /\ hash_strength_delta' \in 0 .. HASH_STRENGTH_DELTA_MAX
    BY <1>1, <1>7, IncStrengthRange, IncDeltaRange DEF TryUpMore, StepUp
  <2>2. CountersTyped'
    BY <1>1, <1>7, PhaseRange DEF TryUpMore
  <2>3. rshash_state' \in RshashStates /\ PointsInRange'
    BY <1>1, <1>7, ProbedRange, ProbedPoints DEF TryUpMore, PointsInRange, Probing
  <2>4. QED
    BY <2>1, <2>2, <2>3
<1>8. ASSUME TryUpEnds(m)
      PROVE  AdjustTyped'
  <2>1. hash_strength' \in Strengths
    BY <1>8, ProbedPoints DEF TryUpEnds, Probing
  <2>2. CountersTyped'
    BY <1>1, <1>8, PhaseRange DEF TryUpEnds
  <2>3. ProbedUp(m) \in RshashStates
    BY <1>1, ProbedRange
  <2>4. rshash_state' \in RshashStates /\ PointsInRange'
    BY <1>8, <2>3 DEF TryUpEnds, RshashStates, States, PointsInRange, Probing
  <2>5. QED
    BY <1>1, <1>8, <2>1, <2>2, <2>4 DEF TryUpEnds
<1>9. ASSUME Settle(m)
      PROVE  AdjustTyped'
  <2>1. rshash_state' \in RshashStates /\ PointsInRange'
    BY <1>1, <1>9 DEF Settle, RshashStates, States, PointsInRange, Probing
  <2>2. QED
    BY <1>1, <1>9, <2>1 DEF Settle, TypeOK, CountersTyped
<1>10. QED
  BY <1>2, <1>3, <1>4, <1>5, <1>6, <1>7, <1>8, <1>9 DEF Adjust

LEMMA TypeInvNext ==
  ASSUME TypeInv, [Next]_vars
  PROVE  TypeInv'
<1>1. CASE UNCHANGED vars
  BY <1>1 DEF vars, TypeInv, TypeOK, PointsInRange
<1>2. ASSUME CountRound
      PROVE  fully_scanned_round' \in 0 .. EXPLORE_PERIOD - 1
  BY <1>2, RoundAssumption DEF CountRound, TypeInv, TypeOK
<1>3. CASE EmptyRound
  BY <1>2, <1>3 DEF EmptyRound, TypeInv, TypeOK, PointsInRange
<1>4. CASE ScanRound
  <2>1. PICK m \in Measurements : Adjust(m) /\ CountRound
    BY <1>4 DEF ScanRound, Round
  <2>2. AdjustTyped'
    BY <2>1, AdjustKeepsTypes
  <2>3. QED
    BY <1>2, <2>1, <2>2 DEF AdjustTyped, CountersTyped, TypeInv, TypeOK
<1>5. QED
  BY <1>1, <1>3, <1>4 DEF Next

(* Type correctness: in particular the strength never leaves its range and  *)
(* the exponent never passes DELTA_MAX, whatever the rounds measure.        *)
THEOREM TypeCorrect == Spec => []TypeOK
<1>1. TypeInv => TypeOK
  BY DEF TypeInv
<1>2. QED
  BY TypeInvInit, TypeInvNext, <1>1, PTL DEF Spec

-----------------------------------------------------------------------------
(* How far a phase has come: after k rounds of the downward phase the step  *)
(* is 2^(k+1) or the largest, so from round DELTA_MAX on every round takes  *)
(* MaxStep off the strength; upwards it is 2^k and MaxStep is added.        *)
Covered(k) == MaxStep * (k - HASH_STRENGTH_DELTA_MAX)

PhaseProgress ==
  LET k == rshash_state.lookup_window_index
  IN /\ rshash_state.state = "TRYDOWN" =>
          /\ hash_strength_delta = HASH_STRENGTH_DELTA_MAX \/ hash_strength_delta > k
          /\ hash_strength = 1 \/ hash_strength + Covered(k) <= HASH_STRENGTH_MAX
     /\ rshash_state.state = "TRYUP" =>
          /\ hash_strength_delta = HASH_STRENGTH_DELTA_MAX \/ hash_strength_delta >= k
          /\ hash_strength = HASH_STRENGTH_MAX \/ hash_strength >= Covered(k)

SearchInv ==
  /\ TypeInv
  /\ SearchStaysInRange
  /\ PhaseProgress
  /\ SearchIsBounded
  /\ BelowCountIsCurrent

(* A phase that has not yet crossed the range is short of the bound. *)
LEMMA WithinBound ==
  ASSUME NEW k \in Nat,
         Covered(k) <= HASH_STRENGTH_MAX
  PROVE  k + 1 < SearchBound
<1> DEFINE q == HASH_STRENGTH_MAX \div MaxStep
           x == k - HASH_STRENGTH_DELTA_MAX
<1>1. /\ MaxStep \in Nat /\ MaxStep >= 1
      /\ HASH_STRENGTH_DELTA_MAX \in Nat /\ HASH_STRENGTH_MAX \in Nat
  BY ShiftAssumption, StrengthAssumption, StrengthFacts
<1>2. q \in Nat /\ HASH_STRENGTH_MAX < MaxStep * (q + 1)
  BY <1>1
<1>3. x \in Int /\ MaxStep * x <= HASH_STRENGTH_MAX
  BY <1>1 DEF Covered
<1>4. x <= q
  <2>1. SUFFICES ASSUME x >= q + 1 PROVE FALSE
    BY <1>2, <1>3
  <2>2. MaxStep * x >= MaxStep * (q + 1)
    BY <1>1, <1>2, <1>3, <2>1
  <2>3. QED
    BY <1>1, <1>2, <1>3, <2>2
<1>5. QED
  BY <1>1, <1>2, <1>4 DEF SearchBound

LEMMA BoundFitsU8 ==
  /\ SearchBound \in Nat /\ 0 < SearchBound
  /\ SearchBound < U8_MAX /\ U8_MAX \in Nat /\ U8_MAX >= 3
<1>1. HASH_STRENGTH_MAX \div MaxStep \in Nat
  BY ShiftAssumption, StrengthAssumption, StrengthFacts
<1>2. QED
  BY <1>1, WindowAssumption, StrengthAssumption DEF SearchBound

LEMMA CoveredFacts ==
  ASSUME NEW k \in Nat
  PROVE  /\ Covered(k) \in Int
         /\ Covered(k + 1) = Covered(k) + MaxStep
         /\ k <= HASH_STRENGTH_DELTA_MAX => Covered(k) <= 0
<1> DEFINE x == k - HASH_STRENGTH_DELTA_MAX
<1>1. MaxStep \in Nat /\ HASH_STRENGTH_DELTA_MAX \in Nat /\ x \in Int
  BY ShiftAssumption, StrengthAssumption
<1>2. (k + 1) - HASH_STRENGTH_DELTA_MAX = x + 1
  BY <1>1
<1>3. MaxStep * (x + 1) = MaxStep * x + MaxStep
  BY <1>1
<1>4. x <= 0 => MaxStep * x <= 0
  BY <1>1
<1>5. QED
  BY <1>1, <1>2, <1>3, <1>4 DEF Covered

(* What the bookkeeping that opens a probing round does to the counters     *)
(* and the turning points.                                                  *)
LEMMA ProbedFacts ==
  ASSUME SearchInv, NEW m \in Measurements,
         NEW p \in {ProbedDown(m), ProbedUp(m)}, rshash_state.state \in Probing
  PROVE  /\ p.lookup_window_index = rshash_state.lookup_window_index + 1
         /\ p.lookup_window_index # 0
         /\ p.below_count <= 1 + (rshash_state.lookup_window_index % 5)
         /\ p.state = rshash_state.state
         /\ p.stable_point = rshash_state.stable_point
<1>1. /\ rshash_state \in RshashStates
      /\ m.benefit \in Nat
      /\ rshash_state.lookup_window_index \in Nat
      /\ rshash_state.lookup_window_index < SearchBound
  BY MeasurementsAssumption DEF SearchInv, TypeInv, TypeOK, SearchIsBounded, RshashStates
<1>2. NextWindow = rshash_state.lookup_window_index + 1
  BY <1>1, BoundFitsU8 DEF NextWindow
<1>3. ASSUME NEW floor
      PROVE  BelowCount(m, floor) <= 1 + (rshash_state.lookup_window_index % 5)
  <2> DEFINE k == rshash_state.lookup_window_index
             b == IF k % 5 = 0 THEN 0 ELSE rshash_state.below_count
  <2>1. b \in Nat /\ b <= k % 5 /\ b <= 2
    <3>1. CASE k % 5 = 0
      BY <1>1, <3>1
    <3>2. CASE k % 5 # 0
      <4>1. k # 0
        BY <3>2
      <4>2. rshash_state.below_count <= 2 /\ rshash_state.below_count <= 1 + ((k - 1) % 5)
        BY <4>1 DEF SearchInv, BelowCountIsCurrent
      <4>3. 1 + ((k - 1) % 5) = k % 5
        BY <1>1, <3>2
      <4>4. rshash_state.below_count \in Nat
        BY <1>1, BoundFitsU8 DEF RshashStates
      <4>5. QED
        BY <3>2, <4>2, <4>3, <4>4
    <3>3. QED
      BY <3>1, <3>2
  <2>2. (b + 1) % (U8_MAX + 1) = b + 1
    BY <2>1, BoundFitsU8
  <2>3. BelowCount(m, floor) \in {b, b + 1}
    BY <2>2 DEF BelowCount
  <2>4. QED
    BY <1>1, <2>1, <2>3
<1>4. CASE p = ProbedDown(m)
  BY <1>1, <1>2, <1>3, <1>4 DEF ProbedDown, RshashStates
<1>5. CASE p = ProbedUp(m)
  BY <1>1, <1>2, <1>3, <1>5 DEF ProbedUp, RshashStates
<1>6. QED
  BY <1>4, <1>5

(* The parts of SearchInv that a round must preserve, besides the types. *)
SearchParts ==
  /\ SearchStaysInRange
  /\ PhaseProgress
  /\ SearchIsBounded
  /\ BelowCountIsCurrent

LEMMA SearchInvInit == Init => SearchInv
BY TypeInvInit
DEF Init, SearchInv, SearchStaysInRange, PhaseProgress, SearchIsBounded,
    BelowCountIsCurrent, Probing

(* A round that ends outside a search leaves nothing to preserve.          *)
LEMMA OutsideSearch ==
  rshash_state'.state \in {"NEW", "STILL"} => SearchParts'
BY DEF SearchParts, SearchStaysInRange, PhaseProgress, SearchIsBounded,
       BelowCountIsCurrent, Probing

LEMMA SearchBegins ==
  ASSUME SearchInv, NEW m \in Measurements, StillObscure(m)
  PROVE  SearchParts'
<1>1. /\ hash_strength \in Strengths
      /\ hash_strength_delta \in 0 .. HASH_STRENGTH_DELTA_MAX
      /\ rshash_state \in RshashStates
  BY DEF SearchInv, TypeInv, TypeOK
<1>2. /\ hash_strength' \in Strengths
      /\ hash_strength' < hash_strength \/ hash_strength' = 1
      /\ hash_strength_delta' > 0
  BY <1>1, DecStrengthRange, IncDeltaRange, StrengthAssumption DEF StillObscure, StepDown
<1>3. /\ rshash_state'.state = "TRYDOWN"
      /\ rshash_state'.lookup_window_index = 0
      /\ rshash_state'.stable_point = hash_strength
      /\ rshash_state'.turn_point_down = hash_strength
      /\ rshash_state'.turn_point_up = hash_strength
  BY <1>1 DEF StillObscure, RshashStates
<1>4. SearchStaysInRange'
  BY <1>1, <1>2, <1>3, StrengthFacts DEF SearchStaysInRange, Probing
<1>5. PhaseProgress'
  <2>1. Covered(0) \in Int /\ Covered(0) <= 0
    BY CoveredFacts, StrengthAssumption
  <2>2. hash_strength' + Covered(0) <= HASH_STRENGTH_MAX
    BY <1>2, <2>1, StrengthFacts
  <2>3. QED
    BY <1>2, <1>3, <2>2 DEF PhaseProgress
<1>6. SearchIsBounded' /\ BelowCountIsCurrent'
  BY <1>3, BoundFitsU8 DEF SearchIsBounded, BelowCountIsCurrent
<1>7. QED
  BY <1>4, <1>5, <1>6 DEF SearchParts

LEMMA SearchGoesDown ==
  ASSUME SearchInv, NEW m \in Measurements, TryDownMore(m)
  PROVE  SearchParts'
<1> DEFINE r == rshash_state
           k == rshash_state.lookup_window_index
<1>1. /\ hash_strength \in Strengths
      /\ hash_strength_delta \in 0 .. HASH_STRENGTH_DELTA_MAX
      /\ r \in RshashStates
      /\ k \in Nat /\ k < SearchBound
      /\ r.state = "TRYDOWN" /\ r.state \in Probing
  BY DEF SearchInv, TypeInv, TypeOK, SearchIsBounded, TryDownMore, Probing, RshashStates
<1>2. /\ hash_strength # 1
      /\ ProbedDown(m).below_count < 3
      /\ hash_strength' = DecStrength(hash_strength, hash_strength_delta)
      /\ hash_strength_delta' = IncDelta(hash_strength_delta)
      /\ rshash_state' = ProbedDown(m)
  BY DEF TryDownMore, PhaseGoesOn, StepDown
<1>3. /\ rshash_state'.lookup_window_index = k + 1
      /\ rshash_state'.below_count <= 1 + (k % 5)
      /\ rshash_state'.state = "TRYDOWN"
      /\ rshash_state'.stable_point = r.stable_point
  BY <1>1, <1>2, ProbedFacts
<1>4. /\ hash_strength' \in Strengths
      /\ hash_strength' < hash_strength \/ hash_strength' = 1
  BY <1>1, <1>2, DecStrengthRange
<1>5. /\ rshash_state'.turn_point_up = r.turn_point_up
      /\ rshash_state'.turn_point_down \in {r.turn_point_down, hash_strength}
  BY <1>1, <1>2 DEF ProbedDown, RshashStates
<1>6. SearchStaysInRange'
  <2>1. /\ r.turn_point_down \in 1 .. r.stable_point
        /\ r.turn_point_up = r.stable_point
        /\ r.stable_point \in Strengths
        /\ hash_strength < r.stable_point
        /\ hash_strength < r.turn_point_down
    BY <1>1, <1>2, StrengthFacts
    DEF SearchInv, TypeInv, PointsInRange, SearchStaysInRange
  <2>2. QED
    BY <1>1, <1>3, <1>4, <1>5, <2>1, StrengthFacts DEF SearchStaysInRange, Probing
<1>7. PhaseProgress' /\ SearchIsBounded'
  <2>1. /\ HASH_STRENGTH_DELTA_MAX \in Nat \ {0}
        /\ HASH_STRENGTH_MAX \in Nat /\ hash_strength \in 1 .. HASH_STRENGTH_MAX
    BY <1>1, StrengthAssumption, StrengthFacts
  <2>2. /\ hash_strength_delta = HASH_STRENGTH_DELTA_MAX \/ hash_strength_delta > k
        /\ hash_strength + Covered(k) <= HASH_STRENGTH_MAX
    BY <1>1, <1>2 DEF SearchInv, PhaseProgress
  <2>3. hash_strength_delta' = HASH_STRENGTH_DELTA_MAX \/ hash_strength_delta' > k + 1
    BY <1>1, <1>2, <2>1, <2>2, IncDeltaRange
  <2>4. /\ Covered(k) \in Int /\ MaxStep \in Nat
        /\ Covered(k + 1) = Covered(k) + MaxStep
    BY <1>1, CoveredFacts, ShiftAssumption
  <2>5. hash_strength' \in 1 .. HASH_STRENGTH_MAX
    BY <1>4, StrengthFacts
  <2>6. hash_strength' = 1 \/ hash_strength' + Covered(k + 1) <= HASH_STRENGTH_MAX
    <3>1. CASE hash_strength_delta = HASH_STRENGTH_DELTA_MAX
      <4>1. hash_strength' = 1 \/ hash_strength' = hash_strength - MaxStep
        BY <1>2, <3>1 DEF DecStrength, MaxStep
      <4>2. QED
        BY <2>1, <2>2, <2>4, <4>1
    <3>2. CASE k + 1 <= HASH_STRENGTH_DELTA_MAX
      <4>1. Covered(k + 1) \in Int /\ Covered(k + 1) <= 0
        BY <1>1, <3>2, CoveredFacts
      <4>2. QED
        BY <2>1, <2>5, <4>1
    <3>3. QED
      BY <1>1, <2>1, <2>2, <3>1, <3>2
  <2>7. PhaseProgress'
    BY <1>3, <2>3, <2>6 DEF PhaseProgress
  <2>8. k + 1 < SearchBound
    <3>1. Covered(k) <= HASH_STRENGTH_MAX
      BY <2>1, <2>2, <2>4
    <3>2. QED
      BY <1>1, <3>1, WithinBound
  <2>9. QED
    BY <1>3, <2>7, <2>8 DEF SearchIsBounded
<1>8. BelowCountIsCurrent'
  <2>1. rshash_state'.below_count \in Nat
    BY <1>1, <1>2, ProbedRange, BoundFitsU8 DEF SearchInv, TypeInv, RshashStates
  <2>2. QED
    BY <1>1, <1>2, <1>3, <2>1 DEF BelowCountIsCurrent
<1>9. QED
  BY <1>6, <1>7, <1>8 DEF SearchParts

LEMMA SearchTurnsUp ==
  ASSUME SearchInv, NEW m \in Measurements, TryDownEnds(m)
  PROVE  SearchParts'
<1> DEFINE r == rshash_state
<1>1. /\ hash_strength \in Strengths
      /\ r \in RshashStates
      /\ r.state = "TRYDOWN" /\ r.state \in Probing
      /\ r.stable_point \in Strengths
      /\ 0 \in 0 .. HASH_STRENGTH_DELTA_MAX
  BY StrengthAssumption
  DEF SearchInv, TypeInv, TypeOK, PointsInRange, TryDownEnds, Probing
<1>2. /\ ProbedDown(m) \in RshashStates
      /\ ProbedDown(m).stable_point = r.stable_point
  BY <1>1, ProbedRange, ProbedFacts DEF SearchInv, TypeInv
<1>3. /\ rshash_state'.state = "TRYUP"
      /\ rshash_state'.lookup_window_index = 0
      /\ rshash_state'.stable_point = r.stable_point
      /\ rshash_state'.turn_point_up = ProbedDown(m).turn_point_up
      /\ rshash_state'.turn_point_down = ProbedDown(m).turn_point_down
  BY <1>2 DEF TryDownEnds, RshashStates
<1>4. /\ ProbedDown(m).turn_point_up = r.turn_point_up
      /\ ProbedDown(m).turn_point_down \in {r.turn_point_down, hash_strength}
  BY <1>1 DEF ProbedDown, RshashStates
<1>5. /\ hash_strength' = IncStrength(r.stable_point, 0)
      /\ hash_strength_delta' = 0
  BY DEF TryDownEnds
<1>6. /\ hash_strength' \in Strengths
      /\ hash_strength' > r.stable_point \/ hash_strength' = HASH_STRENGTH_MAX
  BY <1>1, <1>5, IncStrengthRange
<1>7. SearchStaysInRange'
  <2>1. /\ r.turn_point_down \in 1 .. r.stable_point
        /\ r.turn_point_up = r.stable_point
        /\ hash_strength < r.stable_point \/ hash_strength = 1
    BY <1>1 DEF SearchInv, SearchStaysInRange
  <2>2. QED
    BY <1>1, <1>3, <1>4, <1>6, <2>1, StrengthFacts DEF SearchStaysInRange, Probing
<1>8. PhaseProgress'
  <2>1. Covered(0) \in Int /\ Covered(0) <= 0
    BY CoveredFacts, StrengthAssumption
  <2>2. hash_strength' >= Covered(0)
    BY <1>6, <2>1, StrengthFacts
  <2>3. QED
    BY <1>3, <1>5, <2>2 DEF PhaseProgress
<1>9. SearchIsBounded' /\ BelowCountIsCurrent'
  BY <1>3, BoundFitsU8 DEF SearchIsBounded, BelowCountIsCurrent
<1>10. QED
  BY <1>7, <1>8, <1>9 DEF SearchParts

LEMMA SearchGoesUp ==
  ASSUME SearchInv, NEW m \in Measurements, TryUpMore(m)
  PROVE  SearchParts'
<1> DEFINE r == rshash_state
           k == rshash_state.lookup_window_index
<1>1. /\ hash_strength \in Strengths
      /\ hash_strength_delta \in 0 .. HASH_STRENGTH_DELTA_MAX
      /\ r \in RshashStates
      /\ k \in Nat /\ k < SearchBound
      /\ r.state = "TRYUP" /\ r.state \in Probing
  BY DEF SearchInv, TypeInv, TypeOK, SearchIsBounded, TryUpMore, Probing, RshashStates
<1>2. /\ hash_strength # HASH_STRENGTH_MAX
      /\ ProbedUp(m).below_count < 3
      /\ hash_strength' = IncStrength(hash_strength, hash_strength_delta)
      /\ hash_strength_delta' = IncDelta(hash_strength_delta)
      /\ rshash_state' = ProbedUp(m)
  BY DEF TryUpMore, PhaseGoesOn, StepUp
<1>3. /\ rshash_state'.lookup_window_index = k + 1
      /\ rshash_state'.below_count <= 1 + (k % 5)
      /\ rshash_state'.state = "TRYUP"
      /\ rshash_state'.stable_point = r.stable_point
  BY <1>1, <1>2, ProbedFacts
<1>4. /\ hash_strength' \in Strengths
      /\ hash_strength' > hash_strength \/ hash_strength' = HASH_STRENGTH_MAX
  BY <1>1, <1>2, IncStrengthRange
<1>5. /\ rshash_state'.turn_point_down = r.turn_point_down
      /\ rshash_state'.turn_point_up \in {r.turn_point_up, hash_strength}
  BY <1>1, <1>2 DEF ProbedUp, RshashStates
<1>6. SearchStaysInRange'
  <2>1. /\ r.turn_point_down \in 1 .. r.stable_point
        /\ r.turn_point_up \in r.stable_point .. HASH_STRENGTH_MAX
        /\ r.stable_point \in Strengths
        /\ hash_strength > r.stable_point
        /\ hash_strength > r.turn_point_up
    BY <1>1, <1>2, StrengthFacts
    DEF SearchInv, TypeInv, PointsInRange, SearchStaysInRange
  <2>2. QED
    BY <1>1, <1>3, <1>4, <1>5, <2>1, StrengthFacts DEF SearchStaysInRange, Probing
<1>7. PhaseProgress' /\ SearchIsBounded'
  <2>1. /\ HASH_STRENGTH_DELTA_MAX \in Nat \ {0}
        /\ HASH_STRENGTH_MAX \in Nat /\ hash_strength \in 1 .. HASH_STRENGTH_MAX
    BY <1>1, StrengthAssumption, StrengthFacts
  <2>2. /\ hash_strength_delta = HASH_STRENGTH_DELTA_MAX \/ hash_strength_delta >= k
        /\ hash_strength >= Covered(k)
    BY <1>1, <1>2 DEF SearchInv, PhaseProgress
  <2>3. hash_strength_delta' = HASH_STRENGTH_DELTA_MAX \/ hash_strength_delta' >= k + 1
    BY <1>1, <1>2, <2>1, <2>2, IncDeltaRange
  <2>4. /\ Covered(k) \in Int /\ MaxStep \in Nat
        /\ Covered(k + 1) = Covered(k) + MaxStep
    BY <1>1, CoveredFacts, ShiftAssumption
  <2>5. hash_strength' \in 1 .. HASH_STRENGTH_MAX
    BY <1>4, StrengthFacts
  <2>6. hash_strength' = HASH_STRENGTH_MAX \/ hash_strength' >= Covered(k + 1)
    <3>1. CASE hash_strength_delta = HASH_STRENGTH_DELTA_MAX
      <4>1. hash_strength' = HASH_STRENGTH_MAX \/ hash_strength' = hash_strength + MaxStep
        BY <1>2, <3>1 DEF IncStrength, MaxStep
      <4>2. QED
        BY <2>1, <2>2, <2>4, <4>1
    <3>2. CASE k + 1 <= HASH_STRENGTH_DELTA_MAX
      <4>1. Covered(k + 1) \in Int /\ Covered(k + 1) <= 0
        BY <1>1, <3>2, CoveredFacts
      <4>2. QED
        BY <2>1, <2>5, <4>1
    <3>3. QED
      BY <1>1, <2>1, <2>2, <3>1, <3>2
  <2>7. PhaseProgress'
    BY <1>3, <2>3, <2>6 DEF PhaseProgress
  <2>8. k + 1 < SearchBound
    <3>1. Covered(k) <= HASH_STRENGTH_MAX
      BY <2>1, <2>2, <2>4
    <3>2. QED
      BY <1>1, <3>1, WithinBound
  <2>9. QED
    BY <1>3, <2>7, <2>8 DEF SearchIsBounded
<1>8. BelowCountIsCurrent'
  <2>1. rshash_state'.below_count \in Nat
    BY <1>1, <1>2, ProbedRange, BoundFitsU8 DEF SearchInv, TypeInv, RshashStates
  <2>2. QED
    BY <1>1, <1>2, <1>3, <2>1 DEF BelowCountIsCurrent
<1>9. QED
  BY <1>6, <1>7, <1>8 DEF SearchParts

LEMMA SearchFinishes ==
  ASSUME SearchInv, NEW m \in Measurements, TryUpEnds(m)
  PROVE  SearchParts'
<1> DEFINE r == rshash_state
<1>1. /\ hash_strength \in Strengths
      /\ r \in RshashStates
      /\ r.state = "TRYUP" /\ r.state \in Probing
      /\ r.stable_point \in Strengths
  BY DEF SearchInv, TypeInv, TypeOK, PointsInRange, TryUpEnds, Probing
<1>2. /\ ProbedUp(m) \in RshashStates
      /\ ProbedUp(m).stable_point = r.stable_point
  BY <1>1, ProbedRange, ProbedFacts DEF SearchInv, TypeInv
<1>3. /\ rshash_state'.state = "PRE_STILL"
      /\ rshash_state'.stable_point = r.stable_point
      /\ rshash_state'.turn_point_up = ProbedUp(m).turn_point_up
      /\ rshash_state'.turn_point_down = ProbedUp(m).turn_point_down
  BY <1>2 DEF TryUpEnds, RshashStates
<1>4. /\ ProbedUp(m).turn_point_down = r.turn_point_down
      /\ ProbedUp(m).turn_point_up \in {r.turn_point_up, hash_strength}
  BY <1>1 DEF ProbedUp, RshashStates
<1>5. hash_strength' \in {ProbedUp(m).turn_point_down, ProbedUp(m).turn_point_up}
  BY DEF TryUpEnds
<1>6. SearchStaysInRange'
  <2>1. /\ r.turn_point_down \in 1 .. r.stable_point
        /\ r.turn_point_up \in r.stable_point .. HASH_STRENGTH_MAX
        /\ hash_strength > r.stable_point \/ hash_strength = HASH_STRENGTH_MAX
    BY <1>1 DEF SearchInv, SearchStaysInRange
  <2>2. QED
    BY <1>1, <1>3, <1>4, <1>5, <2>1, StrengthFacts DEF SearchStaysInRange, Probing
<1>7. PhaseProgress' /\ SearchIsBounded' /\ BelowCountIsCurrent'
  BY <1>3 DEF PhaseProgress, SearchIsBounded, BelowCountIsCurrent, Probing
<1>8. QED
  BY <1>6, <1>7 DEF SearchParts

LEMMA SearchInvNext ==
  ASSUME SearchInv, [Next]_vars
  PROVE  SearchInv'
<1>1. TypeInv'
  BY TypeInvNext DEF SearchInv
<1>2. rshash_state \in RshashStates
  BY DEF SearchInv, TypeInv, TypeOK
<1>3. CASE UNCHANGED vars \/ EmptyRound
  BY <1>1, <1>3
  DEF vars, EmptyRound, SearchInv, SearchStaysInRange, PhaseProgress,
      SearchIsBounded, BelowCountIsCurrent
<1>4. CASE ScanRound
  <2>1. PICK m \in Measurements : Adjust(m)
    BY <1>4 DEF ScanRound, Round
  <2>2. SearchParts'
    <3>1. ASSUME NEW dir \in {"GO_UP", "GO_DOWN"}, StillGo(m, dir)
          PROVE  SearchParts'
      <4>1. rshash_state'.state \in {"NEW", "STILL"}
        BY <1>2, <3>1 DEF StillGo, RshashStates
      <4>2. QED
        BY <4>1, OutsideSearch
    <3>2. ASSUME StillStay(m) \/ Settle(m)
          PROVE  SearchParts'
      <4>1. rshash_state'.state \in {"NEW", "STILL"}
        BY <1>2, <3>2 DEF StillStay, Settle, RshashStates
      <4>2. QED
        BY <4>1, OutsideSearch
    <3>3. QED
      BY <2>1, <3>1, <3>2, SearchBegins, SearchGoesDown, SearchTurnsUp, SearchGoesUp,
         SearchFinishes DEF Adjust
  <2>3. QED
    BY <1>1, <2>2 DEF SearchInv, SearchParts
<1>5. QED
  BY <1>3, <1>4 DEF Next

(* A search stays in the range it explores, whatever the rounds measure.    *)
THEOREM SearchRange == Spec => []SearchStaysInRange
<1>1. SearchInv => SearchStaysInRange
  BY DEF SearchInv
<1>2. QED
  BY SearchInvInit, SearchInvNext, <1>1, PTL DEF Spec

(* A phase of a search lasts fewer than SearchBound rounds, so its u8 round *)
(* counter does not wrap in any configuration that meets WindowAssumption.  *)
THEOREM SearchBounded == Spec => []SearchIsBounded
<1>1. SearchInv => SearchIsBounded
  BY DEF SearchInv
<1>2. QED
  BY SearchInvInit, SearchInvNext, <1>1, PTL DEF Spec

(* The count that can cut a phase short is the current phase's own.         *)
THEOREM BelowCountCurrent == Spec => []BelowCountIsCurrent
<1>1. SearchInv => BelowCountIsCurrent
  BY DEF SearchInv
<1>2. QED
  BY SearchInvInit, SearchInvNext, <1>1, PTL DEF Spec

-----------------------------------------------------------------------------
(* The step property of TurningPointsImprove. *)
PointsImprove ==
  LET r == rshash_state
  IN r.state \in Probing =>
       /\ rshash_state'.turn_benefit_down >= r.turn_benefit_down
       /\ rshash_state'.turn_benefit_up >= r.turn_benefit_up
       /\ rshash_state'.turn_point_down # r.turn_point_down =>
            /\ r.state = "TRYDOWN"
            /\ rshash_state'.turn_benefit_down > r.turn_benefit_down
       /\ rshash_state'.turn_point_up # r.turn_point_up =>
            /\ r.state = "TRYUP"
            /\ rshash_state'.turn_benefit_up > r.turn_benefit_up

LEMMA ProbesImprove ==
  ASSUME TypeOK, NEW m \in Measurements
  PROVE  LET r == rshash_state
         IN /\ ProbedDown(m).turn_point_up = r.turn_point_up
            /\ ProbedDown(m).turn_benefit_up = r.turn_benefit_up
            /\ \/ /\ ProbedDown(m).turn_point_down = r.turn_point_down
                  /\ ProbedDown(m).turn_benefit_down = r.turn_benefit_down
               \/ ProbedDown(m).turn_benefit_down > r.turn_benefit_down
            /\ ProbedUp(m).turn_point_down = r.turn_point_down
            /\ ProbedUp(m).turn_benefit_down = r.turn_benefit_down
            /\ \/ /\ ProbedUp(m).turn_point_up = r.turn_point_up
                  /\ ProbedUp(m).turn_benefit_up = r.turn_benefit_up
               \/ ProbedUp(m).turn_benefit_up > r.turn_benefit_up
<1>1. rshash_state \in RshashStates /\ m.benefit \in Nat
  BY MeasurementsAssumption DEF TypeOK
<1>2. QED
  BY <1>1 DEF ProbedDown, ProbedUp, RshashStates

LEMMA StepImproves ==
  ASSUME TypeOK, [Next]_vars
  PROVE  PointsImprove
<1>1. /\ rshash_state \in RshashStates
      /\ rshash_state.turn_benefit_down \in Nat
      /\ rshash_state.turn_benefit_up \in Nat
  BY DEF TypeOK, RshashStates
<1>2. CASE UNCHANGED rshash_state
  BY <1>1, <1>2 DEF PointsImprove
<1>3. CASE ScanRound
  <2>1. PICK m \in Measurements : Adjust(m)
    BY <1>3 DEF ScanRound, Round
  <2>2. /\ ProbedDown(m) \in RshashStates
        /\ ProbedUp(m) \in RshashStates
    BY ProbedRange
  <2>3. CASE TryDownMore(m) \/ TryDownEnds(m)
    <3>1. /\ rshash_state.state = "TRYDOWN"
          /\ rshash_state'.turn_point_down = ProbedDown(m).turn_point_down
          /\ rshash_state'.turn_benefit_down = ProbedDown(m).turn_benefit_down
          /\ rshash_state'.turn_point_up = ProbedDown(m).turn_point_up
          /\ rshash_state'.turn_benefit_up = ProbedDown(m).turn_benefit_up
      BY <2>2, <2>3 DEF TryDownMore, TryDownEnds, RshashStates
    <3>2. ProbedDown(m).turn_benefit_down \in Nat
      BY <2>2 DEF RshashStates
    <3>3. QED
      BY <1>1, <3>1, <3>2, ProbesImprove DEF PointsImprove
  <2>4. CASE TryUpMore(m) \/ TryUpEnds(m)
    <3>1. /\ rshash_state.state = "TRYUP"
          /\ rshash_state'.turn_point_down = ProbedUp(m).turn_point_down
          /\ rshash_state'.turn_benefit_down = ProbedUp(m).turn_benefit_down
          /\ rshash_state'.turn_point_up = ProbedUp(m).turn_point_up
          /\ rshash_state'.turn_benefit_up = ProbedUp(m).turn_benefit_up
      BY <2>2, <2>4 DEF TryUpMore, TryUpEnds, RshashStates
    <3>2. ProbedUp(m).turn_benefit_up \in Nat
      BY <2>2 DEF RshashStates
    <3>3. QED
      BY <1>1, <3>1, <3>2, ProbesImprove DEF PointsImprove
  <2>5. CASE rshash_state.state \notin Probing
    BY <2>5 DEF PointsImprove
  <2>6. QED
    BY <2>1, <2>3, <2>4, <2>5
    DEF Adjust, StillGo, StillObscure, StillStay, Settle, Probing
<1>4. QED
  BY <1>2, <1>3 DEF Next, EmptyRound, vars

(* No round of a search makes a turning point worse, and a new one carries  *)
(* a strictly better benefit.                                               *)
THEOREM PointsOnlyImprove == Spec => TurningPointsImprove
<1>1. TypeOK /\ [Next]_vars => [PointsImprove]_vars
  BY StepImproves
<1>2. QED
  BY TypeCorrect, <1>1, PTL DEF Spec, TurningPointsImprove, PointsImprove

-----------------------------------------------------------------------------
(* The history of the searches. *)

Searched == Probing \cup {"PRE_STILL"}

(* What the two turning points say of the probes so far: they are among     *)
(* them, no worse than the first, and nothing that could have been chosen   *)
(* was better than both.                                                    *)
Measured(r, s, ps) ==
  /\ <<r.turn_point_down, r.turn_benefit_down>> \in ps
  /\ <<r.turn_point_up, r.turn_benefit_up>> \in ps
  /\ s <= r.turn_benefit_down /\ s <= r.turn_benefit_up
  /\ \A p \in ps :
       \/ p[2] <= r.turn_benefit_down
       \/ p[2] <= r.turn_benefit_up
       \/ p[1] <= r.stable_point /\ p[2] < r.stable_benefit

(* The benefit that goes with the strength a search has settled on. *)
Chosen(r, h) ==
  h = IF r.turn_benefit_up > r.turn_benefit_down THEN r.turn_point_up ELSE r.turn_point_down

HistoryInv ==
  /\ SearchInv
  /\ start \in Nat /\ probes \subseteq Strengths \X Nat
  /\ rshash_state.state \in Searched => Measured(rshash_state, start, probes)
  /\ Settled => Chosen(rshash_state, hash_strength)

(* The fields a search works with; none but below_count and the window is   *)
(* missing.                                                                 *)
SameSearch(r, q) ==
  /\ r.stable_point = q.stable_point /\ r.stable_benefit = q.stable_benefit
  /\ r.turn_point_down = q.turn_point_down /\ r.turn_benefit_down = q.turn_benefit_down
  /\ r.turn_point_up = q.turn_point_up /\ r.turn_benefit_up = q.turn_benefit_up

(* For its history a round is one of four: outside a search, the first of   *)
(* one, a probe downwards or upwards.                                       *)
RoundOutside ==
  rshash_state.state \notin Probing /\ rshash_state'.state \notin Searched

RoundBegins(m) ==
  /\ rshash_state.state \notin Probing /\ rshash_state'.state = "TRYDOWN"
  /\ rshash_state'.stable_point = hash_strength
  /\ rshash_state'.turn_point_down = hash_strength /\ rshash_state'.turn_benefit_down = m.benefit
  /\ rshash_state'.turn_point_up = hash_strength /\ rshash_state'.turn_benefit_up = m.benefit

RoundProbesDown(m) ==
  /\ rshash_state.state = "TRYDOWN" /\ rshash_state'.state \in Probing
  /\ SameSearch(rshash_state', ProbedDown(m))

RoundProbesUp(m) ==
  /\ rshash_state.state = "TRYUP" /\ rshash_state'.state \in {"TRYUP", "PRE_STILL"}
  /\ SameSearch(rshash_state', ProbedUp(m))
  /\ rshash_state'.state = "PRE_STILL" => Chosen(rshash_state', hash_strength')

LEMMA RoundKinds ==
  ASSUME TypeOK, NEW m \in Measurements, Adjust(m)
  PROVE  RoundOutside \/ RoundBegins(m) \/ RoundProbesDown(m) \/ RoundProbesUp(m)
<1>1. rshash_state \in RshashStates /\ ProbedDown(m) \in RshashStates /\ ProbedUp(m) \in RshashStates
  BY ProbedRange DEF TypeOK
<1>2. ProbedDown(m).state = rshash_state.state /\ ProbedUp(m).state = rshash_state.state
  BY <1>1 DEF ProbedDown, ProbedUp, RshashStates
<1>3. ASSUME NEW dir \in {"GO_UP", "GO_DOWN"}, StillGo(m, dir) PROVE RoundOutside
  BY <1>1, <1>3 DEF StillGo, RoundOutside, Probing, Searched, RshashStates
<1>4. ASSUME StillStay(m) \/ Settle(m) PROVE RoundOutside
  BY <1>1, <1>4 DEF StillStay, Settle, RoundOutside, Probing, Searched, RshashStates
<1>5. ASSUME StillObscure(m) PROVE RoundBegins(m)
  BY <1>1, <1>5 DEF StillObscure, RoundBegins, Probing, RshashStates
<1>6. ASSUME TryDownMore(m) \/ TryDownEnds(m) PROVE RoundProbesDown(m)
  BY <1>1, <1>2, <1>6 DEF TryDownMore, TryDownEnds, RoundProbesDown, SameSearch, Probing, RshashStates
<1>7. ASSUME TryUpMore(m) PROVE RoundProbesUp(m)
  BY <1>1, <1>2, <1>7 DEF TryUpMore, RoundProbesUp, SameSearch, RshashStates
<1>8. ASSUME TryUpEnds(m) PROVE RoundProbesUp(m)
  BY <1>1, <1>2, <1>8 DEF TryUpEnds, RoundProbesUp, SameSearch, Chosen, RshashStates
<1>9. QED
  BY <1>3, <1>4, <1>5, <1>6, <1>7, <1>8 DEF Adjust

(* What a probe at strength h with benefit b adds keeps Measured.           *)
LEMMA MeasuredDown ==
  ASSUME SearchInv, NEW m \in Measurements, NEW s \in Nat, NEW ps \in SUBSET (Strengths \X Nat),
         rshash_state.state = "TRYDOWN", Measured(rshash_state, s, ps)
  PROVE  Measured(ProbedDown(m), s, ps \cup {<<hash_strength, m.benefit>>})
<1> DEFINE r == rshash_state
           q == ProbedDown(m)
<1>1. r \in RshashStates /\ m.benefit \in Nat /\ hash_strength \in Strengths
  BY MeasurementsAssumption DEF SearchInv, TypeInv, TypeOK
<1>2. hash_strength <= r.stable_point
  BY <1>1, StrengthFacts DEF SearchInv, TypeInv, PointsInRange, SearchStaysInRange, Probing
<1>3. /\ q.stable_point = r.stable_point /\ q.stable_benefit = r.stable_benefit
      /\ q.turn_point_up = r.turn_point_up /\ q.turn_benefit_up = r.turn_benefit_up
      /\ r.turn_benefit_down \in Nat /\ r.turn_benefit_up \in Nat /\ r.stable_benefit \in Nat
  BY <1>1 DEF ProbedDown, RshashStates
<1>4. CASE m.benefit >= r.stable_benefit /\ m.benefit > r.turn_benefit_down
  <2>1. q.turn_point_down = hash_strength /\ q.turn_benefit_down = m.benefit
    BY <1>1, <1>4 DEF ProbedDown, RshashStates
  <2>2. QED
    BY <1>1, <1>3, <1>4, <2>1 DEF Measured
<1>5. CASE ~(m.benefit >= r.stable_benefit /\ m.benefit > r.turn_benefit_down)
  <2>1. q.turn_point_down = r.turn_point_down /\ q.turn_benefit_down = r.turn_benefit_down
    BY <1>1, <1>5 DEF ProbedDown, RshashStates
  <2>2. QED
    BY <1>1, <1>2, <1>3, <1>5, <2>1 DEF Measured
<1>6. QED
  BY <1>4, <1>5

LEMMA MeasuredUp ==
  ASSUME SearchInv, NEW m \in Measurements, NEW s \in Nat, NEW ps \in SUBSET (Strengths \X Nat),
         rshash_state.state = "TRYUP", Measured(rshash_state, s, ps)
  PROVE  Measured(ProbedUp(m), s, ps \cup {<<hash_strength, m.benefit>>})
<1> DEFINE r == rshash_state
           q == ProbedUp(m)
<1>1. r \in RshashStates /\ m.benefit \in Nat /\ hash_strength \in Strengths
  BY MeasurementsAssumption DEF SearchInv, TypeInv, TypeOK
<1>2. /\ q.stable_point = r.stable_point /\ q.stable_benefit = r.stable_benefit
      /\ q.turn_point_down = r.turn_point_down /\ q.turn_benefit_down = r.turn_benefit_down
      /\ r.turn_benefit_down \in Nat /\ r.turn_benefit_up \in Nat /\ r.stable_benefit \in Nat
  BY <1>1 DEF ProbedUp, RshashStates
<1>3. CASE m.benefit >= r.turn_benefit_down /\ m.benefit > r.turn_benefit_up
  <2>1. q.turn_point_up = hash_strength /\ q.turn_benefit_up = m.benefit
    BY <1>1, <1>3 DEF ProbedUp, RshashStates
  <2>2. QED
    BY <1>1, <1>2, <1>3, <2>1 DEF Measured
<1>4. CASE ~(m.benefit >= r.turn_benefit_down /\ m.benefit > r.turn_benefit_up)
  <2>1. q.turn_point_up = r.turn_point_up /\ q.turn_benefit_up = r.turn_benefit_up
    BY <1>1, <1>4 DEF ProbedUp, RshashStates
  <2>2. QED
    BY <1>1, <1>2, <1>4, <2>1 DEF Measured
<1>5. QED
  BY <1>3, <1>4

LEMMA SameSearchMeasured ==
  ASSUME NEW r, NEW q, NEW s, NEW ps, SameSearch(r, q), Measured(q, s, ps)
  PROVE  Measured(r, s, ps)
BY DEF SameSearch, Measured

LEMMA HistoryInvInit == SearchInit => HistoryInv
BY SearchInvInit DEF SearchInit, Init, HistoryInv, Searched, Probing, Settled

LEMMA ScanKeepsHistory ==
  ASSUME HistoryInv, NEW m \in Measurements, Round(m), Record(m)
  PROVE  HistoryInv'
<1> DEFINE probe == <<hash_strength, m.benefit>>
<1>1. SearchInv'
  BY SearchInvNext DEF HistoryInv, Next, ScanRound
<1>2. /\ TypeOK /\ SearchInv /\ m.benefit \in Nat /\ hash_strength \in Strengths
      /\ start \in Nat /\ probes \in SUBSET (Strengths \X Nat)
      /\ rshash_state.state \in Searched => Measured(rshash_state, start, probes)
      /\ probe \in Strengths \X Nat
  BY MeasurementsAssumption DEF HistoryInv, SearchInv, TypeInv, TypeOK
<1>3. start' \in Nat /\ probes' \subseteq Strengths \X Nat
  BY <1>2 DEF Record
<1>4. CASE RoundOutside
  BY <1>1, <1>3, <1>4 DEF RoundOutside, HistoryInv, Searched, Settled
<1>5. CASE RoundBegins(m)
  <2>1. start' = m.benefit /\ probes' = {probe}
    BY <1>5 DEF RoundBegins, Record, Probing
  <2>2. Measured(rshash_state', start', probes')
    BY <1>2, <1>5, <2>1 DEF RoundBegins, Measured
  <2>3. QED
    BY <1>1, <1>3, <1>5, <2>2 DEF RoundBegins, HistoryInv, Settled
<1>6. CASE RoundProbesDown(m)
  <2>1. start' = start /\ probes' = probes \cup {probe}
    BY <1>6 DEF RoundProbesDown, Record, Probing
  <2>2. Measured(ProbedDown(m), start, probes')
    BY <1>2, <1>6, <2>1, MeasuredDown DEF RoundProbesDown, Searched, Probing
  <2>3. Measured(rshash_state', start', probes')
    BY <1>6, <2>1, <2>2, SameSearchMeasured DEF RoundProbesDown
  <2>4. QED
    BY <1>1, <1>3, <1>6, <2>3 DEF RoundProbesDown, HistoryInv, Settled, Probing
<1>7. CASE RoundProbesUp(m)
  <2>1. start' = start /\ probes' = probes \cup {probe}
    BY <1>7 DEF RoundProbesUp, Record, Probing
  <2>2. Measured(ProbedUp(m), start, probes')
    BY <1>2, <1>7, <2>1, MeasuredUp DEF RoundProbesUp, Searched, Probing
  <2>3. Measured(rshash_state', start', probes')
    BY <1>7, <2>1, <2>2, SameSearchMeasured DEF RoundProbesUp
  <2>4. QED
    BY <1>1, <1>3, <1>7, <2>3 DEF RoundProbesUp, HistoryInv, Settled
<1>8. QED
  BY <1>2, <1>4, <1>5, <1>6, <1>7, RoundKinds DEF Round

LEMMA HistoryInvNext == HistoryInv /\ [SearchNext]_searchVars => HistoryInv'
<1> SUFFICES ASSUME HistoryInv, [SearchNext]_searchVars PROVE HistoryInv'
  OBVIOUS
<1>1. CASE SearchScan
  BY <1>1, ScanKeepsHistory DEF SearchScan
<1>2. CASE (EmptyRound /\ UNCHANGED <<start, probes>>) \/ UNCHANGED searchVars
  <2>1. [Next]_vars
    BY <1>2 DEF Next, searchVars
  <2>2. SearchInv'
    BY <2>1, SearchInvNext DEF HistoryInv
  <2>3. UNCHANGED <<hash_strength, rshash_state, start, probes>>
    BY <1>2 DEF EmptyRound, searchVars, vars
  <2>4. QED
    BY <2>2, <2>3 DEF HistoryInv, Settled
<1>3. QED
  BY <1>1, <1>2 DEF SearchNext

LEMMA SearchHistory == SearchSpec => []HistoryInv
BY HistoryInvInit, HistoryInvNext, PTL DEF SearchSpec

(* The history only watches: without it a behaviour is one of HashStrength, *)
(* so the theorems above hold of SearchSpec too.                            *)
THEOREM SearchWatches == SearchSpec => Spec
<1>1. SearchInit => Init
  BY DEF SearchInit
<1>2. [SearchNext]_searchVars => [Next]_vars
  BY DEF SearchNext, SearchScan, searchVars, Next, ScanRound
<1>3. QED
  BY <1>1, <1>2, PTL DEF SearchSpec, Spec

(* The turning points of a search are strengths this very search measured,  *)
(* each with the benefit it measured there.                                 *)
THEOREM PointsWereMeasured == SearchSpec => []TurningPointsMeasured
<1>1. HistoryInv => TurningPointsMeasured
  BY DEF HistoryInv, TurningPointsMeasured, Measured, Searched
<1>2. QED
  BY SearchHistory, <1>1, PTL

(* A search settles on a strength it measured, no worse than where it began *)
(* and no worse than any probe but the downward ones below the old stable   *)
(* benefit: for every page size and every landscape of benefits.            *)
LEMMA HistorySettles == HistoryInv => SettlesAtBestCandidate
<1> SUFFICES ASSUME HistoryInv, Settled PROVE SettlesAtBestCandidate!2
  BY DEF SettlesAtBestCandidate
<1> DEFINE r == rshash_state
<1>1. Measured(r, start, probes) /\ Chosen(r, hash_strength)
  BY DEF HistoryInv, Settled, Searched
<1>2. /\ r.turn_benefit_up \in Nat /\ r.turn_benefit_down \in Nat /\ start \in Nat
      /\ \A p \in probes : p[2] \in Nat
  BY DEF HistoryInv, SearchInv, TypeInv, TypeOK, RshashStates
<1>3. SettledBenefit \in {r.turn_benefit_up, r.turn_benefit_down}
      /\ SettledBenefit >= r.turn_benefit_up /\ SettledBenefit >= r.turn_benefit_down
  BY <1>2 DEF SettledBenefit
<1>4. <<hash_strength, SettledBenefit>> \in probes
  BY <1>1 DEF Measured, Chosen, SettledBenefit
<1>5. SettledBenefit >= start
  BY <1>1, <1>2, <1>3 DEF Measured
<1>6. ASSUME NEW p \in probes
      PROVE  p[2] <= SettledBenefit \/ (p[1] <= r.stable_point /\ p[2] < r.stable_benefit)
  BY <1>1, <1>2, <1>3 DEF Measured
<1>7. QED
  BY <1>4, <1>5, <1>6

THEOREM SettlesAtBest == SearchSpec => []SettlesAtBestCandidate
BY SearchHistory, HistorySettles, PTL

-----------------------------------------------------------------------------
(* The search implements the abstract one, step by step. *)

LEMMA AbstractInit == SearchInit => Abstract!Init
BY StrengthAssumption, StrengthFacts DEF SearchInit, Init, Abstract!Init, Probing, HASH_STRENGTH_MAX

LEMMA ScanImplements ==
  ASSUME HistoryInv, HistoryInv', NEW m \in Measurements, Round(m), Record(m)
  PROVE  Abstract!Next
<1> DEFINE Benefits == {n.benefit : n \in Measurements}
           searching == rshash_state.state \in Probing
           probe == <<hash_strength, m.benefit>>
<1>1. TypeOK /\ m.benefit \in Benefits /\ hash_strength' \in Strengths
  BY DEF HistoryInv, SearchInv, TypeInv, TypeOK
<1>2. CASE RoundOutside
  <2>1. ~searching /\ searching' = searching /\ UNCHANGED <<start, probes>>
    BY <1>2 DEF RoundOutside, Record, Searched, Probing
  <2>2. Abstract!Follow
    BY <1>1, <2>1 DEF Abstract!Follow
  <2>3. QED
    BY <2>2 DEF Abstract!Next
<1>3. CASE RoundBegins(m)
  <2>1. ~searching /\ searching' = TRUE /\ start' = m.benefit /\ probes' = {probe}
    BY <1>3 DEF RoundBegins, Record, Probing
  <2>2. Abstract!Begin
    BY <1>1, <2>1 DEF Abstract!Begin
  <2>3. QED
    BY <2>2 DEF Abstract!Next
<1>4. CASE (RoundProbesDown(m) \/ RoundProbesUp(m)) /\ rshash_state'.state \in Probing
  <2>1. searching /\ searching' = searching /\ start' = start /\ probes' = probes \cup {probe}
    BY <1>4 DEF RoundProbesDown, RoundProbesUp, Record, Probing
  <2>2. Abstract!Probe
    BY <1>1, <2>1 DEF Abstract!Probe, Abstract!Measure
  <2>3. QED
    BY <2>2 DEF Abstract!Next
<1>5. CASE RoundProbesUp(m) /\ rshash_state'.state = "PRE_STILL"
  <2>1. searching /\ searching' = FALSE /\ start' = start /\ probes' = probes \cup {probe}
    BY <1>5 DEF RoundProbesUp, Record, Probing
  <2>2. Settled'
    BY <1>5 DEF Settled
  <2>3. <<hash_strength', SettledBenefit'>> \in probes' /\ SettledBenefit' >= start'
    <3>1. SettlesAtBestCandidate'
      BY HistorySettles, PTL
    <3>2. QED
      BY <2>2, <3>1 DEF SettlesAtBestCandidate
  <2>4. \E p \in probes' : p[2] >= start /\ hash_strength' = p[1]
    BY <2>1, <2>3
  <2>5. Abstract!Settle
    BY <1>1, <2>1, <2>4 DEF Abstract!Settle, Abstract!Measure
  <2>6. QED
    BY <2>5 DEF Abstract!Next
<1>6. RoundOutside \/ RoundBegins(m) \/ RoundProbesDown(m) \/ RoundProbesUp(m)
  BY <1>1, RoundKinds DEF Round
<1>7. RoundProbesDown(m) => rshash_state'.state \in Probing
  BY DEF RoundProbesDown
<1>8. RoundProbesUp(m) => rshash_state'.state \in Probing \/ rshash_state'.state = "PRE_STILL"
  BY DEF RoundProbesUp, Probing
<1>9. QED
  BY <1>2, <1>3, <1>4, <1>5, <1>6, <1>7, <1>8

LEMMA StepImplements ==
  HistoryInv /\ HistoryInv' /\ [SearchNext]_searchVars => [Abstract!Next]_(Abstract!vars)
<1> SUFFICES ASSUME HistoryInv, HistoryInv', [SearchNext]_searchVars
    PROVE  [Abstract!Next]_(Abstract!vars)
  OBVIOUS
<1>1. CASE SearchScan
  BY <1>1, ScanImplements DEF SearchScan
<1>2. CASE (EmptyRound /\ UNCHANGED <<start, probes>>) \/ UNCHANGED searchVars
  BY <1>2 DEF EmptyRound, searchVars, vars, Abstract!vars
<1>3. QED
  BY <1>1, <1>2 DEF SearchNext

(* Safety of the refinement: every round is a step of the abstract search,  *)
(* or none; in particular a search ends on a strength measured no worse     *)
(* than the one it began at.                                                *)
THEOREM SearchImplemented == SearchSpec => Abstract!Spec
BY SearchHistory, AbstractInit, StepImplements, PTL DEF SearchSpec, Abstract!Spec

-----------------------------------------------------------------------------
(* The feedback loop.  What a round's pages are credited and charged stays  *)
(* below the width, so that nothing is scaled and what rshash_adjust judges *)
(* is exact.                                                                *)

AllPages == acct.benefit_scanned + Fresh(acct)
PageCost == CALLS_PER_PAGE * CallCost
RebuildCost == REBUILD_NODES * HASH_STRENGTH_MAX

LoopTypes ==
  /\ acct \in Accounts
  /\ acct.pages_scanned_last <= acct.pages_scanned
  /\ acct.benefit_base = 0
  /\ calls \in 0 .. CALLS_PER_PAGE
  /\ rebuild \in 0 .. REBUILD_NODES

(* Only the wrap of pages_scanned encodes in mid-round, at most once. *)
PagesBounded ==
  /\ acct.benefit_scanned < ROUND_PAGES
  /\ Fresh(acct) <= ROUND_PAGES
  /\ acct.benefit_scanned > 0 => acct.pages_scanned_last = 0 /\ Fresh(acct) > 0

(* What was charged and what still may be, against the pages of the round. *)
CostsBounded ==
  acct.benefit_neg + acct.rshash_neg + calls * CallCost + rebuild * HASH_STRENGTH_MAX
    <= RebuildCost + AllPages * PageCost

LoopInv == TypeInv /\ LoopTypes /\ CreditsAreCurrent /\ PagesBounded /\ CostsBounded

LEMMA LoopConstants ==
  /\ CallCost \in Nat /\ PageCost \in Nat /\ RebuildCost \in Nat
  /\ HASH_STRENGTH_MAX \in Nat /\ HASH_STRENGTH_FULL \in Nat \ {0}
  /\ ROUND_PAGES \in Nat \ {0} /\ CALLS_PER_PAGE \in Nat /\ REBUILD_NODES \in Nat
  /\ U64_MAX \in Nat /\ MEMCMP_COST \in Nat
  /\ ROUND_PAGES <= U64_MAX
<1>1. /\ HASH_STRENGTH_MAX \in Nat /\ HASH_STRENGTH_FULL \in Nat \ {0}
      /\ ROUND_PAGES \in Nat \ {0} /\ CALLS_PER_PAGE \in Nat /\ REBUILD_NODES \in Nat
      /\ U64_MAX \in Nat /\ MEMCMP_COST \in Nat
  BY StrengthFacts, StrengthAssumption, LoopAssumption, U64Assumption
<1>2. CallCost \in Nat
  BY <1>1 DEF CallCost
<1>3. PageCost \in Nat
  BY <1>1, <1>2 DEF PageCost
<1>4. RebuildCost \in Nat
  BY <1>1 DEF RebuildCost
<1>5. ROUND_PAGES <= U64_MAX
  <2>1. 2 * ROUND_PAGES <= (2 * ROUND_PAGES) * HASH_STRENGTH_FULL
    BY <1>1
  <2>2. (2 * ROUND_PAGES) * HASH_STRENGTH_FULL <= U64_MAX
    BY ChargesFitAssumption
  <2>3. (2 * ROUND_PAGES) * HASH_STRENGTH_FULL \in Nat
    BY <1>1
  <2> QED
    BY <1>1, <2>1, <2>2, <2>3
<1> QED
  BY <1>1, <1>2, <1>3, <1>4, <1>5

LEMMA AccountFacts ==
  ASSUME NEW a \in Accounts
  PROVE  /\ a.rshash_pos \in Nat /\ a.rshash_neg \in Nat
         /\ a.benefit_pos \in Nat /\ a.benefit_neg \in Nat /\ a.benefit_scanned \in Nat
         /\ a.pages_scanned \in Nat /\ a.pages_scanned <= U64_MAX
         /\ a.pages_scanned_last \in Nat /\ a.pages_scanned_last <= U64_MAX
BY U64Assumption DEF Accounts, U64

LEMMA FreshPages ==
  ASSUME NEW a \in Accounts, a.pages_scanned_last <= a.pages_scanned
  PROVE  Fresh(a) = a.pages_scanned - a.pages_scanned_last /\ Fresh(a) \in Nat
BY U64Assumption DEF Fresh, Sub, Accounts, U64

LEMMA SavedRange ==
  ASSUME NEW s \in Strengths
  PROVE  /\ Saved(s) \in Nat /\ Saved(s) <= HASH_STRENGTH_FULL
         /\ HASH_STRENGTH_MAX - s \in Nat /\ HASH_STRENGTH_MAX - s <= HASH_STRENGTH_MAX
BY StrengthFacts, StrengthAssumption DEF Saved

LEMMA ProductBound ==
  ASSUME NEW k \in Nat, NEW n \in Nat, NEW c \in Nat, k <= n
  PROVE  k * c \in Nat /\ k * c <= n * c
OBVIOUS

(* The sums of a round are below the width. *)
LEMMA TotalsFit ==
  ASSUME LoopInv
  PROVE  /\ AllPages \in Nat /\ AllPages < 2 * ROUND_PAGES
         /\ acct.benefit_pos + acct.rshash_pos + Saved(hash_strength) <= U64_MAX
         /\ acct.benefit_neg + acct.rshash_neg + calls * CallCost
              + rebuild * HASH_STRENGTH_MAX <= U64_MAX
<1> DEFINE s == Saved(hash_strength)
<1>1. acct \in Accounts /\ Fresh(acct) \in Nat /\ hash_strength \in Strengths
  BY FreshPages DEF LoopInv, LoopTypes, TypeInv, TypeOK
<1>2. AllPages \in Nat /\ AllPages < 2 * ROUND_PAGES
  BY <1>1, AccountFacts, LoopConstants DEF LoopInv, PagesBounded, AllPages
<1>3. s \in Nat /\ s <= HASH_STRENGTH_FULL
  BY <1>1, SavedRange
<1>4. acct.benefit_pos + acct.rshash_pos = AllPages * s
  BY DEF LoopInv, CreditsAreCurrent, AllPages
<1> HIDE DEF s
<1>5. AllPages * s + s <= U64_MAX
  <2>1. AllPages * s + s = (AllPages + 1) * s
    BY <1>2, <1>3
  <2>2. AllPages + 1 \in Nat /\ AllPages + 1 <= 2 * ROUND_PAGES /\ 2 * ROUND_PAGES \in Nat
    BY <1>2, LoopConstants
  <2>3. (AllPages + 1) * s <= (2 * ROUND_PAGES) * s
    BY <1>3, <2>2, ProductBound
  <2>4. s * (2 * ROUND_PAGES) <= HASH_STRENGTH_FULL * (2 * ROUND_PAGES)
    BY <1>3, <2>2, LoopConstants, ProductBound
  <2>5. /\ s * (2 * ROUND_PAGES) = (2 * ROUND_PAGES) * s
        /\ HASH_STRENGTH_FULL * (2 * ROUND_PAGES) = (2 * ROUND_PAGES) * HASH_STRENGTH_FULL
    BY <1>3, <2>2, LoopConstants
  <2>6. (AllPages + 1) * s \in Nat /\ (2 * ROUND_PAGES) * s \in Nat
        /\ (2 * ROUND_PAGES) * HASH_STRENGTH_FULL \in Nat
    BY <1>3, <2>2, LoopConstants
  <2>7. (2 * ROUND_PAGES) * HASH_STRENGTH_FULL <= U64_MAX
    BY ChargesFitAssumption
  <2> QED
    BY <2>1, <2>3, <2>4, <2>5, <2>6, <2>7, LoopConstants
<1>6. RebuildCost + AllPages * PageCost <= U64_MAX
  <2>1. AllPages * PageCost <= (2 * ROUND_PAGES) * PageCost
    BY <1>2, LoopConstants, ProductBound
  <2>2. RebuildCost + (2 * ROUND_PAGES) * PageCost <= U64_MAX
    BY ChargesFitAssumption DEF RebuildCost, PageCost
  <2>3. AllPages * PageCost \in Nat /\ (2 * ROUND_PAGES) * PageCost \in Nat
    BY <1>2, LoopConstants
  <2> QED
    BY <2>1, <2>2, <2>3, LoopConstants
<1>7. /\ acct.benefit_neg \in Nat /\ acct.rshash_neg \in Nat
      /\ calls * CallCost \in Nat /\ rebuild * HASH_STRENGTH_MAX \in Nat
      /\ AllPages * PageCost \in Nat
  <2>1. calls \in Nat /\ rebuild \in Nat
    BY LoopConstants DEF LoopInv, LoopTypes
  <2> QED
    BY <1>1, <1>2, <2>1, AccountFacts, LoopConstants
<1>8. acct.benefit_neg + acct.rshash_neg + calls * CallCost
        + rebuild * HASH_STRENGTH_MAX <= U64_MAX
  BY <1>6, <1>7, LoopConstants DEF LoopInv, CostsBounded
<1> QED
  BY <1>2, <1>4, <1>5, <1>8 DEF s

(* A charge that fits is added and forces no encoding. *)
LEMMA CreditIsAdded ==
  ASSUME NEW a \in Accounts, NEW d \in Nat, a.rshash_pos + d <= U64_MAX
  PROVE  LET b == [a EXCEPT !.rshash_pos = a.rshash_pos + d]
         IN IncRshashPos(a, d) = b /\ b \in Accounts
<1>1. ~CanOverflow(a.rshash_pos, d)
  BY AccountFacts, U64Assumption DEF CanOverflow
<1>2. EncodeIf(CanOverflow(a.rshash_pos, d), a) = a
  BY <1>1 DEF EncodeIf
<1>3. Add(a.rshash_pos, d) = a.rshash_pos + d
  BY AccountFacts, U64Assumption DEF Add
<1>4. a.rshash_pos + d \in U64
  BY AccountFacts, U64Assumption DEF U64
<1> QED
  BY <1>2, <1>3, <1>4 DEF IncRshashPos, Accounts

LEMMA CostIsAdded ==
  ASSUME NEW a \in Accounts, NEW d \in Nat, a.rshash_neg + d <= U64_MAX
  PROVE  LET b == [a EXCEPT !.rshash_neg = a.rshash_neg + d]
         IN IncRshashNeg(a, d) = b /\ b \in Accounts
<1>1. ~CanOverflow(a.rshash_neg, d)
  BY AccountFacts, U64Assumption DEF CanOverflow
<1>2. EncodeIf(CanOverflow(a.rshash_neg, d), a) = a
  BY <1>1 DEF EncodeIf
<1>3. Add(a.rshash_neg, d) = a.rshash_neg + d
  BY AccountFacts, U64Assumption DEF Add
<1>4. a.rshash_neg + d \in U64
  BY AccountFacts, U64Assumption DEF U64
<1> QED
  BY <1>2, <1>3, <1>4 DEF IncRshashNeg, Accounts

-----------------------------------------------------------------------------
(* The calls that charge. *)

LEMMA CostKept ==
  ASSUME LoopInv, NEW d \in Nat,
         acct' = [acct EXCEPT !.rshash_neg = acct.rshash_neg + d],
         acct.rshash_neg + d <= U64_MAX,
         UNCHANGED vars, calls' \in 0 .. CALLS_PER_PAGE, rebuild' \in 0 .. REBUILD_NODES,
         d + calls' * CallCost + rebuild' * HASH_STRENGTH_MAX
           <= calls * CallCost + rebuild * HASH_STRENGTH_MAX
  PROVE  LoopInv'
<1>1. acct \in Accounts /\ acct.rshash_neg \in Nat /\ acct.benefit_neg \in Nat
  BY AccountFacts DEF LoopInv, LoopTypes
<1>2. /\ acct' \in Accounts
      /\ acct'.rshash_neg = acct.rshash_neg + d
      /\ acct'.rshash_pos = acct.rshash_pos
      /\ acct'.benefit_pos = acct.benefit_pos /\ acct'.benefit_neg = acct.benefit_neg
      /\ acct'.benefit_scanned = acct.benefit_scanned
      /\ acct'.benefit_base = acct.benefit_base
      /\ acct'.pages_scanned = acct.pages_scanned
      /\ acct'.pages_scanned_last = acct.pages_scanned_last
  <2>1. acct.rshash_neg + d \in U64
    BY <1>1, U64Assumption DEF U64
  <2> QED
    BY <1>1, <2>1 DEF Accounts
<1>3. Fresh(acct') = Fresh(acct)
  BY <1>2 DEF Fresh
<1>4. TypeInv'
  BY DEF LoopInv, TypeInv, TypeOK, PointsInRange, vars
<1>5. LoopTypes'
  BY <1>2 DEF LoopInv, LoopTypes
<1>6. CreditsAreCurrent'
  <2>1. Saved(hash_strength)' = Saved(hash_strength)
    BY DEF vars, Saved
  <2>2. Fresh(acct)' = Fresh(acct)
    BY <1>3 DEF Fresh, Sub
  <2> QED
    BY <1>2, <2>1, <2>2 DEF LoopInv, CreditsAreCurrent
<1>7. PagesBounded'
  BY <1>2, <1>3 DEF LoopInv, PagesBounded, Fresh, Sub
<1>8. CostsBounded'
  <2>1. /\ calls * CallCost \in Nat /\ rebuild * HASH_STRENGTH_MAX \in Nat
        /\ calls' * CallCost \in Nat /\ rebuild' * HASH_STRENGTH_MAX \in Nat
    <3>1. calls \in Nat /\ rebuild \in Nat /\ calls' \in Nat /\ rebuild' \in Nat
      BY LoopConstants DEF LoopInv, LoopTypes
    <3> QED
      BY <3>1, LoopConstants
  <2>2. AllPages' = AllPages
    BY <1>2, <1>3 DEF AllPages, Fresh, Sub
  <2>3. RebuildCost + AllPages * PageCost \in Nat
    BY LoopConstants, TotalsFit
  <2> QED
    BY <1>1, <1>2, <2>1, <2>2, <2>3 DEF LoopInv, CostsBounded
<1> QED
  BY <1>4, <1>5, <1>6, <1>7, <1>8 DEF LoopInv

(* A call may charge up to CallCost, in one piece or several. *)
LEMMA CallKept ==
  ASSUME LoopInv, calls > 0, NEW d \in Nat, d <= CallCost,
         acct.rshash_neg + d <= U64_MAX =>
           acct' = [acct EXCEPT !.rshash_neg = acct.rshash_neg + d],
         calls' = calls - 1, UNCHANGED <<vars, rebuild>>
  PROVE  LoopInv'
<1>1. /\ calls \in Nat /\ calls' \in 0 .. CALLS_PER_PAGE
      /\ rebuild \in 0 .. REBUILD_NODES /\ rebuild' = rebuild
  BY LoopConstants DEF LoopInv, LoopTypes
<1>2. calls * CallCost = calls' * CallCost + CallCost
  BY <1>1, LoopConstants
<1>3. calls' * CallCost \in Nat /\ rebuild * HASH_STRENGTH_MAX \in Nat
  BY <1>1, LoopConstants
<1>4. acct.rshash_neg \in Nat /\ acct.benefit_neg \in Nat
  BY AccountFacts DEF LoopInv, LoopTypes
<1>5. acct.rshash_neg + d <= U64_MAX
  BY <1>2, <1>3, <1>4, TotalsFit, LoopConstants
<1>6. d + calls' * CallCost + rebuild' * HASH_STRENGTH_MAX
        <= calls * CallCost + rebuild * HASH_STRENGTH_MAX
  BY <1>1, <1>2, <1>3, LoopConstants
<1>7. UNCHANGED vars
  OBVIOUS
<1> QED
  BY <1>1, <1>5, <1>6, <1>7, CostKept

LEMMA ExtensionRange == LoopInv => Extension \in Nat /\ Extension <= HASH_STRENGTH_MAX
BY SavedRange DEF LoopInv, TypeInv, TypeOK, Extension

LEMMA CallsKept ==
  ASSUME LoopInv, ComparePages \/ HashMax \/ CheckCollision
  PROVE  LoopInv'
<1>1. acct \in Accounts /\ acct.rshash_neg \in Nat
  BY AccountFacts DEF LoopInv, LoopTypes
<1>2. Extension \in Nat /\ Extension <= HASH_STRENGTH_MAX
  BY ExtensionRange
<1>3. hash_strength \in Nat /\ hash_strength <= HASH_STRENGTH_MAX
  BY StrengthFacts DEF LoopInv, TypeInv, TypeOK
<1>4. CallCost = MEMCMP_COST + 2 * HASH_STRENGTH_MAX
  BY DEF CallCost
<1>5. ASSUME NEW d \in Nat, d <= CallCost, Call(IncRshashNeg(acct, d))
      PROVE  LoopInv'
  <2>1. acct.rshash_neg + d <= U64_MAX =>
          acct' = [acct EXCEPT !.rshash_neg = acct.rshash_neg + d]
    BY <1>1, <1>5, CostIsAdded DEF Call
  <2> QED
    BY <1>5, <2>1, CallKept DEF Call
<1>6. CASE ComparePages
  <2>1. MEMCMP_COST \in Nat /\ MEMCMP_COST <= CallCost
    BY <1>4, LoopConstants
  <2> QED
    BY <1>5, <1>6, <2>1 DEF ComparePages
<1>7. CASE HashMax
  <2>1. Extension <= CallCost
    BY <1>2, <1>4, LoopConstants
  <2> QED
    BY <1>2, <1>5, <1>7, <2>1 DEF HashMax
<1>8. CASE Call(IncRshashNeg(acct, MEMCMP_COST + hash_strength))
  <2>1. MEMCMP_COST + hash_strength \in Nat /\ MEMCMP_COST + hash_strength <= CallCost
    BY <1>3, <1>4, LoopConstants
  <2> QED
    BY <1>5, <1>8, <2>1
<1>9. CASE Call(IncRshashNeg(IncRshashNeg(IncRshashNeg(acct, MEMCMP_COST), Extension),
                             Extension))
  <2> DEFINE d == MEMCMP_COST + 2 * Extension
  <2>1. d \in Nat /\ d <= CallCost
    BY <1>2, <1>4, LoopConstants
  <2>2. ASSUME acct.rshash_neg + d <= U64_MAX
        PROVE  acct' = [acct EXCEPT !.rshash_neg = acct.rshash_neg + d]
    <3> DEFINE a == [acct EXCEPT !.rshash_neg = acct.rshash_neg + MEMCMP_COST]
               b == [a EXCEPT !.rshash_neg = a.rshash_neg + Extension]
               c == [b EXCEPT !.rshash_neg = b.rshash_neg + Extension]
    <3>1. IncRshashNeg(acct, MEMCMP_COST) = a /\ a \in Accounts
          /\ a.rshash_neg = acct.rshash_neg + MEMCMP_COST
      <4>1. acct.rshash_neg + MEMCMP_COST <= U64_MAX
        BY <1>1, <1>2, <2>2, LoopConstants
      <4>2. IncRshashNeg(acct, MEMCMP_COST) = a /\ a \in Accounts
        BY <1>1, <4>1, CostIsAdded, LoopConstants
      <4> QED
        BY <1>1, <4>2 DEF Accounts
    <3>2. c = [acct EXCEPT !.rshash_neg = acct.rshash_neg + d]
      <4>1. acct.rshash_neg + MEMCMP_COST + Extension + Extension = acct.rshash_neg + d
        BY <1>1, <1>2, LoopConstants
      <4>2. c = [acct EXCEPT !.rshash_neg = acct.rshash_neg + MEMCMP_COST + Extension + Extension]
        BY <1>1 DEF Accounts
      <4> QED
        BY <4>1, <4>2
    <3> HIDE DEF a
    <3>3. IncRshashNeg(a, Extension) = b /\ b \in Accounts
          /\ b.rshash_neg = acct.rshash_neg + MEMCMP_COST + Extension
      <4>1. a.rshash_neg + Extension <= U64_MAX
        BY <1>1, <1>2, <2>2, <3>1, LoopConstants
      <4>2. IncRshashNeg(a, Extension) = b /\ b \in Accounts
        BY <1>2, <3>1, <4>1, CostIsAdded
      <4> QED
        BY <3>1, <4>2 DEF Accounts
    <3> HIDE DEF b
    <3>4. IncRshashNeg(b, Extension) = c
      <4>1. b.rshash_neg + Extension <= U64_MAX
        BY <1>1, <1>2, <2>2, <3>3, LoopConstants
      <4> QED
        BY <1>2, <3>3, <4>1, CostIsAdded
    <3> QED
      BY <1>9, <3>1, <3>2, <3>3, <3>4 DEF Call
  <2> QED
    BY <1>9, <2>1, <2>2, CallKept DEF Call
<1> QED
  BY <1>6, <1>7, <1>8, <1>9, <1>5 DEF CheckCollision

LEMMA RebuildHashKept ==
  ASSUME LoopInv, RebuildHash
  PROVE  LoopInv'
<1>1. acct \in Accounts /\ acct.rshash_neg \in Nat /\ acct.benefit_neg \in Nat
  BY AccountFacts DEF LoopInv, LoopTypes
<1>2. Extension \in Nat /\ Extension <= HASH_STRENGTH_MAX
  BY ExtensionRange
<1>3. /\ rebuild \in Nat /\ rebuild' \in 0 .. REBUILD_NODES /\ rebuild' = rebuild - 1
      /\ calls \in 0 .. CALLS_PER_PAGE /\ calls' = calls /\ UNCHANGED vars
  BY LoopConstants DEF LoopInv, LoopTypes, RebuildHash
<1>4. rebuild * HASH_STRENGTH_MAX = rebuild' * HASH_STRENGTH_MAX + HASH_STRENGTH_MAX
  <2>1. rebuild > 0
    BY DEF RebuildHash
  <2> QED
    BY <1>3, <2>1, LoopConstants
<1>5. rebuild' * HASH_STRENGTH_MAX \in Nat /\ calls * CallCost \in Nat
  BY <1>3, LoopConstants
<1>6. acct.rshash_neg + Extension <= U64_MAX
  BY <1>1, <1>2, <1>4, <1>5, TotalsFit, LoopConstants
<1>7. acct' = [acct EXCEPT !.rshash_neg = acct.rshash_neg + Extension]
  BY <1>1, <1>2, <1>6, CostIsAdded DEF RebuildHash
<1>8. Extension + calls' * CallCost + rebuild' * HASH_STRENGTH_MAX
        <= calls * CallCost + rebuild * HASH_STRENGTH_MAX
  BY <1>2, <1>3, <1>4, <1>5, LoopConstants
<1> QED
  BY <1>2, <1>3, <1>6, <1>7, <1>8, CostKept

-----------------------------------------------------------------------------
(* Encoding. *)

LEMMA PowerZero == \A x \in Nat : Shr(x, 0) = x
BY BaseAssumption DEF Shr

(* Nothing is scaled, so an encoding moves what was charged into benefit.   *)
LEMMA RoundEncoded ==
  ASSUME LoopInv, Encodes(acct)
  PROVE  LET e == EncodeBenefit(acct)
         IN /\ e \in Accounts
            /\ e.rshash_pos = 0 /\ e.rshash_neg = 0 /\ e.benefit_base = 0
            /\ e.benefit_pos = acct.benefit_pos + acct.rshash_pos
            /\ e.benefit_neg = acct.benefit_neg + acct.rshash_neg
            /\ e.benefit_scanned = AllPages
            /\ e.pages_scanned = acct.pages_scanned
            /\ e.pages_scanned_last = acct.pages_scanned
            /\ e.pages_scanned_stored = acct.pages_scanned_stored
            /\ e.pages_scanned_base = acct.pages_scanned_base
<1> DEFINE e == EncodeBenefit(acct)
           pos == acct.benefit_pos + acct.rshash_pos
           neg == acct.benefit_neg + acct.rshash_neg
           r == [acct EXCEPT !.benefit_pos = pos, !.benefit_neg = neg,
                             !.benefit_scanned = AllPages, !.benefit_base = 0,
                             !.rshash_pos = 0, !.rshash_neg = 0,
                             !.pages_scanned_last = acct.pages_scanned]
<1>1. /\ acct \in Accounts /\ acct.benefit_base = 0 /\ Fresh(acct) \in Nat
      /\ hash_strength \in Strengths /\ calls \in Nat /\ rebuild \in Nat
  BY FreshPages, LoopConstants DEF LoopInv, LoopTypes, TypeInv, TypeOK
<1>2. /\ acct.rshash_pos \in Nat /\ acct.rshash_neg \in Nat
      /\ acct.benefit_pos \in Nat /\ acct.benefit_neg \in Nat
      /\ acct.benefit_scanned \in Nat
  BY <1>1, AccountFacts
<1>3. pos \in U64 /\ neg \in U64
  <2>1. Saved(hash_strength) \in Nat /\ calls * CallCost \in Nat
        /\ rebuild * HASH_STRENGTH_MAX \in Nat
    BY <1>1, SavedRange, LoopConstants
  <2> QED
    BY <1>2, <2>1, TotalsFit, LoopConstants DEF U64
<1>4. AllPages \in U64
  <2>1. 2 * ROUND_PAGES <= (2 * ROUND_PAGES) * HASH_STRENGTH_FULL
        /\ (2 * ROUND_PAGES) * HASH_STRENGTH_FULL \in Nat
    BY LoopConstants
  <2>2. (2 * ROUND_PAGES) * HASH_STRENGTH_FULL <= U64_MAX
    BY ChargesFitAssumption
  <2> QED
    BY <2>1, <2>2, TotalsFit, LoopConstants DEF U64
<1>5. /\ Shr(acct.rshash_pos, 0) = acct.rshash_pos /\ Shr(acct.rshash_neg, 0) = acct.rshash_neg
      /\ Shr(Fresh(acct), 0) = Fresh(acct) /\ Shr(acct.benefit_pos, 0) = acct.benefit_pos
      /\ Shr(acct.benefit_neg, 0) = acct.benefit_neg
      /\ Shr(acct.benefit_scanned, 0) = acct.benefit_scanned
  BY <1>1, <1>2, PowerZero
<1>6. /\ pos <= U64_MAX /\ neg <= U64_MAX /\ acct.benefit_scanned + Fresh(acct) <= U64_MAX
  BY <1>3, <1>4, LoopConstants DEF U64, AllPages
<1>7. ~Overflows(acct)
  BY <1>1, <1>2, <1>5, <1>6, LoopConstants DEF Overflows, CanOverflow
<1>8. /\ Add(acct.benefit_pos, acct.rshash_pos) = pos
      /\ Add(acct.benefit_neg, acct.rshash_neg) = neg
      /\ Add(acct.benefit_scanned, Fresh(acct)) = AllPages
  <2>1. \A x \in Nat, y \in Nat : x + y <= U64_MAX => Add(x, y) = x + y
    BY U64Assumption DEF Add
  <2> QED
    BY <1>1, <1>2, <1>6, <2>1 DEF AllPages
<1>9. e = r
  <2>1. e = Scaled(acct, 0)
    BY <1>7 DEF EncodeBenefit
  <2>2. acct.benefit_base + 0 = 0
    BY <1>1
  <2> QED
    BY <1>5, <1>8, <2>1, <2>2 DEF Scaled
<1>10. 0 \in U64 /\ acct.pages_scanned \in U64 /\ 0 \in 0 .. BASE_MAX
  BY <1>1, LoopConstants, BaseAssumption DEF Accounts, U64
<1> HIDE DEF pos, neg
<1>11. /\ r \in Accounts
       /\ r.rshash_pos = 0 /\ r.rshash_neg = 0 /\ r.benefit_base = 0
       /\ r.benefit_pos = pos /\ r.benefit_neg = neg /\ r.benefit_scanned = AllPages
       /\ r.pages_scanned = acct.pages_scanned /\ r.pages_scanned_last = acct.pages_scanned
       /\ r.pages_scanned_stored = acct.pages_scanned_stored
       /\ r.pages_scanned_base = acct.pages_scanned_base
  BY <1>1, <1>3, <1>4, <1>10 DEF Accounts
<1> HIDE DEF e, r
<1> QED
  BY <1>9, <1>11 DEF e, pos, neg

(* What a wrap of pages_scanned stores. *)
LEMMA StoredIsTyped ==
  ASSUME NEW a \in Accounts, a.pages_scanned_base < BASE_MAX
  PROVE  LET s == StorePages(a)
         IN /\ s.pages_scanned_stored \in U64 /\ s.pages_scanned_base \in 0 .. BASE_MAX
            /\ s = [a EXCEPT !.pages_scanned_stored = s.pages_scanned_stored,
                             !.pages_scanned_base = s.pages_scanned_base]
<1> DEFINE n == a.pages_scanned_base
           x == a.pages_scanned_stored
           delta == Shr(a.pages_scanned, n)
           full == CanOverflow(x, delta)
           stored == IF full THEN Add(Shr(x, 1), Shr(delta, 1)) ELSE Add(x, delta)
           base == IF full THEN n + 1 ELSE n
           s == [a EXCEPT !.pages_scanned_stored = stored, !.pages_scanned_base = base]
<1>1. x \in Nat /\ a.pages_scanned \in Nat /\ n \in 0 .. BASE_MAX
  BY U64Assumption DEF Accounts, U64
<1>2. 2 ^ n \in Nat \ {0}
  BY <1>1, BaseAssumption
<1>3. 2 ^ 1 \in Nat \ {0}
  <2>1. 0 \in 0 .. BASE_MAX /\ 0 + 1 = 1
    BY BaseAssumption
  <2>2. 2 ^ (0 + 1) = 2 * 2 ^ 0
    BY <2>1, BaseAssumption
  <2> QED
    BY <2>1, <2>2, BaseAssumption
<1>4. \A y \in Nat, m \in Nat \ {0} : y \div m \in Nat
  OBVIOUS
<1>5. delta \in Nat
  BY <1>1, <1>2, <1>4 DEF Shr
<1>6. Shr(x, 1) \in Nat /\ Shr(delta, 1) \in Nat
  <2> HIDE DEF x, delta
  <2> QED
    BY <1>1, <1>3, <1>4, <1>5 DEF Shr
<1>7. \A y \in Nat, z \in Nat : Add(y, z) \in U64
  BY U64Assumption DEF Add, U64
<1>8. stored \in U64 /\ base \in 0 .. BASE_MAX
  <2> HIDE DEF x, delta, full
  <2> QED
    BY <1>1, <1>5, <1>6, <1>7, BaseAssumption
<1>9. StorePages(a) = s
  <2>1. CASE full
    BY <2>1 DEF StorePages
  <2>2. CASE ~full
    BY <2>2 DEF StorePages
  <2> QED
    BY <2>1, <2>2
<1> HIDE DEF stored, base
<1>10. s.pages_scanned_stored = stored /\ s.pages_scanned_base = base
  BY DEF Accounts
<1> QED
  BY <1>8, <1>9, <1>10

(* inc_uksm_pages_scanned adds one page to the round, wrapping or not. *)
LEMMA PageCounted ==
  ASSUME LoopInv, Fresh(acct) < ROUND_PAGES, acct.pages_scanned_base < BASE_MAX
  PROVE  LET b == IncPagesScanned(acct)
         IN /\ b \in Accounts /\ b.pages_scanned_last <= b.pages_scanned
            /\ b.benefit_base = 0
            /\ b.benefit_pos + b.rshash_pos = acct.benefit_pos + acct.rshash_pos
            /\ b.benefit_neg + b.rshash_neg = acct.benefit_neg + acct.rshash_neg
            /\ b.benefit_scanned + Fresh(b) = AllPages + 1
            /\ b.benefit_scanned < ROUND_PAGES /\ Fresh(b) <= ROUND_PAGES
            /\ b.benefit_scanned > 0 => b.pages_scanned_last = 0 /\ Fresh(b) > 0
<1> DEFINE b == IncPagesScanned(acct)
<1>1. /\ acct \in Accounts /\ acct.pages_scanned_last <= acct.pages_scanned
      /\ acct.benefit_base = 0
  BY DEF LoopInv, LoopTypes
<1>2. Fresh(acct) = acct.pages_scanned - acct.pages_scanned_last /\ Fresh(acct) \in Nat
  BY <1>1, FreshPages
<1>3. /\ acct.pages_scanned \in Nat /\ acct.pages_scanned <= U64_MAX
      /\ acct.pages_scanned_last \in Nat /\ acct.benefit_scanned \in Nat
  BY <1>1, AccountFacts
<1>4. CASE acct.pages_scanned # U64_MAX
  <2>1. b = [acct EXCEPT !.pages_scanned = acct.pages_scanned + 1]
    BY <1>4 DEF IncPagesScanned
  <2> HIDE DEF b
  <2>2. acct.pages_scanned + 1 \in U64
    BY <1>3, <1>4, LoopConstants DEF U64
  <2>3. /\ b \in Accounts
        /\ b.pages_scanned = acct.pages_scanned + 1
        /\ b.pages_scanned_last = acct.pages_scanned_last
        /\ b.rshash_pos = acct.rshash_pos /\ b.rshash_neg = acct.rshash_neg
        /\ b.benefit_pos = acct.benefit_pos /\ b.benefit_neg = acct.benefit_neg
        /\ b.benefit_scanned = acct.benefit_scanned /\ b.benefit_base = acct.benefit_base
    BY <1>1, <2>1, <2>2 DEF Accounts
  <2>4. b.pages_scanned_last <= b.pages_scanned
    BY <1>1, <1>3, <2>3
  <2>5. Fresh(b) = Fresh(acct) + 1
    <3>1. Fresh(b) = b.pages_scanned - b.pages_scanned_last
      BY <2>3, <2>4, FreshPages
    <3> QED
      BY <1>2, <1>3, <2>3, <3>1
  <2>6. /\ b.benefit_scanned + Fresh(b) = AllPages + 1
        /\ b.benefit_scanned < ROUND_PAGES /\ Fresh(b) <= ROUND_PAGES
        /\ b.benefit_scanned > 0 => b.pages_scanned_last = 0 /\ Fresh(b) > 0
    BY <1>2, <1>3, <2>3, <2>5, LoopConstants DEF AllPages, LoopInv, PagesBounded
  <2> QED
    BY <1>1, <2>3, <2>4, <2>6 DEF b
<1>5. CASE acct.pages_scanned = U64_MAX
  <2> DEFINE e == EncodeBenefit(acct)
             s == StorePages(e)
  <2>1. b = [s EXCEPT !.pages_scanned = 1, !.pages_scanned_last = 0]
    BY <1>5 DEF IncPagesScanned
  <2>2. acct.benefit_scanned = 0
    BY <1>2, <1>3, <1>5, LoopConstants DEF LoopInv, PagesBounded
  <2>3. /\ e \in Accounts /\ e.benefit_base = 0
        /\ e.benefit_pos + e.rshash_pos = acct.benefit_pos + acct.rshash_pos
        /\ e.benefit_neg + e.rshash_neg = acct.benefit_neg + acct.rshash_neg
        /\ e.benefit_scanned = AllPages
        /\ e.pages_scanned_base = acct.pages_scanned_base
    <3>1. CASE Encodes(acct)
      <4>1. /\ acct.benefit_pos + acct.rshash_pos \in Nat
            /\ acct.benefit_neg + acct.rshash_neg \in Nat
        BY <1>1, AccountFacts
      <4>2. \A x \in Nat : x + 0 = x
        OBVIOUS
      <4> QED
        BY <3>1, <4>1, <4>2, RoundEncoded
    <3>2. CASE ~Encodes(acct)
      <4>1. e = acct
        BY <3>2 DEF EncodeBenefit
      <4>2. AllPages = 0
        BY <2>2, <3>2 DEF AllPages, Encodes
      <4> QED
        BY <1>1, <2>2, <4>1, <4>2
    <3> QED
      BY <3>1, <3>2
  <2> HIDE DEF b, e
  <2>4. /\ s.pages_scanned_stored \in U64 /\ s.pages_scanned_base \in 0 .. BASE_MAX
        /\ s = [e EXCEPT !.pages_scanned_stored = s.pages_scanned_stored,
                         !.pages_scanned_base = s.pages_scanned_base]
    BY <2>3, StoredIsTyped
  <2> HIDE DEF s
  <2>5. /\ s \in Accounts
        /\ s.rshash_pos = e.rshash_pos /\ s.rshash_neg = e.rshash_neg
        /\ s.benefit_pos = e.benefit_pos /\ s.benefit_neg = e.benefit_neg
        /\ s.benefit_scanned = e.benefit_scanned /\ s.benefit_base = e.benefit_base
    BY <2>3, <2>4 DEF Accounts
  <2>6. 0 \in U64 /\ 1 \in U64
    BY U64Assumption DEF U64
  <2>7. /\ b \in Accounts /\ b.pages_scanned = 1 /\ b.pages_scanned_last = 0
        /\ b.rshash_pos = s.rshash_pos /\ b.rshash_neg = s.rshash_neg
        /\ b.benefit_pos = s.benefit_pos /\ b.benefit_neg = s.benefit_neg
        /\ b.benefit_scanned = s.benefit_scanned /\ b.benefit_base = s.benefit_base
    BY <2>1, <2>5, <2>6 DEF Accounts
  <2>8. Fresh(b) = 1
    BY <2>7, FreshPages
  <2>9. AllPages \in Nat /\ AllPages < ROUND_PAGES
    BY <1>2, <2>2 DEF AllPages
  <2>10. b.benefit_scanned = AllPages
    BY <2>3, <2>5, <2>7
  <2> QED
    BY <2>3, <2>5, <2>7, <2>8, <2>9, <2>10, LoopConstants DEF b
<1> QED
  BY <1>4, <1>5

-----------------------------------------------------------------------------
(* The invariant. *)

LEMMA ScanPageKept ==
  ASSUME LoopInv, ScanPage
  PROVE  LoopInv'
<1> DEFINE b == IncPagesScanned(acct)
           s == Saved(hash_strength)
           c == [b EXCEPT !.rshash_pos = b.rshash_pos + s]
<1>1. /\ Fresh(acct) < ROUND_PAGES /\ acct.pages_scanned_base < BASE_MAX /\ rebuild = 0
      /\ calls' = CALLS_PER_PAGE /\ rebuild' = rebuild /\ UNCHANGED vars
      /\ acct' = IncRshashPos(b, s)
  BY DEF ScanPage
<1>2. /\ b \in Accounts /\ b.pages_scanned_last <= b.pages_scanned /\ b.benefit_base = 0
      /\ b.benefit_pos + b.rshash_pos = acct.benefit_pos + acct.rshash_pos
      /\ b.benefit_neg + b.rshash_neg = acct.benefit_neg + acct.rshash_neg
      /\ b.benefit_scanned + Fresh(b) = AllPages + 1
      /\ b.benefit_scanned < ROUND_PAGES /\ Fresh(b) <= ROUND_PAGES
      /\ b.benefit_scanned > 0 => b.pages_scanned_last = 0 /\ Fresh(b) > 0
  BY <1>1, PageCounted
<1>3. /\ b.rshash_pos \in Nat /\ b.rshash_neg \in Nat
      /\ b.benefit_pos \in Nat /\ b.benefit_neg \in Nat
      /\ acct.rshash_neg \in Nat /\ acct.benefit_neg \in Nat
  BY <1>2, AccountFacts DEF LoopInv, LoopTypes
<1>4. s \in Nat /\ hash_strength \in Strengths
  BY SavedRange DEF LoopInv, TypeInv, TypeOK
<1>5. acct.benefit_pos + acct.rshash_pos = AllPages * s
  BY DEF LoopInv, CreditsAreCurrent, AllPages
<1>6. b.rshash_pos + s <= U64_MAX
  BY <1>2, <1>3, <1>4, TotalsFit, LoopConstants
<1> HIDE DEF b, s
<1>7. acct' = c /\ c \in Accounts
  BY <1>1, <1>2, <1>4, <1>6, CreditIsAdded
<1>8. /\ acct'.rshash_pos = b.rshash_pos + s /\ acct'.rshash_neg = b.rshash_neg
      /\ acct'.benefit_pos = b.benefit_pos /\ acct'.benefit_neg = b.benefit_neg
      /\ acct'.benefit_scanned = b.benefit_scanned /\ acct'.benefit_base = 0
      /\ acct'.pages_scanned = b.pages_scanned
      /\ acct'.pages_scanned_last = b.pages_scanned_last
  BY <1>2, <1>7 DEF Accounts
<1> HIDE DEF c
<1>9. Fresh(acct)' = Fresh(b)
  BY <1>8 DEF Fresh, Sub
<1>10. TypeInv'
  BY <1>1 DEF LoopInv, TypeInv, TypeOK, PointsInRange, vars
<1>11. LoopTypes'
  BY <1>1, <1>2, <1>7, <1>8, LoopConstants DEF LoopInv, LoopTypes
<1>12. CreditsAreCurrent'
  <2>1. Saved(hash_strength)' = s
    BY <1>1 DEF vars, Saved, s
  <2>2. b.benefit_pos + (b.rshash_pos + s) = (AllPages + 1) * s
    BY <1>2, <1>3, <1>4, <1>5, TotalsFit
  <2> QED
    BY <1>2, <1>8, <1>9, <2>1, <2>2 DEF CreditsAreCurrent
<1>13. PagesBounded'
  BY <1>2, <1>8, <1>9 DEF PagesBounded
<1>14. CostsBounded'
  <2>1. calls' * CallCost = PageCost
    BY <1>1 DEF PageCost
  <2>2. rebuild' * HASH_STRENGTH_MAX = 0 /\ rebuild * HASH_STRENGTH_MAX = 0
    BY <1>1, LoopConstants
  <2>3. AllPages' = AllPages + 1
    BY <1>2, <1>8, <1>9 DEF AllPages
  <2>4. (AllPages + 1) * PageCost = AllPages * PageCost + PageCost
        /\ AllPages * PageCost \in Nat
    BY TotalsFit, LoopConstants
  <2>5. calls * CallCost \in Nat
    <3>1. calls \in Nat
      BY LoopConstants DEF LoopInv, LoopTypes
    <3> QED
      BY <3>1, LoopConstants
  <2>6. acct.benefit_neg + acct.rshash_neg <= RebuildCost + AllPages * PageCost
    BY <1>3, <2>2, <2>4, <2>5, LoopConstants DEF LoopInv, CostsBounded
  <2>7. acct'.benefit_neg + acct'.rshash_neg = acct.benefit_neg + acct.rshash_neg
    BY <1>2, <1>8
  <2> QED
    BY <1>3, <2>1, <2>2, <2>3, <2>4, <2>6, <2>7, LoopConstants DEF CostsBounded
<1> QED
  BY <1>10, <1>11, <1>12, <1>13, <1>14 DEF LoopInv

(* A page credits at most what any hash below full strength saves, so the   *)
(* ratio and the net benefit of a round are what they should be.            *)
LEMMA RatioRange ==
  ASSUME NEW a \in Accounts
  PROVE  NegRatio(a) \in 0 .. 100
<1>1. a.benefit_neg \in 0 .. U64_MAX /\ a.benefit_pos \in 0 .. U64_MAX
  BY DEF Accounts, U64
<1> DEFINE n == a.benefit_neg
           p == a.benefit_pos
           w == U64_MAX \div 100
<1>2. n \in Nat /\ p \in Nat /\ w \in Nat /\ 10000 <= w
  BY <1>1, ChargesFitAssumption, LoopConstants
<1>3. CASE n = 0 \/ p = 0 \/ n > p
  BY <1>3 DEF NegRatio
<1>4. CASE n # 0 /\ p # 0 /\ n <= p /\ n <= w
  <2>1. NegRatio(a) = (100 * n) \div p
    BY <1>2, <1>4 DEF NegRatio
  <2> HIDE DEF n, p, w
  <2>2. 100 * n <= 100 * p
    BY <1>2, <1>4
  <2>3. (100 * n) \div p \in 0 .. 100
    <3> DEFINE q == (100 * n) \div p
    <3>1. q \in Nat /\ p * q <= 100 * n
      <4>1. 100 * n \in Nat /\ p \in Nat \ {0}
        BY <1>2, <1>4
      <4>2. \A x \in Nat, m \in Nat \ {0} : x \div m \in Nat /\ m * (x \div m) <= x
        OBVIOUS
      <4> QED
        BY <4>1, <4>2
    <3> HIDE DEF q
    <3>2. p * q <= p * 100
      BY <1>2, <2>2, <3>1
    <3>3. q <= 100
      BY <1>2, <1>4, <3>1, <3>2
    <3> QED
      BY <3>1, <3>3 DEF q
  <2> QED
    BY <2>1, <2>3
<1>5. CASE n # 0 /\ p # 0 /\ n <= p /\ n > w
  <2>1. NegRatio(a) = n \div (p \div 100)
    BY <1>2, <1>5 DEF NegRatio
  <2> DEFINE h == p \div 100
  <2> HIDE DEF n, p, w
  <2>2. h \in Nat /\ 100 * h <= p /\ p < 100 * h + 100
    BY <1>2
  <2>3. h >= 100
    BY <1>2, <1>5, <2>2
  <2> HIDE DEF h
  <2>4. n \div h \in 0 .. 100
    <3> DEFINE q == n \div h
    <3>1. q \in Nat /\ h * q <= n
      <4>1. h \in Nat \ {0}
        BY <2>2, <2>3
      <4>2. \A x \in Nat, m \in Nat \ {0} : x \div m \in Nat /\ m * (x \div m) <= x
        OBVIOUS
      <4> QED
        BY <1>2, <4>1, <4>2
    <3> HIDE DEF q
    <3>2. h * q < h * 101
      <4>1. h * 101 = 100 * h + h
        BY <2>2
      <4>2. h * q \in Nat
        BY <2>2, <3>1
      <4> QED
        BY <1>2, <1>5, <2>2, <2>3, <3>1, <4>1, <4>2
    <3>3. q < 101
      BY <2>2, <2>3, <3>1, <3>2
    <3> QED
      BY <3>1, <3>3 DEF q
  <2> QED
    BY <2>1, <2>4 DEF h
<1> QED
  BY <1>2, <1>3, <1>4, <1>5

LEMMA MeasureInRange == LoopInv => MeasurementInRange
<1> SUFFICES ASSUME LoopInv, Encodes(acct)
             PROVE  Measure(EncodeBenefit(acct)) \in
                      [ratio : 0 .. 100, benefit : 0 .. Saved(hash_strength)]
  BY DEF MeasurementInRange
<1> DEFINE e == EncodeBenefit(acct)
           s == Saved(hash_strength)
<1>1. /\ e \in Accounts /\ e.benefit_scanned = AllPages
      /\ e.benefit_pos = acct.benefit_pos + acct.rshash_pos
  BY RoundEncoded
<1>2. /\ AllPages \in Nat \ {0} /\ s \in Nat /\ e.benefit_pos = AllPages * s
      /\ e.benefit_neg \in Nat
  <2>1. Fresh(acct) \in Nat /\ Fresh(acct) # 0 /\ acct.benefit_scanned \in Nat
    BY FreshPages, AccountFacts DEF LoopInv, LoopTypes, Encodes
  <2>2. AllPages \in Nat \ {0}
    BY <2>1 DEF AllPages
  <2>3. s \in Nat
    BY SavedRange DEF LoopInv, TypeInv, TypeOK
  <2>4. e.benefit_pos = AllPages * s
    BY <1>1 DEF LoopInv, CreditsAreCurrent, AllPages
  <2>5. e.benefit_neg \in Nat
    BY <1>1, AccountFacts
  <2> QED
    BY <2>2, <2>3, <2>4, <2>5
<1>3. NetBenefit(e) \in 0 .. s
  <2>1. CASE e.benefit_neg > e.benefit_pos
    BY <1>2, <2>1 DEF NetBenefit
  <2>2. CASE ~(e.benefit_neg > e.benefit_pos)
    <3> DEFINE x == e.benefit_pos - e.benefit_neg
               q == x \div AllPages
    <3>1. NetBenefit(e) = q
      BY <1>1, <2>2 DEF NetBenefit
    <3>2. x \in Nat /\ x <= AllPages * s
      <4>1. AllPages * s \in Nat
        BY <1>2
      <4> HIDE DEF e, s
      <4> QED
        BY <1>2, <2>2, <4>1
    <3> HIDE DEF x
    <3>3. q \in Nat /\ AllPages * q <= x
      <4>1. \A y \in Nat, m \in Nat \ {0} : y \div m \in Nat /\ m * (y \div m) <= y
        OBVIOUS
      <4> QED
        BY <1>2, <3>2, <4>1
    <3> HIDE DEF q, e, s
    <3>4. AllPages * q <= AllPages * s
      BY <1>2, <3>2, <3>3
    <3>5. q <= s
      BY <1>2, <3>3, <3>4
    <3> QED
      BY <1>2, <3>1, <3>3, <3>5
  <2> QED
    BY <2>1, <2>2
<1>4. NegRatio(e) \in 0 .. 100
  BY <1>1, RatioRange
<1> QED
  BY <1>3, <1>4 DEF Measure

(* A round that scanned pages ends as a round of the state machine. *)
LEMMA RoundIsScanRound ==
  ASSUME LoopInv, EndRound
  PROVE  ScanRound /\ Encodes(acct)
<1> DEFINE m == Measure(EncodeBenefit(acct))
<1>1. Encodes(acct) /\ Round(m)
  BY DEF EndRound
<1>2. m \in [ratio : 0 .. 100, benefit : 0 .. Saved(hash_strength)]
  BY <1>1, MeasureInRange DEF MeasurementInRange
<1>3. Saved(hash_strength) \in Nat /\ Saved(hash_strength) <= HASH_STRENGTH_FULL
  BY SavedRange DEF LoopInv, TypeInv, TypeOK
<1> HIDE DEF m
<1>4. m \in [ratio : 0 .. 100, benefit : 0 .. HASH_STRENGTH_FULL]
  BY <1>2, <1>3, LoopConstants
<1>5. m \in Measurements
  BY <1>4, MeasuredAssumption
<1> QED
  BY <1>1, <1>5 DEF ScanRound

LEMMA EndRoundKept ==
  ASSUME LoopInv, EndRound
  PROVE  LoopInv'
<1> DEFINE e == EncodeBenefit(acct)
<1>1. /\ ScanRound /\ Encodes(acct) /\ acct' = ResetBenefit(e) /\ calls' = 0
      /\ rebuild' \in IF hash_strength' = hash_strength THEN {0} ELSE 0 .. REBUILD_NODES
  BY RoundIsScanRound DEF EndRound
<1>2. TypeInv'
  BY <1>1, TypeInvNext DEF LoopInv, Next
<1>3. /\ e \in Accounts /\ e.rshash_pos = 0 /\ e.rshash_neg = 0
      /\ e.pages_scanned_last = e.pages_scanned
  BY <1>1, RoundEncoded
<1> HIDE DEF e
<1>4. /\ acct' \in Accounts
      /\ acct'.rshash_pos = 0 /\ acct'.rshash_neg = 0
      /\ acct'.benefit_pos = 0 /\ acct'.benefit_neg = 0
      /\ acct'.benefit_scanned = 0 /\ acct'.benefit_base = 0
      /\ acct'.pages_scanned_last = acct'.pages_scanned
  <2>1. 0 \in U64 /\ 0 \in 0 .. BASE_MAX
    BY LoopConstants, BaseAssumption DEF U64
  <2> QED
    BY <1>1, <1>3, <2>1 DEF ResetBenefit, Accounts
<1>5. Fresh(acct)' = 0
  <2>1. acct'.pages_scanned \in Nat
    BY <1>4, AccountFacts
  <2>2. acct'.pages_scanned_last <= acct'.pages_scanned
    BY <1>4, <2>1
  <2>3. Fresh(acct') = acct'.pages_scanned - acct'.pages_scanned_last
    BY <1>4, <2>2, FreshPages
  <2>4. Fresh(acct)' = Fresh(acct')
    BY DEF Fresh, Sub
  <2> QED
    BY <1>4, <2>1, <2>3, <2>4
<1>6. rebuild' \in 0 .. REBUILD_NODES /\ rebuild' \in Nat
  BY <1>1, LoopConstants
<1>7. LoopTypes'
  <2>1. acct'.pages_scanned_last <= acct'.pages_scanned
    BY <1>4, AccountFacts
  <2> QED
    BY <1>1, <1>4, <1>6, <2>1, LoopConstants DEF LoopTypes
<1>8. CreditsAreCurrent'
  <2>1. Saved(hash_strength)' \in Nat
    <3>1. hash_strength' \in Strengths
      BY <1>2 DEF TypeInv, TypeOK
    <3>2. Saved(hash_strength') \in Nat
      BY <3>1, SavedRange
    <3> QED
      BY <3>2 DEF Saved
  <2>2. (0 + 0) * Saved(hash_strength)' = 0
    BY <2>1
  <2> QED
    BY <1>4, <1>5, <2>2 DEF CreditsAreCurrent
<1>9. PagesBounded'
  BY <1>4, <1>5, LoopConstants DEF PagesBounded
<1>10. CostsBounded'
  <2>1. AllPages' = 0
    BY <1>4, <1>5 DEF AllPages
  <2>2. 0 * CallCost = 0 /\ 0 * PageCost = 0
    BY LoopConstants
  <2>3. rebuild' * HASH_STRENGTH_MAX \in Nat /\ rebuild' * HASH_STRENGTH_MAX <= RebuildCost
    <3>1. rebuild' \in Nat /\ rebuild' <= REBUILD_NODES
      BY <1>6, LoopConstants
    <3> QED
      BY <3>1, LoopConstants, ProductBound DEF RebuildCost
  <2>4. calls' * CallCost = 0 /\ AllPages' * PageCost = 0
    BY <1>1, <2>1, <2>2
  <2>5. 0 + 0 + 0 + rebuild' * HASH_STRENGTH_MAX <= RebuildCost + 0
    BY <2>3, LoopConstants
  <2>6. (CostsBounded)' <=> (acct'.benefit_neg + acct'.rshash_neg + calls' * CallCost
                               + rebuild' * HASH_STRENGTH_MAX
                                 <= RebuildCost + AllPages' * PageCost)
    BY DEF CostsBounded, RebuildCost, PageCost, CallCost, HASH_STRENGTH_MAX
  <2> QED
    BY <1>4, <2>4, <2>5, <2>6
<1> QED
  BY <1>2, <1>7, <1>8, <1>9, <1>10 DEF LoopInv

LEMMA EndEmptyRoundKept ==
  ASSUME LoopInv, EndEmptyRound
  PROVE  LoopInv'
<1>1. /\ EmptyRound /\ calls' = 0 /\ acct' = acct /\ rebuild' = rebuild
      /\ hash_strength' = hash_strength
  BY DEF EndEmptyRound, EmptyRound
<1>2. TypeInv'
  BY <1>1, TypeInvNext DEF LoopInv, Next
<1>3. LoopTypes'
  BY <1>1, LoopConstants DEF LoopInv, LoopTypes
<1>4. CreditsAreCurrent' /\ PagesBounded'
  BY <1>1 DEF LoopInv, CreditsAreCurrent, PagesBounded, Fresh, Sub, Saved
<1>5. CostsBounded'
  <2>1. AllPages' = AllPages
    BY <1>1 DEF AllPages, Fresh, Sub
  <2>2. /\ calls * CallCost \in Nat /\ rebuild * HASH_STRENGTH_MAX \in Nat
        /\ 0 * CallCost = 0
    <3>1. calls \in Nat /\ rebuild \in Nat
      BY LoopConstants DEF LoopInv, LoopTypes
    <3> QED
      BY <3>1, LoopConstants
  <2>3. acct.benefit_neg \in Nat /\ acct.rshash_neg \in Nat
    BY AccountFacts DEF LoopInv, LoopTypes
  <2>4. RebuildCost + AllPages * PageCost \in Nat
    BY LoopConstants, TotalsFit
  <2> QED
    BY <1>1, <2>1, <2>2, <2>3, <2>4 DEF LoopInv, CostsBounded
<1> QED
  BY <1>2, <1>3, <1>4, <1>5 DEF LoopInv

LEMMA LoopInvInit == RshashInit => LoopInv
<1> SUFFICES ASSUME RshashInit PROVE LoopInv
  OBVIOUS
<1>1. acct = NoAccounts /\ calls = 0 /\ rebuild = 0 /\ TypeInv
  BY TypeInvInit DEF RshashInit
<1>2. /\ acct \in Accounts
      /\ acct.rshash_pos = 0 /\ acct.rshash_neg = 0
      /\ acct.benefit_pos = 0 /\ acct.benefit_neg = 0
      /\ acct.benefit_scanned = 0 /\ acct.benefit_base = 0
      /\ acct.pages_scanned = 0 /\ acct.pages_scanned_last = 0
  <2>1. 0 \in U64 /\ 0 \in 0 .. BASE_MAX
    BY LoopConstants, BaseAssumption DEF U64
  <2> QED
    BY <1>1, <2>1 DEF NoAccounts, Accounts
<1>3. Fresh(acct) = 0
  BY <1>2, FreshPages
<1>4. LoopTypes
  BY <1>1, <1>2, LoopConstants DEF LoopTypes
<1>5. CreditsAreCurrent
  <2>1. Saved(hash_strength) \in Nat
    BY <1>1, SavedRange DEF TypeInv, TypeOK
  <2>2. (0 + 0) * Saved(hash_strength) = 0
    BY <2>1
  <2> QED
    BY <1>2, <1>3, <2>2 DEF CreditsAreCurrent
<1>6. PagesBounded
  BY <1>2, <1>3, LoopConstants DEF PagesBounded
<1>7. CostsBounded
  <2>1. AllPages = 0
    BY <1>2, <1>3 DEF AllPages
  <2>2. 0 * CallCost = 0 /\ 0 * PageCost = 0 /\ 0 * HASH_STRENGTH_MAX = 0
    BY LoopConstants
  <2> QED
    BY <1>1, <1>2, <2>1, <2>2, LoopConstants DEF CostsBounded
<1> QED
  BY <1>1, <1>4, <1>5, <1>6, <1>7 DEF LoopInv

LEMMA LoopInvNext == LoopInv /\ [RshashNext]_loopVars => LoopInv'
<1> SUFFICES ASSUME LoopInv, [RshashNext]_loopVars
             PROVE  LoopInv'
  OBVIOUS
<1>1. CASE ScanPage
  BY <1>1, ScanPageKept
<1>2. CASE ComparePages \/ HashMax \/ CheckCollision
  BY <1>2, CallsKept
<1>3. CASE EndRound
  BY <1>3, EndRoundKept
<1>4. CASE EndEmptyRound
  BY <1>4, EndEmptyRoundKept
<1>5. CASE RebuildHash
  BY <1>5, RebuildHashKept
<1>6. CASE UNCHANGED loopVars
  <2>1. /\ UNCHANGED vars /\ acct' = acct /\ calls' = calls /\ rebuild' = rebuild
        /\ hash_strength' = hash_strength
    BY <1>6 DEF loopVars, vars
  <2>2. TypeInv'
    BY <2>1, TypeInvNext DEF LoopInv
  <2>3. (LoopTypes /\ CreditsAreCurrent /\ PagesBounded /\ CostsBounded)'
    BY <2>1 DEF LoopInv, LoopTypes, CreditsAreCurrent, PagesBounded, CostsBounded,
                AllPages, Fresh, Sub, Saved
  <2> QED
    BY <2>2, <2>3 DEF LoopInv
<1> QED
  BY <1>1, <1>2, <1>3, <1>4, <1>5, <1>6 DEF RshashNext

LEMMA LoopInvariant == RshashSpec => []LoopInv
BY LoopInvInit, LoopInvNext, PTL DEF RshashSpec

(* The loop only makes rounds that HashStrength describes: what its counters *)
(* measure is always a member of Measurements, so every theorem about the    *)
(* state machine holds of it with its counters attached.                     *)
THEOREM LoopRunsTheMachine == RshashSpec => Spec
<1>1. RshashInit => Init
  BY DEF RshashInit
<1>2. LoopInv /\ [RshashNext]_loopVars => [Next]_vars
  <2> SUFFICES ASSUME LoopInv, [RshashNext]_loopVars
               PROVE  [Next]_vars
    OBVIOUS
  <2>1. CASE EndRound
    BY <2>1, RoundIsScanRound DEF Next
  <2>2. CASE EndEmptyRound
    BY <2>2 DEF EndEmptyRound, Next
  <2>3. CASE ScanPage \/ RebuildHash \/ UNCHANGED loopVars
    BY <2>3 DEF ScanPage, RebuildHash, loopVars
  <2>4. CASE ComparePages \/ HashMax \/ CheckCollision
    BY <2>4 DEF ComparePages, HashMax, CheckCollision, Call
  <2> QED
    BY <2>1, <2>2, <2>3, <2>4 DEF RshashNext
<1>3. QED
  BY LoopInvariant, <1>1, <1>2, PTL DEF RshashSpec, Spec

(* Whatever rounds, rebuilds, collisions and wraps of pages_scanned come,    *)
(* what has been saved since the last adjustment was saved at the strength   *)
(* in force.                                                                 *)
THEOREM CreditsCurrent == RshashSpec => []CreditsAreCurrent
<1>1. LoopInv => CreditsAreCurrent
  BY DEF LoopInv
<1>2. QED
  BY LoopInvariant, <1>1, PTL

(* rshash_adjust judges a percentage and a benefit per page that this        *)
(* strength can have saved.                                                  *)
THEOREM MeasurementsInRange == RshashSpec => []MeasurementInRange
BY LoopInvariant, MeasureInRange, PTL

(* At full strength nothing is saved, so a ratio is 0 or 100. *)
LEMMA FullStrengthRatio ==
  ASSUME LoopInv, Encodes(acct), hash_strength >= HASH_STRENGTH_FULL
  PROVE  LET r == Measure(EncodeBenefit(acct)).ratio
         IN /\ r = 0 \/ r = 100
            /\ r = 0 => acct.rshash_neg = 0
<1> DEFINE e == EncodeBenefit(acct)
<1>1. /\ e.benefit_pos = acct.benefit_pos + acct.rshash_pos
      /\ e.benefit_neg = acct.benefit_neg + acct.rshash_neg
  BY RoundEncoded
<1>2. e.benefit_pos = 0
  <2>1. Saved(hash_strength) = 0
    BY StrengthFacts, LoopConstants DEF Saved, LoopInv, TypeInv, TypeOK
  <2>2. acct.benefit_pos + acct.rshash_pos = AllPages * Saved(hash_strength)
    BY DEF LoopInv, CreditsAreCurrent, AllPages
  <2>3. AllPages * 0 = 0
    BY TotalsFit
  <2> QED
    BY <1>1, <2>1, <2>2, <2>3
<1>3. acct.benefit_neg \in Nat /\ acct.rshash_neg \in Nat
  BY AccountFacts DEF LoopInv, LoopTypes
<1> HIDE DEF e
<1>4. NegRatio(e) = IF e.benefit_neg = 0 THEN 0 ELSE 100
  BY <1>2 DEF NegRatio
<1>5. Measure(e).ratio = NegRatio(e)
  BY DEF Measure
<1> QED
  BY <1>1, <1>3, <1>4, <1>5 DEF e

(* A strength that saves nothing comes down only in the round that starts a  *)
(* search, or after three rounds without a single charge.                    *)
THEOREM FullStrengthStays == RshashSpec => FullStrengthHolds
<1> DEFINE Reason == ExploreNow \/ (rshash_neg_cont_zero >= 2 /\ acct.rshash_neg = 0)
<1>1. ASSUME LoopInv, [RshashNext]_loopVars, rshash_state.state = "STILL",
             hash_strength >= HASH_STRENGTH_FULL, hash_strength' < hash_strength
      PROVE  Reason
  <2>1. TypeOK /\ hash_strength \in Strengths /\ hash_strength \in Nat
    BY <1>1, StrengthFacts DEF LoopInv, TypeInv, TypeOK
  <2>2. hash_strength' # hash_strength
    BY <1>1, <2>1
  <2>3. EndRound
    <3>1. CASE ScanPage \/ RebuildHash \/ UNCHANGED loopVars
      BY <2>2, <3>1 DEF ScanPage, RebuildHash, loopVars, vars
    <3>2. CASE ComparePages \/ HashMax \/ CheckCollision
      BY <2>2, <3>2 DEF ComparePages, HashMax, CheckCollision, Call, vars
    <3>3. CASE EndEmptyRound
      BY <2>2, <3>3 DEF EndEmptyRound, EmptyRound
    <3> QED
      BY <1>1, <3>1, <3>2, <3>3 DEF RshashNext
  <2> DEFINE m == Measure(EncodeBenefit(acct))
  <2>4. Encodes(acct) /\ Adjust(m)
    BY <2>3 DEF EndRound, Round
  <2>5. /\ m.ratio = 0 \/ m.ratio = 100
        /\ m.ratio = 0 => acct.rshash_neg = 0
    BY <1>1, <2>4, FullStrengthRatio
  <2> HIDE DEF m
  <2>6. \/ \E dir \in {"GO_UP", "GO_DOWN"} : StillGo(m, dir)
        \/ StillObscure(m) \/ StillStay(m)
    BY <1>1, <2>4
    DEF Adjust, TryDownMore, TryDownEnds, TryUpMore, TryUpEnds, Settle
  <2>7. CASE StillGo(m, "GO_UP")
    <3> DEFINE d == IF "GO_UP" # rshash_state.pre_direct THEN 0 ELSE hash_strength_delta
    <3>1. d \in 0 .. HASH_STRENGTH_DELTA_MAX
      BY <2>1, StrengthAssumption DEF TypeOK
    <3>2. hash_strength' = IncStrength(hash_strength, d)
      BY <2>7 DEF StillGo, StepUp
    <3> HIDE DEF d
    <3>3. IncStrength(hash_strength, d) >= hash_strength
      BY <2>1, <3>1, IncStrengthRange
    <3>4. IncStrength(hash_strength, d) \in Nat
      BY <2>1, <3>1, IncStrengthRange, StrengthFacts
    <3> QED
      BY <1>1, <2>1, <3>2, <3>3, <3>4
  <2>8. CASE StillGo(m, "GO_DOWN")
    <3>1. Judge(m, "GO_DOWN")
      BY <2>8 DEF StillGo
    <3>2. ASSUME ~ExploreNow
          PROVE  m.ratio = 0 /\ Count(rshash_neg_cont_zero) > 2
      BY <3>1, <3>2 DEF Judge
    <3>3. Count(rshash_neg_cont_zero) > 2 => rshash_neg_cont_zero >= 2
      BY <2>1 DEF Count, Cap, TypeOK
    <3> QED
      BY <2>5, <3>2, <3>3
  <2>9. CASE StillObscure(m)
    <3>1. Judge(m, "OBSCURE")
      BY <2>9 DEF StillObscure
    <3>2. ASSUME ~ExploreNow
          PROVE  FALSE
      <4>1. m.ratio # 0 /\ m.ratio <= 90
        BY <3>1, <3>2 DEF Judge
      <4> QED
        BY <2>5, <4>1
    <3> QED
      BY <3>2
  <2>10. CASE StillStay(m)
    BY <2>2, <2>10 DEF StillStay
  <2> QED
    BY <2>6, <2>7, <2>8, <2>9, <2>10
<1>2. LoopInv /\ [RshashNext]_loopVars =>
        [rshash_state.state = "STILL" /\ hash_strength >= HASH_STRENGTH_FULL
         /\ hash_strength' < hash_strength => Reason]_loopVars
  BY <1>1
<1>3. QED
  BY LoopInvariant, <1>2, PTL DEF RshashSpec, FullStrengthHolds
=============================================================================
