-------------------------- MODULE WordHashProofs ----------------------------
(***************************************************************************)
(* Theorems about the hashes of pages: SamplingInit and SampledHash of     *)
(* dirtPages.c, then FastHash and HashKernel of hashalg.cu.  They share a  *)
(* module because both hashes are one to one for the same reasons, facts   *)
(* about powers of two, bits, ^ and odd factors that are proved once, for  *)
(* every width of a word; each theorem rests on the assumptions of its own *)
(* model alone.                                                            *)
(*                                                                         *)
(* The shuffle and the calibration, for every size of the page, random     *)
(* numbers and width of the clock.  Then, for every shifts of which four   *)
(* reach the width: the inverse macro undoes the forward one, so that      *)
(* delta_hash gives the hash random_sample_hash would, and a word that is  *)
(* sampled once shows in the hash.  Last, for every odd constants, shifts  *)
(* number of threads and contents of fresh memory: what the host prints    *)
(* for a launch that ran are the hashes of the blocks it filled, and the   *)
(* bit it flipped shows.                                                   *)
(***************************************************************************)
EXTENDS SampledHash, HashKernel, SequenceTheorems, WellFoundedInduction, TLAPS

(* While hashes are timed, less than SPAN + LAPSE has passed, so that one   *)
(* more lapse does not bring the clock round; and the pages are allocated   *)
(* only between their two ends.                                             *)
ClockInTime == pc = "hashing" => Elapsed < SPAN + LAPSE
SamplingInv ==
  /\ TypeOK /\ SamplesDistinctWords /\ ClockInTime /\ DivisorIsPositive
  /\ (pc \notin {"hashing", "comparing"} => pages = {})

-----------------------------------------------------------------------------
(* A remainder of less than twice the divisor is a difference. *)
LEMMA ModIsDifference ==
  ASSUME NEW m \in Nat \ {0}, NEW x \in Nat, x < 2 * m
  PROVE  x % m = IF x < m THEN x ELSE x - m
<1>1. CASE x < m
  BY <1>1
<1>2. CASE x >= m
  <2>1. x = 1 * m + (x - m) /\ x - m \in 0 .. m - 1
    BY <1>2
  <2>2. x % m = x - m
    BY <2>1
  <2> QED
    BY <2>2, <1>2
<1> QED
  BY <1>1, <1>2

(* When the clock moves by d, the time since t grows by d, round the end of *)
(* the clock as well.                                                       *)
LEMMA ElapsedAdvances ==
  ASSUME NEW j \in Ticks, NEW t \in Ticks, NEW d \in Nat,
         ((j + JIFFIES - t) % JIFFIES) + d < JIFFIES
  PROVE  /\ (j + d) % JIFFIES \in Ticks
         /\ (((j + d) % JIFFIES) + JIFFIES - t) % JIFFIES = ((j + JIFFIES - t) % JIFFIES) + d
<1> DEFINE e == (j + JIFFIES - t) % JIFFIES
<1>1. JIFFIES \in Nat \ {0} /\ j \in Nat /\ t \in Nat /\ j < JIFFIES /\ t < JIFFIES
  BY ClockAssumption DEF Ticks
<1>2. j + JIFFIES - t \in Nat /\ j + JIFFIES - t < 2 * JIFFIES
  BY <1>1
<1>3. e = IF j + JIFFIES - t < JIFFIES THEN j + JIFFIES - t ELSE j - t
  <2> DEFINE x == j + JIFFIES - t
  <2>1. x \in Nat /\ x < 2 * JIFFIES
    BY <1>2
  <2> HIDE DEF x
  <2>2. x % JIFFIES = IF x < JIFFIES THEN x ELSE x - JIFFIES
    BY <1>1, <2>1, ModIsDifference
  <2>3. e = IF x < JIFFIES THEN x ELSE x - JIFFIES
    BY <2>2 DEF x
  <2>4. x - JIFFIES = j - t
    BY <1>1 DEF x
  <2> QED
    BY <2>3, <2>4 DEF x
<1>4. d < JIFFIES
  BY <1>1, <1>3
<1>5. (j + d) % JIFFIES = IF j + d < JIFFIES THEN j + d ELSE j + d - JIFFIES
  <2> DEFINE x == j + d
  <2>1. x \in Nat /\ x < 2 * JIFFIES
    BY <1>1, <1>4
  <2> HIDE DEF x
  <2>2. x % JIFFIES = IF x < JIFFIES THEN x ELSE x - JIFFIES
    BY <1>1, <2>1, ModIsDifference
  <2> QED
    BY <1>1, <2>2 DEF x
<1> DEFINE j2 == (j + d) % JIFFIES
<1>6. j2 \in Nat /\ j2 < JIFFIES /\ j2 \in Ticks
  BY <1>1, <1>4, <1>5 DEF Ticks
<1>7. j2 + JIFFIES - t \in Nat /\ j2 + JIFFIES - t < 2 * JIFFIES
  BY <1>1, <1>6
<1>8. (j2 + JIFFIES - t) % JIFFIES = IF j2 + JIFFIES - t < JIFFIES THEN j2 + JIFFIES - t ELSE j2 - t
  <2> HIDE DEF j2
  <2> DEFINE x == j2 + JIFFIES - t
  <2>1. x \in Nat /\ x < 2 * JIFFIES
    BY <1>7
  <2> HIDE DEF x
  <2>2. x % JIFFIES = IF x < JIFFIES THEN x ELSE x - JIFFIES
    BY <1>1, <2>1, ModIsDifference
  <2>3. x - JIFFIES = j2 - t
    BY <1>1, <1>6 DEF x
  <2> QED
    BY <1>1, <1>6, <2>2, <2>3 DEF x
<1>9. e + d < JIFFIES
  OBVIOUS
<1>10. (j2 + JIFFIES - t) % JIFFIES = e + d
  <2> HIDE DEF e
  <2>1. j2 = IF j + d < JIFFIES THEN j + d ELSE j + d - JIFFIES
    BY <1>5
  <2> HIDE DEF j2
  <2> QED BY <1>1, <1>3, <1>4, <1>6, <1>8, <1>9, <2>1
<1> QED
  BY <1>6, <1>10

(* Exchanging two values of a permutation leaves a permutation. *)
LEMMA SwapIsPermutation ==
  ASSUME NEW f, IsPermutation(f), NEW a \in Positions, NEW b \in Positions
  PROVE  IsPermutation([f EXCEPT ![a] = f[b], ![b] = f[a]])
<1> DEFINE g == [f EXCEPT ![a] = f[b], ![b] = f[a]]
<1>1. f \in [Positions -> Positions]
  BY DEF IsPermutation
<1>2. g \in [Positions -> Positions]
  BY <1>1
<1>3. g[a] = f[b] /\ g[b] = f[a] /\ \A p \in Positions \ {a, b} : g[p] = f[p]
  BY <1>1
<1> HIDE DEF g
<1>4. \A p, q \in Positions : g[p] = g[q] => p = q
  <2> SUFFICES ASSUME NEW p \in Positions, NEW q \in Positions, g[p] = g[q]
               PROVE  p = q
    OBVIOUS
  <2>1. \A x, y \in Positions : f[x] = f[y] => x = y
    BY DEF IsPermutation
  <2> QED BY <1>3, <2>1
<1>5. \A w \in Positions : \E p \in Positions : g[p] = w
  <2> TAKE w \in Positions
  <2>1. PICK p \in Positions : f[p] = w
    BY DEF IsPermutation
  <2> QED BY <1>3, <2>1
<1> QED
  BY <1>2, <1>4, <1>5 DEF IsPermutation, g

(* The position drawn is one that no earlier swap has settled. *)
LEMMA SwapIndexIsAhead ==
  ASSUME NEW r \in RANDOM, i \in 0 .. HASH_STRENGTH_FULL - 1
  PROVE  SwapIndex(r) \in Positions /\ SwapIndex(r) >= i
<1>1. r \in Nat /\ HASH_STRENGTH_FULL - i \in Nat \ {0}
  BY SamplingAssumption
<1>2. r % (HASH_STRENGTH_FULL - i) \in 0 .. (HASH_STRENGTH_FULL - i) - 1
  BY <1>1
<1> QED
  BY <1>2, SamplingAssumption DEF SwapIndex, Positions

-----------------------------------------------------------------------------
LEMMA SamplingInitial == Init => SamplingInv
<1> SUFFICES ASSUME Init PROVE SamplingInv
  OBVIOUS
<1>1. 0 \in Ticks /\ 0 \in 0 .. HASH_STRENGTH_FULL
  BY ClockAssumption, SamplingAssumption DEF Ticks
<1> QED
  BY <1>1 DEF Init, SamplingInv, TypeOK, SamplesDistinctWords, ClockInTime, DivisorIsPositive, Places, Returns

LEMMA SamplingStep == SamplingInv /\ [Next]_vars => SamplingInv'
<1> SUFFICES ASSUME SamplingInv, [Next]_vars PROVE SamplingInv'
  OBVIOUS
<1> USE DEF SamplingInv, TypeOK, Places, Returns
<1>a. HASH_STRENGTH_FULL \in Nat \ {0} /\ JIFFIES \in Nat \ {0} /\ SPAN \in Nat \ {0} /\ LAPSE \in Nat
      /\ SPAN + 2 * LAPSE < JIFFIES
  BY SamplingAssumption, ClockAssumption
<1>b. jiffies \in Nat /\ time_start \in Nat /\ jiffies < JIFFIES /\ time_start < JIFFIES
  BY <1>a DEF Ticks
<1>c. Elapsed \in Nat /\ Elapsed < JIFFIES
  <2>1. jiffies + JIFFIES - time_start \in Nat
    BY <1>a, <1>b
  <2> QED BY <1>a, <2>1 DEF Elapsed
<1>1. CASE AllocTable
  <2>1. CASE pc' = "ENOMEM" /\ UNCHANGED sampling
    BY <1>1, <2>1 DEF AllocTable, sampling, clock, SamplesDistinctWords, ClockInTime, DivisorIsPositive
  <2>2. CASE pc' = "shuffle" /\ random_nums' = [p \in Positions |-> p] /\ i' = 0 /\ UNCHANGED state
    <3>1. IsPermutation(random_nums')
      BY <2>2 DEF IsPermutation
    <3>2. random_nums' \in [Positions -> Positions]
      BY <2>2
    <3> QED
      BY <1>1, <1>a, <2>2, <3>1, <3>2 DEF AllocTable, clock, SamplesDistinctWords, ClockInTime, DivisorIsPositive
  <2> QED BY <1>1, <2>1, <2>2 DEF AllocTable
<1>2. CASE Shuffle
  <2>1. PICK r \in RANDOM : random_nums' = Swapped(SwapIndex(r))
    BY <1>2 DEF Shuffle
  <2>2. i \in 0 .. HASH_STRENGTH_FULL - 1 /\ i \in Positions
    BY <1>2, <1>a DEF Shuffle, Positions
  <2>3. SwapIndex(r) \in Positions
    BY <2>2, SwapIndexIsAhead
  <2>4. IsPermutation(random_nums)
    BY <1>2 DEF Shuffle, SamplesDistinctWords
  <2>5. IsPermutation(random_nums')
    BY <2>1, <2>2, <2>3, <2>4, SwapIsPermutation DEF Swapped
  <2>6. random_nums' \in [Positions -> Positions]
    BY <2>5 DEF IsPermutation
  <2>7. i' \in 0 .. HASH_STRENGTH_FULL
    BY <1>2, <2>2, <1>a DEF Shuffle
  <2> QED
    BY <1>2, <2>5, <2>6, <2>7 DEF Shuffle, clock, SamplesDistinctWords, ClockInTime, DivisorIsPositive
<1>3. CASE Shuffled
  BY <1>3 DEF Shuffled, clock, SamplesDistinctWords, ClockInTime, DivisorIsPositive
<1>4. CASE AllocPages
  <2>1. CASE pc' = "ENOMEM" /\ UNCHANGED <<pages, time_start>>
    BY <1>4, <2>1 DEF AllocPages, sampling, SamplesDistinctWords, ClockInTime, DivisorIsPositive
  <2>2. CASE pc' = "hashing" /\ pages' = {"p1", "p2"} /\ time_start' = jiffies
    <3>1. (jiffies + JIFFIES - jiffies) % JIFFIES = 0
      <4>1. jiffies + JIFFIES - jiffies = JIFFIES
        BY <1>a, <1>b
      <4> QED BY <4>1, <1>a, ModIsDifference
    <3>2. Elapsed' < SPAN + LAPSE
      BY <1>4, <2>2, <3>1, <1>a DEF AllocPages, Elapsed
    <3> QED
      BY <1>4, <2>2, <3>2 DEF AllocPages, sampling, SamplesDistinctWords, ClockInTime, DivisorIsPositive
  <2> QED BY <1>4, <2>1, <2>2 DEF AllocPages
<1>5. CASE TimeHashes
  <2>1. PICK d \in 0 .. LAPSE : jiffies' = (jiffies + d) % JIFFIES
    BY <1>5 DEF TimeHashes, TimePasses
  <2>2. Elapsed < SPAN
    BY <1>5 DEF TimeHashes, GoesOn
  <2>3. d \in Nat /\ d <= LAPSE /\ Elapsed + d < JIFFIES
    BY <2>1, <2>2, <1>a, <1>c
  <2>4. jiffies' \in Ticks /\ (jiffies' + JIFFIES - time_start) % JIFFIES = Elapsed + d
    BY <2>1, <2>3, ElapsedAdvances DEF Elapsed
  <2>5. Elapsed' < SPAN + LAPSE
    BY <1>5, <2>2, <2>3, <2>4, <1>a, <1>c DEF TimeHashes, Elapsed
  <2> QED
    BY <1>5, <2>4, <2>5 DEF TimeHashes, sampling, SamplesDistinctWords, ClockInTime, DivisorIsPositive
<1>6. CASE HashCost
  <2>1. PICK d \in 0 .. LAPSE : jiffies' = (jiffies + d) % JIFFIES
    BY <1>6 DEF HashCost, TimePasses
  <2>2. Elapsed >= SPAN /\ Elapsed < SPAN + LAPSE
    BY <1>6, <1>a, <1>c DEF HashCost, GoesOn, ClockInTime
  <2>3. d \in Nat /\ d <= LAPSE /\ Elapsed + d < JIFFIES
    BY <2>1, <2>2, <1>a, <1>c
  <2>4. jiffies' \in Ticks /\ (jiffies' + JIFFIES - time_start) % JIFFIES = Elapsed + d
    BY <2>1, <2>3, ElapsedAdvances DEF Elapsed
  <2>5. hash_cost' = Elapsed + d
    BY <1>6, <2>4 DEF HashCost
  <2>6. hash_cost' \in Ticks /\ hash_cost' >= SPAN
    BY <2>2, <2>3, <2>5, <1>a, <1>c DEF Ticks
  <2> QED
    BY <1>6, <2>4, <2>6 DEF HashCost, sampling, SamplesDistinctWords, ClockInTime, DivisorIsPositive
<1>7. CASE Compare
  <2>1. PICK d \in 0 .. LAPSE : jiffies' = (jiffies + d) % JIFFIES
    BY <1>7 DEF Compare, TimePasses
  <2>2. jiffies' \in Ticks
    <3>1. jiffies + d \in Nat
      BY <1>b, <1>a, <2>1
    <3> QED BY <2>1, <3>1, <1>a DEF Ticks
  <2>3. 0 \in Ticks
    BY <1>a DEF Ticks
  <2> QED
    BY <1>7, <2>2, <2>3 DEF Compare, sampling, SamplesDistinctWords, ClockInTime, DivisorIsPositive
<1>8. CASE UNCHANGED vars
  BY <1>8 DEF vars, Elapsed, SamplesDistinctWords, ClockInTime, DivisorIsPositive, IsPermutation
<1> QED
  BY <1>1, <1>2, <1>3, <1>4, <1>5, <1>6, <1>7, <1>8 DEF Next

LEMMA SamplingInvariant == Spec => []SamplingInv
BY SamplingInitial, SamplingStep, PTL DEF Spec

-----------------------------------------------------------------------------
(* Types, for every size of page and width of clock (init_random_sampling). *)
THEOREM SamplingTypes == Spec => []TypeOK
<1>1. SamplingInv => TypeOK
  BY DEF SamplingInv
<1> QED BY <1>1, SamplingInvariant, PTL

(* The sampled positions are a permutation at every moment of the shuffle,  *)
(* for every page size and every sequence of random numbers.                *)
THEOREM ShuffleKeepsPermutation == Spec => []SamplesDistinctWords
<1>1. SamplingInv => SamplesDistinctWords
  BY DEF SamplingInv
<1> QED BY <1>1, SamplingInvariant, PTL

(* memcmp_cost is never divided by zero, wherever the clock wraps.          *)
THEOREM CostDivisorIsPositive == Spec => []DivisorIsPositive
<1>1. SamplingInv => DivisorIsPositive
  BY DEF SamplingInv
<1> QED BY <1>1, SamplingInvariant, PTL

(* The calibration returns with no page left, whether it fails or not.      *)
THEOREM CalibrationGivesPagesBack == Spec => []PagesGivenBack
<1>1. SamplingInv => PagesGivenBack
  BY DEF SamplingInv, PagesGivenBack, Returns
<1> QED BY <1>1, SamplingInvariant, PTL

(* A swap leaves the positions that earlier ones have settled.              *)
THEOREM PrefixIsSettled == Spec => SettledPrefixStays
<1>1. SamplingInv /\ [Next]_vars =>
        [pc = "shuffle" => \A p \in Positions : p < i => random_nums'[p] = random_nums[p]]_vars
  <2> SUFFICES ASSUME SamplingInv, [Next]_vars, pc = "shuffle", NEW p \in Positions, p < i
               PROVE  random_nums'[p] = random_nums[p]
    OBVIOUS
  <2>1. CASE Shuffle
    <3>1. PICK r \in RANDOM : random_nums' = Swapped(SwapIndex(r))
      BY <2>1 DEF Shuffle
    <3>2. i \in 0 .. HASH_STRENGTH_FULL - 1
      BY <2>1, SamplingAssumption DEF Shuffle, SamplingInv, TypeOK
    <3>3. SwapIndex(r) >= i /\ SwapIndex(r) \in Positions
      BY <3>2, SwapIndexIsAhead
    <3>4. p # i /\ p # SwapIndex(r)
      BY <3>2, <3>3, SamplingAssumption DEF Positions
    <3>5. random_nums \in [Positions -> Positions]
      BY DEF SamplingInv, SamplesDistinctWords, IsPermutation
    <3> QED BY <3>1, <3>4, <3>5 DEF Swapped
  <2>2. CASE ~Shuffle
    BY <2>2 DEF Next, AllocTable, Shuffled, AllocPages, TimeHashes, HashCost, Compare, sampling, vars
  <2> QED BY <2>1, <2>2
<1> QED BY <1>1, SamplingInvariant, PTL DEF Spec, SettledPrefixStays

-----------------------------------------------------------------------------
(* What is defined by recursion on a number.                               *)
LEMMA LeastNumber ==
  ASSUME NEW T \in SUBSET Nat, T # {}
  PROVE  \E x \in T : \A y \in T : x <= y
<1> DEFINE R == {ss \in Nat \X Nat : ss[1] < ss[2]}
<1>1. IsWellFoundedOn(R, Nat)
  BY NatLessThanWellFounded DEF OpToRel
<1>2. \A x, y \in Nat : x < y => <<x, y>> \in R
  OBVIOUS
<1> HIDE DEF R
<1>3. PICK x \in T : \A y \in T : ~(<<y, x>> \in R)
  BY <1>1, WFMin
<1>4. \A y \in T : x <= y
  <2> TAKE y \in T
  <2>1. ~(y < x) /\ x \in Nat /\ y \in Nat
    BY <1>2, <1>3
  <2> QED BY <2>1
<1> QED BY <1>4

(* Induction, on a set of numbers. *)
LEMMA AllNumbers ==
  ASSUME NEW S \in SUBSET Nat, 0 \in S, \A n \in S : n + 1 \in S
  PROVE  \A n \in Nat : n \in S
<1> SUFFICES ASSUME Nat \ S # {} PROVE FALSE
  OBVIOUS
<1>1. PICK m \in Nat \ S : \A n \in Nat \ S : m <= n
  BY LeastNumber
<1>2. m - 1 \in Nat /\ m - 1 \in S
  BY <1>1
<1> QED BY <1>1, <1>2

(* A function that is defined by recursion: what it is at n depends on what *)
(* it is at n - 1.                                                          *)
IsRun(f, V, b, N, step) ==
  f \in [0 .. N -> V] /\ f[0] = b /\ \A n \in 1 .. N : f[n] = step[n][f[n - 1]]

LEMMA RunExists ==
  ASSUME NEW V, NEW b \in V, NEW M \in Nat, NEW step \in [1 .. M -> [V -> V]]
  PROVE  \E f : IsRun(f, V, b, M, step)
<1> DEFINE S == {N \in Nat : N <= M => \E f : IsRun(f, V, b, N, step)}
<1>1. 0 \in S
  <2>1. IsRun([n \in 0 .. 0 |-> b], V, b, 0, step)
    BY DEF IsRun
  <2> QED BY <2>1
<1>2. ASSUME NEW N \in S PROVE N + 1 \in S
  <2> SUFFICES ASSUME N + 1 <= M PROVE \E f : IsRun(f, V, b, N + 1, step)
    OBVIOUS
  <2>1. PICK f : IsRun(f, V, b, N, step)
    OBVIOUS
  <2> DEFINE g == [n \in 0 .. N + 1 |-> IF n = N + 1 THEN step[N + 1][f[N]] ELSE f[n]]
  <2>2. step[N + 1][f[N]] \in V
    BY <2>1 DEF IsRun
  <2>3. g \in [0 .. N + 1 -> V] /\ g[0] = b
    BY <2>1, <2>2 DEF IsRun
  <2>4. ASSUME NEW n \in 1 .. N + 1 PROVE g[n] = step[n][g[n - 1]]
    <3>1. CASE n = N + 1
      BY <3>1
    <3>2. CASE n # N + 1
      <4>1. n \in 1 .. N /\ n \in 0 .. N + 1 /\ n - 1 \in 0 .. N + 1 /\ n - 1 # N + 1
        BY <3>2
      <4>2. g[n] = f[n] /\ g[n - 1] = f[n - 1]
        BY <3>2, <4>1
      <4> QED BY <2>1, <4>1, <4>2 DEF IsRun
    <3> QED BY <3>1, <3>2
  <2> HIDE DEF g
  <2> QED BY <2>3, <2>4 DEF IsRun
<1>3. \A n \in Nat : n \in S
  <2> HIDE DEF S
  <2>1. S \in SUBSET Nat
    BY DEF S
  <2> QED BY <1>1, <1>2, <2>1, AllNumbers
<1> QED BY <1>3

(* ... and two of them agree, as far as both are defined. *)
SameUpTo(f, g, M, N) == \A n \in Nat : n <= M /\ n <= N => f[n] = g[n]

SameSteps(p, q, M, N) == \A n \in Nat \ {0} : n <= M /\ n <= N => p[n] = q[n]

LEMMA RunsAgree ==
  ASSUME NEW V, NEW b, NEW M \in Nat, NEW N \in Nat, NEW p, NEW q, NEW f, NEW g,
         SameSteps(p, q, M, N),
         IsRun(f, V, b, M, p), IsRun(g, V, b, N, q)
  PROVE  SameUpTo(f, g, M, N)
<1> DEFINE S == {n \in Nat : n <= M /\ n <= N => f[n] = g[n]}
<1>1. 0 \in S
  BY DEF IsRun
<1>2. ASSUME NEW n \in S PROVE n + 1 \in S
  <2> SUFFICES ASSUME n + 1 <= M, n + 1 <= N PROVE f[n + 1] = g[n + 1]
    OBVIOUS
  <2>1. f[n] = g[n] /\ n + 1 \in 1 .. M /\ n + 1 \in 1 .. N /\ (n + 1) - 1 = n
    OBVIOUS
  <2>2. f[n + 1] = p[n + 1][f[n]] /\ g[n + 1] = q[n + 1][g[n]]
    BY <2>1 DEF IsRun
  <2> QED BY <2>1, <2>2 DEF SameSteps
<1>3. \A n \in Nat : n \in S
  <2> HIDE DEF S
  <2>1. S \in SUBSET Nat
    BY DEF S
  <2> QED BY <1>1, <1>2, <2>1, AllNumbers
<1> QED BY <1>3 DEF SameUpTo

-----------------------------------------------------------------------------
(* Powers of two. *)
DoubleNat == [m \in Nat |-> 2 * m]

LEMMA DoublingsAgree ==
  ASSUME NEW M \in Nat, NEW N \in Nat, NEW f, NEW g,
         IsRun(f, Nat, 1, M, [m \in 1 .. M |-> DoubleNat]),
         IsRun(g, Nat, 1, N, [m \in 1 .. N |-> DoubleNat])
  PROVE  SameUpTo(f, g, M, N)
<1> DEFINE p == [m \in 1 .. M |-> DoubleNat]
           q == [m \in 1 .. N |-> DoubleNat]
<1>1. SameSteps(p, q, M, N)
  BY DEF SameSteps
<1>2. IsRun(f, Nat, 1, M, p) /\ IsRun(g, Nat, 1, N, q) /\ 1 \in Nat
  OBVIOUS
<1> HIDE DEF p, q
<1> QED BY <1>1, <1>2, RunsAgree

LEMMA TwoToIs == TwoTo = [n \in Nat |-> IF n = 0 THEN 1 ELSE 2 * TwoTo[n - 1]]
<1> DEFINE step(n) == [m \in 1 .. n |-> DoubleNat]
           run(n) == CHOOSE f : IsRun(f, Nat, 1, n, step(n))
           F == [n \in Nat |-> run(n)[n]]
<1>1. DoubleNat \in [Nat -> Nat]
  BY DEF DoubleNat
<1>2. ASSUME NEW n \in Nat PROVE IsRun(run(n), Nat, 1, n, step(n))
  <2>1. step(n) \in [1 .. n -> [Nat -> Nat]]
    BY <1>1
  <2>2. \E f : IsRun(f, Nat, 1, n, step(n))
    BY <2>1, RunExists
  <2> QED BY <2>2
<1>3. ASSUME NEW n \in Nat PROVE F[n + 1] = 2 * F[n]
  <2> HIDE DEF run
  <2>1. \A m \in Nat : m <= n + 1 /\ m <= n => run(n + 1)[m] = run(n)[m]
    <3>1. IsRun(run(n + 1), Nat, 1, n + 1, step(n + 1)) /\ IsRun(run(n), Nat, 1, n, step(n))
      BY <1>2
    <3> QED BY <3>1, DoublingsAgree DEF SameUpTo
  <2>2. /\ n + 1 \in 1 .. n + 1 /\ (n + 1) - 1 = n /\ run(n + 1)[n] \in Nat
        /\ run(n + 1)[n + 1] = step(n + 1)[n + 1][run(n + 1)[n]]
    <3>1. IsRun(run(n + 1), Nat, 1, n + 1, step(n + 1))
      BY <1>2
    <3> QED BY <3>1 DEF IsRun
  <2>3. run(n + 1)[n + 1] = 2 * run(n + 1)[n]
    BY <2>2 DEF DoubleNat
  <2> QED BY <2>1, <2>3
<1>4. F[0] = 1
  <2>1. IsRun(run(0), Nat, 1, 0, step(0))
    BY <1>2
  <2> HIDE DEF run
  <2> QED BY <2>1 DEF IsRun
<1> HIDE DEF F
<1>5. F = [n \in Nat |-> IF n = 0 THEN 1 ELSE 2 * F[n - 1]]
  <2>1. ASSUME NEW n \in Nat PROVE F[n] = IF n = 0 THEN 1 ELSE 2 * F[n - 1]
    <3>1. CASE n # 0
      <4>1. n - 1 \in Nat /\ (n - 1) + 1 = n
        BY <3>1
      <4> QED BY <1>3, <3>1, <4>1
    <3> QED BY <1>4, <3>1
  <2>2. F = [n \in Nat |-> F[n]]
    BY DEF F
  <2> QED BY <2>1, <2>2
<1> QED BY <1>5 DEF TwoTo

LEMMA TwoToFacts ==
  /\ TwoTo[0] = 1
  /\ \A n \in Nat : TwoTo[n + 1] = 2 * TwoTo[n] /\ TwoTo[n] \in Nat \ {0}
<1>1. TwoTo[0] = 1
  BY TwoToIs
<1>2. ASSUME NEW n \in Nat PROVE TwoTo[n + 1] = 2 * TwoTo[n]
  <2>1. n + 1 \in Nat /\ n + 1 # 0 /\ (n + 1) - 1 = n
    OBVIOUS
  <2> QED BY <2>1, TwoToIs
<1> DEFINE S == {n \in Nat : TwoTo[n] \in Nat \ {0}}
<1>3. 0 \in S /\ \A n \in S : n + 1 \in S
  BY <1>1, <1>2
<1>4. \A n \in Nat : n \in S
  <2>1. S \in SUBSET Nat
    OBVIOUS
  <2> HIDE DEF S
  <2> QED BY <1>3, <2>1, AllNumbers
<1> QED BY <1>1, <1>2, <1>4

LEMMA TwoToSum == \A m, n \in Nat : TwoTo[m + n] = TwoTo[m] * TwoTo[n]
<1> SUFFICES ASSUME NEW m \in Nat PROVE \A n \in Nat : TwoTo[m + n] = TwoTo[m] * TwoTo[n]
  OBVIOUS
<1> DEFINE S == {n \in Nat : TwoTo[m + n] = TwoTo[m] * TwoTo[n]}
<1>1. 0 \in S
  BY TwoToFacts
<1>2. ASSUME NEW n \in S PROVE n + 1 \in S
  <2> DEFINE a == TwoTo[m]
             b == TwoTo[n]
  <2>1. TwoTo[m + (n + 1)] = 2 * TwoTo[m + n]
    <3>1. m + (n + 1) = (m + n) + 1 /\ m + n \in Nat
      OBVIOUS
    <3> QED BY <3>1, TwoToFacts
  <2>2. TwoTo[m + n] = a * b /\ TwoTo[n + 1] = 2 * b /\ a \in Nat /\ b \in Nat
    BY TwoToFacts
  <2>3. \A x, y \in Nat : 2 * (x * y) = x * (2 * y)
    OBVIOUS
  <2> HIDE DEF a, b
  <2>4. TwoTo[m + (n + 1)] = a * TwoTo[n + 1]
    BY <2>1, <2>2, <2>3
  <2> QED BY <2>4 DEF a
<1>3. \A n \in Nat : n \in S
  <2>1. S \in SUBSET Nat
    OBVIOUS
  <2> HIDE DEF S
  <2> QED BY <1>1, <1>2, <2>1, AllNumbers
<1> QED BY <1>3

LEMMA TwoToGrows == \A m, n \in Nat : m <= n => TwoTo[m] <= TwoTo[n]
<1> SUFFICES ASSUME NEW m \in Nat, NEW n \in Nat, m <= n PROVE TwoTo[m] <= TwoTo[n]
  OBVIOUS
<1>1. n - m \in Nat /\ m + (n - m) = n
  OBVIOUS
<1>2. TwoTo[n] = TwoTo[m] * TwoTo[n - m]
  BY <1>1, TwoToSum
<1>3. TwoTo[m] \in Nat \ {0} /\ TwoTo[n - m] \in Nat \ {0}
  BY <1>1, TwoToFacts
<1>4. \A x, y \in Nat \ {0} : x <= x * y
  OBVIOUS
<1> QED BY <1>2, <1>3, <1>4

LEMMA SizeFacts == Size \in Nat \ {0}
BY TwoToFacts, WidthAssumption DEF Size

-----------------------------------------------------------------------------
(* Division and bits. *)
LEMMA DivFacts ==
  ASSUME NEW x \in Nat, NEW m \in Nat \ {0}
  PROVE  x \div m \in Nat /\ m * (x \div m) <= x /\ x < m * (x \div m) + m
OBVIOUS

LEMMA DivIs ==
  ASSUME NEW x \in Nat, NEW m \in Nat \ {0}, NEW q \in Nat, m * q <= x, x < m * q + m
  PROVE  x \div m = q
<1> DEFINE p == x \div m
<1>1. p \in Nat /\ m * p <= x /\ x < m * p + m
  BY DivFacts
<1> HIDE DEF p
<1>2. ASSUME NEW a \in Nat, NEW b \in Nat, a < b PROVE m * a + m <= m * b
  <2>1. \A y, z \in Nat : z >= 1 => m * (y + z) >= m * y + m
    OBVIOUS
  <2>2. b - a \in Nat /\ b - a >= 1 /\ a + (b - a) = b
    BY <1>2
  <2> QED BY <2>1, <2>2
<1>3. ~(p < q)
  <2> SUFFICES ASSUME p < q PROVE FALSE
    OBVIOUS
  <2>1. m * p + m <= m * q
    BY <1>1, <1>2
  <2>2. m * p \in Int /\ m * q \in Int
    BY <1>1
  <2> QED BY <1>1, <2>1, <2>2
<1>4. ~(q < p)
  <2> SUFFICES ASSUME q < p PROVE FALSE
    OBVIOUS
  <2>1. m * q + m <= m * p
    BY <1>1, <1>2
  <2>2. m * p \in Int /\ m * q \in Int
    BY <1>1
  <2> QED BY <1>1, <2>1, <2>2
<1> QED BY <1>1, <1>3, <1>4 DEF p

LEMMA BitIs == ASSUME NEW x \in Nat, NEW j \in Nat PROVE Bit(x, j) \in {0, 1}
<1>1. x \div TwoTo[j] \in Nat
  BY TwoToFacts, DivFacts
<1>2. \A y \in Nat : y % 2 \in {0, 1}
  OBVIOUS
<1> QED BY <1>1, <1>2 DEF Bit

LEMMA LowBit == ASSUME NEW x \in Nat PROVE Bit(x, 0) = x % 2 /\ x = 2 * (x \div 2) + Bit(x, 0)
<1>1. x \div 1 = x /\ x = 2 * (x \div 2) + (x % 2)
  OBVIOUS
<1> QED BY <1>1, TwoToFacts DEF Bit

LEMMA NextBit ==
  ASSUME NEW x \in Nat, NEW j \in Nat PROVE Bit(x, j + 1) = Bit(x \div 2, j)
<1> DEFINE p == TwoTo[j]
           h == x \div 2
           q == h \div p
<1>1. p \in Nat \ {0} /\ TwoTo[j + 1] = 2 * p
  BY TwoToFacts
<1>2. h \in Nat /\ 2 * h <= x /\ x < 2 * h + 2
  OBVIOUS
<1> HIDE DEF p, h
<1>3. q \in Nat /\ p * q <= h /\ h < p * q + p
  BY <1>1, <1>2, DivFacts
<1> HIDE DEF q
<1>4. (2 * p) * q = 2 * (p * q) /\ p * q \in Nat /\ 2 * p \in Nat \ {0}
  BY <1>1, <1>3
<1>5. (2 * p) * q <= x /\ x < (2 * p) * q + 2 * p
  BY <1>1, <1>2, <1>3, <1>4
<1>6. x \div (2 * p) = q
  BY <1>3, <1>4, <1>5, DivIs
<1> QED BY <1>1, <1>6 DEF Bit, p, q, h

(* A number below 2^n is told by its n bits. *)
LEMMA BitsTell ==
  ASSUME NEW n \in Nat, NEW x \in 0 .. TwoTo[n] - 1, NEW y \in 0 .. TwoTo[n] - 1,
         \A j \in 0 .. n - 1 : Bit(x, j) = Bit(y, j)
  PROVE  x = y
<1> DEFINE Told(u, v, w) == (\A j \in 0 .. w - 1 : Bit(u, j) = Bit(v, j)) => u = v
           S == {w \in Nat : \A u, v \in 0 .. TwoTo[w] - 1 : Told(u, v, w)}
<1>1. 0 \in S
  BY TwoToFacts
<1>2. ASSUME NEW w \in S PROVE w + 1 \in S
  <2> SUFFICES ASSUME NEW u \in 0 .. TwoTo[w + 1] - 1, NEW v \in 0 .. TwoTo[w + 1] - 1,
                      \A j \in 0 .. (w + 1) - 1 : Bit(u, j) = Bit(v, j)
               PROVE  u = v
    OBVIOUS
  <2>1. TwoTo[w + 1] = 2 * TwoTo[w] /\ TwoTo[w] \in Nat /\ u \in Nat /\ v \in Nat
    BY TwoToFacts
  <2>2. u \div 2 \in 0 .. TwoTo[w] - 1 /\ v \div 2 \in 0 .. TwoTo[w] - 1
    BY <2>1
  <2>3. ASSUME NEW j \in 0 .. w - 1 PROVE Bit(u \div 2, j) = Bit(v \div 2, j)
    <3>1. j \in Nat /\ j + 1 \in 0 .. (w + 1) - 1
      OBVIOUS
    <3>2. Bit(u, j + 1) = Bit(v, j + 1)
      BY <3>1
    <3> QED BY <2>1, <3>1, <3>2, NextBit
  <2>4. u \div 2 = v \div 2
    <3>1. Told(u \div 2, v \div 2, w)
      BY <2>2
    <3> QED BY <2>3, <3>1
  <2>5. Bit(u, 0) = Bit(v, 0)
    <3>1. 0 \in 0 .. (w + 1) - 1
      OBVIOUS
    <3> QED BY <3>1
  <2> QED BY <2>1, <2>4, <2>5, LowBit
<1>3. \A w \in Nat : w \in S
  <2>1. S \in SUBSET Nat
    OBVIOUS
  <2> HIDE DEF S
  <2> QED BY <1>1, <1>2, <2>1, AllNumbers
<1>4. Told(x, y, n)
  BY <1>3
<1> QED BY <1>4

(* ... and any n bits make one. *)
LEMMA BitsMake ==
  ASSUME NEW n \in Nat, NEW b \in [Nat -> {0, 1}]
  PROVE  \E x \in 0 .. TwoTo[n] - 1 : \A j \in 0 .. n - 1 : Bit(x, j) = b[j]
<1> DEFINE Made(c, w) == \E x \in 0 .. TwoTo[w] - 1 : \A j \in 0 .. w - 1 : Bit(x, j) = c[j]
           S == {w \in Nat : \A c \in [Nat -> {0, 1}] : Made(c, w)}
<1>1. 0 \in S
  BY TwoToFacts
<1>2. ASSUME NEW w \in S PROVE w + 1 \in S
  <2> SUFFICES ASSUME NEW c \in [Nat -> {0, 1}]
               PROVE  \E x \in 0 .. TwoTo[w + 1] - 1 : \A j \in 0 .. (w + 1) - 1 : Bit(x, j) = c[j]
    OBVIOUS
  <2> DEFINE d == [j \in Nat |-> c[j + 1]]
  <2>1. d \in [Nat -> {0, 1}] /\ \A j \in Nat : d[j] = c[j + 1]
    OBVIOUS
  <2>2. Made(d, w)
    BY <2>1
  <2>3. PICK y \in 0 .. TwoTo[w] - 1 : \A j \in 0 .. w - 1 : Bit(y, j) = d[j]
    BY <2>2
  <2> HIDE DEF d
  <2> DEFINE x == 2 * y + c[0]
  <2>4. c[0] \in {0, 1} /\ TwoTo[w + 1] = 2 * TwoTo[w] /\ TwoTo[w] \in Nat
    BY TwoToFacts
  <2>5. x \in 0 .. TwoTo[w + 1] - 1 /\ x \in Nat /\ x \div 2 = y /\ x % 2 = c[0]
    BY <2>3, <2>4
  <2> HIDE DEF x
  <2>6. ASSUME NEW j \in 0 .. (w + 1) - 1 PROVE Bit(x, j) = c[j]
    <3>1. CASE j = 0
      BY <2>5, <3>1, LowBit
    <3>2. CASE j # 0
      <4>1. j - 1 \in 0 .. w - 1 /\ j - 1 \in Nat /\ (j - 1) + 1 = j
        BY <3>2
      <4>2. Bit(x, j) = Bit(y, j - 1)
        BY <2>5, <4>1, NextBit
      <4> QED BY <2>1, <2>3, <4>1, <4>2
    <3> QED BY <3>1, <3>2
  <2> QED BY <2>5, <2>6
<1>3. \A w \in Nat : w \in S
  <2>1. S \in SUBSET Nat
    OBVIOUS
  <2> HIDE DEF S
  <2> QED BY <1>1, <1>2, <2>1, AllNumbers
<1>4. Made(b, n)
  BY <1>3
<1> QED BY <1>4

LEMMA HighBits ==
  ASSUME NEW x \in Word, NEW j \in Nat, j >= WIDTH PROVE Bit(x, j) = 0
<1>1. x \in Nat /\ x < TwoTo[j] /\ TwoTo[j] \in Nat \ {0}
  BY SizeFacts, TwoToFacts, TwoToGrows, WidthAssumption DEF Word, Size
<1>2. TwoTo[j] * 0 = 0
  BY <1>1
<1>3. x \div TwoTo[j] = 0
  BY <1>1, <1>2, DivIs
<1> QED BY <1>3 DEF Bit

(* A shift to the right moves the bits. *)
LEMMA ShiftedBit ==
  ASSUME NEW x \in Nat, NEW n \in Nat, NEW j \in Nat
  PROVE  x \div TwoTo[n] \in Nat /\ Bit(x \div TwoTo[n], j) = Bit(x, j + n)
<1> DEFINE p == TwoTo[n]
           r == TwoTo[j]
           y == x \div p
           q == y \div r
<1>1. p \in Nat \ {0} /\ r \in Nat \ {0} /\ TwoTo[j + n] = r * p
  BY TwoToFacts, TwoToSum
<1> HIDE DEF p, r
<1>2. y \in Nat /\ p * y <= x /\ x < p * y + p
  BY <1>1, DivFacts
<1> HIDE DEF y
<1>3. q \in Nat /\ r * q <= y /\ y < r * q + r
  BY <1>1, <1>2, DivFacts
<1> HIDE DEF q
<1>4. (r * p) * q = p * (r * q) /\ (r * p) * q + r * p = p * (r * q + r)
  BY <1>1, <1>3
<1>5. p * (r * q) <= p * y
  BY <1>1, <1>2, <1>3
<1>6. p * y + p <= p * (r * q + r)
  <2>1. \A u, v \in Nat : u + 1 <= v => p * u + p <= p * v
    BY <1>1
  <2>2. r * q + r \in Nat /\ y + 1 <= r * q + r
    BY <1>1, <1>2, <1>3
  <2> QED BY <1>2, <2>1, <2>2
<1>7. r * p \in Nat \ {0} /\ (r * p) * q \in Nat /\ p * y \in Nat /\ p * (r * q + r) \in Nat
  BY <1>1, <1>2, <1>3
<1> DEFINE m == r * p
<1>8. m \in Nat \ {0} /\ m * q \in Nat /\ m * q <= x /\ x < m * q + m
  BY <1>1, <1>2, <1>3, <1>4, <1>5, <1>6, <1>7
<1> HIDE DEF m
<1>9. x \div m = q
  BY <1>3, <1>8, DivIs
<1> QED BY <1>1, <1>2, <1>9 DEF Bit, p, r, y, q, m

-----------------------------------------------------------------------------
(* ^ on words. *)
LEMMA XorIs ==
  ASSUME NEW a \in Word, NEW c \in Word
  PROVE  /\ Xor(a, c) \in Word
         /\ \A j \in Nat : Bit(Xor(a, c), j) = (Bit(a, j) + Bit(c, j)) % 2
<1> DEFINE Added(x) == \A j \in 0 .. WIDTH - 1 : Bit(x, j) = (Bit(a, j) + Bit(c, j)) % 2
           b == [j \in Nat |-> (Bit(a, j) + Bit(c, j)) % 2]
           y == Xor(a, c)
<1>1. a \in Nat /\ c \in Nat /\ WIDTH \in Nat
  BY SizeFacts, WidthAssumption DEF Word
<1>2. \A j \in Nat : Bit(a, j) \in {0, 1} /\ Bit(c, j) \in {0, 1}
  BY <1>1, BitIs
<1>3. b \in [Nat -> {0, 1}] /\ \A j \in Nat : b[j] = (Bit(a, j) + Bit(c, j)) % 2
  BY <1>2
<1>4. \E x \in Word : Added(x)
  <2> HIDE DEF b
  <2>1. PICK x \in 0 .. TwoTo[WIDTH] - 1 : \A j \in 0 .. WIDTH - 1 : Bit(x, j) = b[j]
    BY <1>1, <1>3, BitsMake
  <2> QED BY <1>1, <1>3, <2>1 DEF Word, Size
<1>5. y = CHOOSE x \in Word : Added(x)
  BY DEF Xor
<1> HIDE DEF y, b
<1>6. y \in Word /\ Added(y)
  BY <1>4, <1>5
<1>7. ASSUME NEW j \in Nat PROVE Bit(y, j) = (Bit(a, j) + Bit(c, j)) % 2
  <2>1. CASE j < WIDTH
    <3>1. j \in 0 .. WIDTH - 1
      BY <1>1, <2>1
    <3> QED BY <1>6, <3>1
  <2>2. CASE j >= WIDTH
    <3>1. Bit(y, j) = 0 /\ Bit(a, j) = 0 /\ Bit(c, j) = 0
      BY <1>6, <2>2, HighBits
    <3> QED BY <3>1
  <2> QED BY <1>1, <2>1, <2>2
<1> QED BY <1>6, <1>7 DEF y

(* A word shifted to the right is a word. *)
LEMMA ShiftedWord ==
  ASSUME NEW h \in Word, NEW n \in Nat PROVE h \div TwoTo[n] \in Word
<1> DEFINE p == TwoTo[n]
           q == h \div p
<1>1. p \in Nat \ {0} /\ h \in Nat /\ Size \in Nat \ {0}
  BY TwoToFacts, SizeFacts DEF Word
<1> HIDE DEF p
<1>2. q \in Nat /\ p * q <= h
  BY <1>1, DivFacts
<1> HIDE DEF q
<1>3. q <= p * q
  BY <1>1, <1>2
<1>4. q <= h
  BY <1>1, <1>2, <1>3
<1> QED BY <1>1, <1>2, <1>4 DEF Word, p, q

-----------------------------------------------------------------------------
(* hash ^ (hash >> n), twice with different n, and its inverse.            *)
LEMMA XorShiftIs ==
  ASSUME NEW h \in Word, NEW n \in {shiftr, 2 * shiftr}
  PROVE  /\ XorShift[n][h] \in Word
         /\ \A j \in Nat : Bit(XorShift[n][h], j) = (Bit(h, j) + Bit(h, j + n)) % 2
<1> DEFINE s == h \div TwoTo[n]
<1>1. n \in Nat /\ h \in Nat
  BY ShiftAssumption, SizeFacts DEF Word
<1>2. s \in Word /\ \A j \in Nat : Bit(s, j) = Bit(h, j + n)
  BY <1>1, ShiftedBit, ShiftedWord
<1>3. XorShift[n][h] = Xor(h, s)
  BY DEF XorShift
<1> HIDE DEF s
<1> QED BY <1>2, <1>3, XorIs

(* The two shifts of HASH_FROM_DOWN_TO undo the one of HASH_FROM_TO.        *)
LEMMA XorShiftUndone ==
  ASSUME NEW h \in Word
  PROVE  XorShift[2 * shiftr][XorShift[shiftr][XorShift[shiftr][h]]] = h
<1> DEFINE r == shiftr
           a == XorShift[r][h]
           b == XorShift[r][a]
           c == XorShift[2 * r][b]
<1>1. r \in Nat /\ 2 * r \in Nat /\ 4 * r \in Nat /\ 4 * r >= WIDTH /\ WIDTH \in Nat
  BY WidthAssumption, ShiftAssumption
<1>2. /\ r \in {shiftr, 2 * shiftr} /\ 2 * r \in {shiftr, 2 * shiftr}
  OBVIOUS
<1>3. a \in Word /\ \A j \in Nat : Bit(a, j) = (Bit(h, j) + Bit(h, j + r)) % 2
  BY <1>2, XorShiftIs
<1> HIDE DEF a
<1>4. b \in Word /\ \A j \in Nat : Bit(b, j) = (Bit(a, j) + Bit(a, j + r)) % 2
  BY <1>2, <1>3, XorShiftIs
<1> HIDE DEF b
<1>5. c \in Word /\ \A j \in Nat : Bit(c, j) = (Bit(b, j) + Bit(b, j + 2 * r)) % 2
  BY <1>2, <1>4, XorShiftIs
<1> HIDE DEF c, r
<1>6. \A x, y, z \in {0, 1} : (((x + y) % 2) + ((y + z) % 2)) % 2 = (x + z) % 2
  OBVIOUS
<1>7. \A j \in Nat : Bit(h, j) \in {0, 1}
  BY BitIs, SizeFacts DEF Word
<1>8. ASSUME NEW j \in Nat PROVE Bit(b, j) = (Bit(h, j) + Bit(h, j + 2 * r)) % 2
  <2>1. j + r \in Nat /\ j + 2 * r \in Nat /\ (j + r) + r = j + 2 * r
    BY <1>1
  <2>2. Bit(a, j + r) = (Bit(h, j + r) + Bit(h, j + 2 * r)) % 2
    BY <1>3, <2>1
  <2> QED BY <1>3, <1>4, <1>6, <1>7, <2>1, <2>2
<1>9. ASSUME NEW j \in 0 .. WIDTH - 1 PROVE Bit(c, j) = Bit(h, j)
  <2>1. j \in Nat /\ j + 2 * r \in Nat /\ j + 4 * r \in Nat /\ (j + 2 * r) + 2 * r = j + 4 * r
        /\ j + 4 * r >= WIDTH
    BY <1>1
  <2>2. Bit(b, j + 2 * r) = (Bit(h, j + 2 * r) + Bit(h, j + 4 * r)) % 2
    BY <1>8, <2>1
  <2>3. Bit(h, j + 4 * r) = 0
    BY <2>1, HighBits
  <2>4. Bit(c, j) = (Bit(h, j) + 0) % 2
    BY <1>5, <1>6, <1>7, <1>8, <2>1, <2>2, <2>3
  <2>5. \A x \in {0, 1} : (x + 0) % 2 = x
    OBVIOUS
  <2> QED BY <1>7, <2>1, <2>4, <2>5
<1>10. c = h
  BY <1>1, <1>5, <1>9, BitsTell DEF Word, Size
<1> QED BY <1>10 DEF a, b, c, r

-----------------------------------------------------------------------------
(* Arithmetic on words, modulo Size. *)
Cong(a, b) == \E q \in Int : a = b + Size * q

LEMMA ModFacts ==
  ASSUME NEW a \in Int PROVE a % Size \in Word /\ Cong(a, a % Size) /\ Cong(a % Size, a)
<1> DEFINE m == Size
<1>1. m \in Nat \ {0}
  BY SizeFacts
<1> HIDE DEF m
<1>2. a % m \in 0 .. m - 1 /\ a = m * (a \div m) + (a % m) /\ a \div m \in Int
  BY <1>1
<1>3. a = (a % m) + m * (a \div m) /\ a % m = a + m * (-(a \div m)) /\ -(a \div m) \in Int
  BY <1>1, <1>2
<1> QED BY <1>2, <1>3 DEF m, Cong, Word

LEMMA CongEqual == ASSUME NEW a \in Word, NEW b \in Word, Cong(a, b) PROVE a = b
<1> DEFINE m == Size
<1>1. m \in Nat \ {0} /\ a \in 0 .. m - 1 /\ b \in 0 .. m - 1
  BY SizeFacts DEF Word
<1>2. PICK q \in Int : a = b + m * q
  BY DEF Cong
<1> HIDE DEF m
<1>3. ~(q >= 1)
  <2>1. q >= 1 => m * q >= m
    BY <1>1
  <2> QED BY <1>1, <1>2, <2>1
<1>4. ~(q <= -1)
  <2>1. q <= -1 => m * q <= -m
    BY <1>1
  <2> QED BY <1>1, <1>2, <2>1
<1> QED BY <1>1, <1>2, <1>3, <1>4

LEMMA CongTrans ==
  ASSUME NEW a \in Int, NEW b \in Int, NEW c \in Int, Cong(a, b), Cong(b, c)
  PROVE  Cong(a, c)
<1> DEFINE m == Size
<1>1. PICK q \in Int : a = b + m * q
  BY DEF Cong
<1>2. PICK r \in Int : b = c + m * r
  BY DEF Cong
<1>3. m \in Int
  BY SizeFacts
<1> HIDE DEF m
<1>4. a = c + m * (q + r) /\ q + r \in Int
  BY <1>1, <1>2, <1>3
<1> QED BY <1>4 DEF Cong, m

LEMMA CongAdd ==
  ASSUME NEW a \in Int, NEW b \in Int, NEW c \in Int, NEW d \in Int, Cong(a, b), Cong(c, d)
  PROVE  Cong(a + c, b + d) /\ Cong(a - c, b - d)
<1> DEFINE m == Size
<1>1. PICK q \in Int : a = b + m * q
  BY DEF Cong
<1>2. PICK r \in Int : c = d + m * r
  BY DEF Cong
<1>3. m \in Int
  BY SizeFacts
<1> HIDE DEF m
<1>4. a + c = (b + d) + m * (q + r) /\ a - c = (b - d) + m * (q - r) /\ q + r \in Int /\ q - r \in Int
  BY <1>1, <1>2, <1>3
<1> QED BY <1>4 DEF Cong, m

LEMMA CongTimes ==
  ASSUME NEW a \in Int, NEW b \in Int, NEW c \in Int, Cong(a, b)
  PROVE  Cong(a * c, b * c)
<1> DEFINE m == Size
<1>1. PICK q \in Int : a = b + m * q
  BY DEF Cong
<1>3. m \in Int
  BY SizeFacts
<1> HIDE DEF m
<1>4. a * c = b * c + m * (q * c) /\ q * c \in Int
  BY <1>1, <1>3
<1> QED BY <1>4 DEF Cong, m

LEMMA CongSame == ASSUME NEW a \in Int, NEW q \in Int PROVE Cong(a, a) /\ Cong(a + Size * q, a)
<1>1. Size \in Int /\ a = a + Size * 0
  BY SizeFacts
<1> QED BY <1>1 DEF Cong

-----------------------------------------------------------------------------
(* One word of the hash and one word undone.                               *)
LEMMA MixType ==
  ASSUME NEW h \in Word, NEW w \in Word PROVE Mix(h, w) \in Word /\ Unmix(h, w) \in Word
<1>1. h \in Int /\ w \in Int /\ TwoTo[shiftl] \in Int /\ TwoTo[2 * shiftl] \in Int /\ Size \in Int
  BY SizeFacts, TwoToFacts, WidthAssumption, ShiftAssumption DEF Word
<1>2. shiftr \in {shiftr, 2 * shiftr} /\ 2 * shiftr \in {shiftr, 2 * shiftr}
  OBVIOUS
<1>3. Mix(h, w) \in Word
  <2> DEFINE sum == (h + w) % Size
             v == (sum + sum * TwoTo[shiftl]) % Size
  <2>1. sum \in Word /\ sum \in Int
    <3>1. h + w \in Int
      BY <1>1
    <3> QED BY <3>1, ModFacts DEF Word
  <2> HIDE DEF sum
  <2>2. sum * TwoTo[shiftl] \in Int
    BY <1>1, <2>1
  <2>3. v \in Word
    BY <2>1, <2>2, ModFacts
  <2> HIDE DEF v
  <2>4. XorShift[shiftr][v] \in Word
    BY <1>2, <2>3, XorShiftIs
  <2> QED BY <2>4 DEF Mix, v, sum
<1>4. Unmix(h, w) \in Word
  <2> DEFINE x == XorShift[2 * shiftr][XorShift[shiftr][h]]
             y == (x + Size * Size - x * TwoTo[shiftl]) % Size
             z == (y + y * TwoTo[2 * shiftl] + Size - w) % Size
  <2>1. XorShift[shiftr][h] \in Word
    BY <1>2, XorShiftIs
  <2>2. x \in Word /\ x \in Int
    BY <1>2, <2>1, XorShiftIs DEF Word
  <2> HIDE DEF x
  <2>3. x + Size * Size - x * TwoTo[shiftl] \in Int
    BY <1>1, <2>2
  <2>4. y \in Word /\ y \in Int
    BY <2>3, ModFacts DEF Word
  <2> HIDE DEF y
  <2>5. y + y * TwoTo[2 * shiftl] + Size - w \in Int
    BY <1>1, <2>4
  <2>6. z \in Word
    BY <2>5, ModFacts
  <2> QED BY <2>6 DEF Unmix, x, y, z
<1> QED BY <1>3, <1>4

(* (1 + L)(1 - L)(1 + L * L) = 1 - 2^(4 * shiftl), which is 1 modulo Size. *)
LEMMA AddsUndone ==
  ASSUME NEW s \in Word,
         NEW x \in Word, Cong(x, s + s * TwoTo[shiftl]),
         NEW y \in Word, Cong(y, x + Size * Size - x * TwoTo[shiftl])
  PROVE  Cong(y + y * TwoTo[2 * shiftl], s)
<1> DEFINE L == TwoTo[shiftl]
           M == TwoTo[2 * shiftl]
           m == Size
<1>1. /\ m \in Int /\ L \in Int /\ M \in Int /\ s \in Int /\ x \in Int /\ y \in Int /\ m * m \in Int
      /\ s * L \in Int /\ x * L \in Int /\ y * M \in Int
  BY SizeFacts, TwoToFacts, WidthAssumption, ShiftAssumption DEF Word
<1>2. /\ shiftl \in Nat /\ 2 * shiftl \in Nat /\ shiftl + shiftl = 2 * shiftl
      /\ 2 * shiftl + 2 * shiftl = 4 * shiftl
      /\ 4 * shiftl - WIDTH \in Nat /\ WIDTH \in Nat /\ WIDTH + (4 * shiftl - WIDTH) = 4 * shiftl
  BY WidthAssumption, ShiftAssumption
<1>3. M = L * L
  BY <1>2, TwoToSum
<1>4. PICK B \in Int : M * M = m * B
  <2>1. M * M = TwoTo[4 * shiftl] /\ TwoTo[4 * shiftl] = m * TwoTo[4 * shiftl - WIDTH]
    BY <1>2, TwoToSum DEF Size
  <2>2. TwoTo[4 * shiftl - WIDTH] \in Int
    BY <1>2, TwoToFacts
  <2> QED BY <2>1, <2>2
<1>5. Cong(x, s + s * L) /\ Cong(y, x + m * m - x * L)
  OBVIOUS
<1>6. Cong(x - x * L, (s + s * L) - (s + s * L) * L)
  <2>1. s + s * L \in Int /\ (s + s * L) * L \in Int
    BY <1>1
  <2>2. Cong(x * L, (s + s * L) * L)
    BY <1>1, <1>5, <2>1, CongTimes
  <2> QED BY <1>1, <1>5, <2>1, <2>2, CongAdd
<1>7. (s + s * L) - (s + s * L) * L = s - s * M /\ s - s * M \in Int /\ s * M \in Int
  <2> HIDE DEF L, M, m
  <2>1. (s + s * L) * L = s * L + s * (L * L)
    BY <1>1
  <2> QED BY <1>1, <1>3, <2>1
<1>8. Cong(y, x - x * L)
  <2>1. x + m * m - x * L = (x - x * L) + m * m
    <3> HIDE DEF L, m
    <3> QED BY <1>1
  <2>2. x - x * L \in Int /\ x + m * m - x * L \in Int
    BY <1>1
  <2>3. Cong((x - x * L) + m * m, x - x * L)
    BY <1>1, <2>2, CongSame
  <2> QED BY <1>1, <1>5, <2>1, <2>2, <2>3, CongTrans
<1>9. Cong(y, s - s * M)
  <2>1. x - x * L \in Int
    BY <1>1
  <2> QED BY <1>1, <1>6, <1>7, <1>8, <2>1, CongTrans
<1>10. Cong(y + y * M, (s - s * M) + (s - s * M) * M)
  <2>1. (s - s * M) * M \in Int
    BY <1>1, <1>7
  <2>2. Cong(y * M, (s - s * M) * M)
    BY <1>1, <1>7, <1>9, CongTimes
  <2> QED BY <1>1, <1>7, <1>9, <2>1, <2>2, CongAdd
<1>11. (s - s * M) + (s - s * M) * M = s + m * (-(s * B)) /\ -(s * B) \in Int
  <2> HIDE DEF L, M, m
  <2>1. (s - s * M) * M = s * M - s * (M * M)
    BY <1>1
  <2>2. s * (m * B) = m * (s * B) /\ m * (-(s * B)) = -(m * (s * B)) /\ s * B \in Int
    BY <1>1, <1>4
  <2>3. s * (M * M) = m * (s * B)
    BY <1>4, <2>2
  <2>4. m * (s * B) \in Int
    BY <1>1, <2>2
  <2>5. (s - s * M) + (s - s * M) * M = s - m * (s * B)
    BY <1>1, <1>7, <2>1, <2>3, <2>4
  <2> QED BY <1>1, <2>2, <2>4, <2>5
<1>12. Cong(s + m * (-(s * B)), s)
  BY <1>1, <1>11, CongSame
<1>13. y + y * M \in Int /\ s + m * (-(s * B)) \in Int
  BY <1>1, <1>11
<1> QED BY <1>1, <1>10, <1>11, <1>12, <1>13, CongTrans

(* One iteration of HASH_FROM_DOWN_TO undoes one of HASH_FROM_TO. *)
LEMMA UnmixMix ==
  ASSUME NEW h \in Word, NEW w \in Word PROVE Unmix(Mix(h, w), w) = h
<1> DEFINE L == TwoTo[shiftl]
           M == TwoTo[2 * shiftl]
           s == (h + w) % Size
           x == (s + s * L) % Size
           y == (x + Size * Size - x * L) % Size
           z == (y + y * M + Size - w) % Size
<1>1. h \in Int /\ w \in Int /\ L \in Int /\ M \in Int /\ Size \in Int /\ Size * Size \in Int
  BY SizeFacts, TwoToFacts, WidthAssumption, ShiftAssumption DEF Word
<1>2. s \in Word /\ s \in Int /\ Cong(s, h + w)
  <2>1. h + w \in Int
    BY <1>1
  <2> QED BY <2>1, ModFacts DEF Word
<1> HIDE DEF s
<1>3. x \in Word /\ x \in Int /\ Cong(x, s + s * L)
  <2>1. s + s * L \in Int
    BY <1>1, <1>2
  <2> QED BY <2>1, ModFacts DEF Word
<1> HIDE DEF x
<1>4. y \in Word /\ y \in Int /\ Cong(y, x + Size * Size - x * L)
  <2>1. x + Size * Size - x * L \in Int
    BY <1>1, <1>3
  <2> QED BY <2>1, ModFacts DEF Word
<1> HIDE DEF y
<1>5. z \in Word /\ Cong(z, y + y * M + Size - w)
  <2>1. y + y * M + Size - w \in Int
    BY <1>1, <1>4
  <2> QED BY <2>1, ModFacts
<1> HIDE DEF z
<1>6. Cong(y + y * M, s)
  BY <1>2, <1>3, <1>4, AddsUndone
<1>7. z = h
  <2> DEFINE c == y + y * M
             m == Size
  <2>1. c \in Int /\ z \in Int /\ m \in Int
    BY <1>1, <1>4, <1>5 DEF Word
  <2>2. Cong(c, s) /\ Cong(s, h + w) /\ Cong(z, c + m - w)
    BY <1>2, <1>5, <1>6
  <2> HIDE DEF c
  <2>3. Cong(c, h + w)
    BY <1>1, <1>2, <2>1, <2>2, CongTrans
  <2>4. Cong(m, 0)
    <3>1. m = 0 + m * 1
      BY <2>1
    <3> QED BY <3>1 DEF Cong
  <2>5. Cong(c + m, (h + w) + 0)
    BY <1>1, <2>1, <2>3, <2>4, CongAdd
  <2>6. Cong(w, w)
    BY <1>1, CongSame
  <2>7. Cong(c + m - w, ((h + w) + 0) - w)
    BY <1>1, <2>1, <2>5, <2>6, CongAdd
  <2>8. ((h + w) + 0) - w = h /\ c + m - w \in Int
    BY <1>1, <2>1
  <2>9. Cong(z, h)
    BY <1>1, <2>1, <2>2, <2>7, <2>8, CongTrans
  <2> QED BY <1>5, <2>9, CongEqual
<1>8. Unmix(Mix(h, w), w) = z
  <2>1. XorShift[2 * shiftr][XorShift[shiftr][XorShift[shiftr][x]]] = x
    BY <1>3, XorShiftUndone
  <2>2. Mix(h, w) = XorShift[shiftr][x]
    BY DEF Mix, x, s
  <2> QED BY <2>1, <2>2 DEF Unmix, y, z
<1> QED BY <1>7, <1>8

-----------------------------------------------------------------------------
(* The macros.                                                             *)
(* Pages of words, sampled by a table of positions. *)
PageWords == [Positions -> Word]
TableTyped == random_nums \in [Positions -> Positions]
Ends == 0 .. HASH_STRENGTH_FULL

UpSteps(k, from, N) ==
  [n \in 1 .. N |-> [v \in Word |-> Mix(v, k[random_nums[from + n - 1]])]]
DownSteps(k, from, N) ==
  [n \in 1 .. N |-> [v \in Word |-> Unmix(v, k[random_nums[from - n]])]]

LEMMA StepsType ==
  ASSUME NEW k \in PageWords, TableTyped, NEW from \in Ends, NEW to \in Ends
  PROVE  /\ from <= to => UpSteps(k, from, to - from) \in [1 .. to - from -> [Word -> Word]]
         /\ to <= from => DownSteps(k, from, from - to) \in [1 .. from - to -> [Word -> Word]]
<1>1. HASH_STRENGTH_FULL \in Nat
  BY SamplingAssumption
<1>2. ASSUME NEW n \in 1 .. to - from PROVE k[random_nums[from + n - 1]] \in Word
  <2>1. from + n - 1 \in Positions
    BY <1>1 DEF Ends, Positions
  <2> QED BY <2>1 DEF PageWords, TableTyped
<1>3. ASSUME NEW n \in 1 .. from - to PROVE k[random_nums[from - n]] \in Word
  <2>1. from - n \in Positions
    BY <1>1 DEF Ends, Positions
  <2> QED BY <2>1 DEF PageWords, TableTyped
<1>4. ASSUME NEW w \in Word PROVE [v \in Word |-> Mix(v, w)] \in [Word -> Word]
                                 /\ [v \in Word |-> Unmix(v, w)] \in [Word -> Word]
  BY MixType
<1>5. UpSteps(k, from, to - from) \in [1 .. to - from -> [Word -> Word]]
  BY <1>2, <1>4 DEF UpSteps
<1>6. DownSteps(k, from, from - to) \in [1 .. from - to -> [Word -> Word]]
  BY <1>3, <1>4 DEF DownSteps
<1> QED BY <1>5, <1>6

(* A recursive definition that stays in V is a run.                         *)
Recurs(f, V, b, N, step) ==
  /\ f = [n \in 0 .. N |-> f[n]] /\ f[0] = b
  /\ \A n \in 1 .. N : f[n - 1] \in V => f[n] = step[n][f[n - 1]]

LEMMA RecursionIsRun ==
  ASSUME NEW V, NEW b \in V, NEW N \in Nat, NEW step \in [1 .. N -> [V -> V]], NEW f,
         Recurs(f, V, b, N, step)
  PROVE  IsRun(f, V, b, N, step)
<1> DEFINE S == {n \in Nat : n <= N => f[n] \in V}
<1>1. 0 \in S
  BY DEF Recurs
<1>2. ASSUME NEW n \in S PROVE n + 1 \in S
  <2> SUFFICES ASSUME n + 1 <= N PROVE f[n + 1] \in V
    OBVIOUS
  <2>1. n + 1 \in 1 .. N /\ (n + 1) - 1 = n /\ f[n] \in V
    OBVIOUS
  <2>2. f[n + 1] = step[n + 1][f[n]]
    BY <2>1 DEF Recurs
  <2> QED BY <2>1, <2>2
<1>3. \A n \in Nat : n \in S
  <2>1. S \in SUBSET Nat
    OBVIOUS
  <2> HIDE DEF S
  <2> QED BY <1>1, <1>2, <2>1, AllNumbers
<1>4. \A n \in 0 .. N : f[n] \in V
  BY <1>3
<1>5. f \in [0 .. N -> V]
  BY <1>4 DEF Recurs
<1>6. ASSUME NEW n \in 1 .. N PROVE f[n] = step[n][f[n - 1]]
  <2>1. n - 1 \in 0 .. N
    OBVIOUS
  <2> QED BY <1>4, <2>1 DEF Recurs
<1> QED BY <1>5, <1>6 DEF Recurs, IsRun

LEMMA UpIsRun ==
  ASSUME NEW k \in PageWords, TableTyped, NEW from \in Ends, NEW to \in Ends, from <= to,
         NEW h \in Word
  PROVE  \E f : /\ IsRun(f, Word, h, to - from, UpSteps(k, from, to - from))
                /\ HashFromTo(k, from, to, h) = f[to - from]
<1> DEFINE N == to - from
           steps == UpSteps(k, from, N)
           run[n \in 0 .. N] == IF n = 0 THEN h ELSE Mix(run[n - 1], k[random_nums[from + n - 1]])
<1>1. N \in Nat /\ steps \in [1 .. N -> [Word -> Word]]
  <2>1. N \in Nat
    BY SamplingAssumption DEF Ends
  <2> QED BY <2>1, StepsType
<1>2. HashFromTo(k, from, to, h) = run[N]
  BY DEF HashFromTo
<1>3. PICK f : IsRun(f, Word, h, N, steps)
  BY <1>1, RunExists
<1>4. \A n \in 1 .. N, v \in Word : steps[n][v] = Mix(v, k[random_nums[from + n - 1]])
  BY DEF UpSteps
<1>5. f = [n \in 0 .. N |-> IF n = 0 THEN h ELSE Mix(f[n - 1], k[random_nums[from + n - 1]])]
  <2> HIDE DEF N, steps
  <2>1. ASSUME NEW n \in 0 .. N
        PROVE  f[n] = IF n = 0 THEN h ELSE Mix(f[n - 1], k[random_nums[from + n - 1]])
    <3>1. CASE n # 0
      <4>1. n \in 1 .. N /\ n - 1 \in 0 .. N
        BY <1>1, <3>1
      <4> QED BY <1>3, <1>4, <3>1, <4>1 DEF IsRun
    <3> QED BY <1>3, <3>1 DEF IsRun
  <2> QED BY <1>3, <2>1 DEF IsRun
<1>6. run = [n \in 0 .. N |-> IF n = 0 THEN h ELSE Mix(run[n - 1], k[random_nums[from + n - 1]])]
  BY <1>5
<1> HIDE DEF run, N, steps
<1>7. Recurs(run, Word, h, N, steps)
  <2>1. \A n \in 0 .. N :
          run[n] = IF n = 0 THEN h ELSE Mix(run[n - 1], k[random_nums[from + n - 1]])
    BY <1>6
  <2>2. run = [n \in 0 .. N |-> run[n]]
    BY <1>6
  <2>3. run[0] = h
    BY <1>1, <2>1
  <2>4. ASSUME NEW n \in 1 .. N, run[n - 1] \in Word PROVE run[n] = steps[n][run[n - 1]]
    <3>1. n \in 0 .. N /\ n # 0
      OBVIOUS
    <3> QED BY <1>4, <2>1, <2>4, <3>1
  <2> QED BY <2>2, <2>3, <2>4 DEF Recurs
<1>8. IsRun(run, Word, h, N, steps)
  BY <1>1, <1>7, RecursionIsRun
<1> QED BY <1>2, <1>8 DEF N, steps

LEMMA DownIsRun ==
  ASSUME NEW k \in PageWords, TableTyped, NEW from \in Ends, NEW to \in Ends, to <= from,
         NEW h \in Word
  PROVE  \E f : /\ IsRun(f, Word, h, from - to, DownSteps(k, from, from - to))
                /\ HashFromDownTo(k, from, to, h) = f[from - to]
<1> DEFINE N == from - to
           steps == DownSteps(k, from, N)
           run[n \in 0 .. N] == IF n = 0 THEN h ELSE Unmix(run[n - 1], k[random_nums[from - n]])
<1>1. N \in Nat /\ steps \in [1 .. N -> [Word -> Word]]
  <2>1. N \in Nat
    BY SamplingAssumption DEF Ends
  <2> QED BY <2>1, StepsType
<1>2. HashFromDownTo(k, from, to, h) = run[N]
  BY DEF HashFromDownTo
<1>3. PICK f : IsRun(f, Word, h, N, steps)
  BY <1>1, RunExists
<1>4. \A n \in 1 .. N, v \in Word : steps[n][v] = Unmix(v, k[random_nums[from - n]])
  BY DEF DownSteps
<1>5. f = [n \in 0 .. N |-> IF n = 0 THEN h ELSE Unmix(f[n - 1], k[random_nums[from - n]])]
  <2> HIDE DEF N, steps
  <2>1. ASSUME NEW n \in 0 .. N
        PROVE  f[n] = IF n = 0 THEN h ELSE Unmix(f[n - 1], k[random_nums[from - n]])
    <3>1. CASE n # 0
      <4>1. n \in 1 .. N /\ n - 1 \in 0 .. N
        BY <1>1, <3>1
      <4> QED BY <1>3, <1>4, <3>1, <4>1 DEF IsRun
    <3> QED BY <1>3, <3>1 DEF IsRun
  <2> QED BY <1>3, <2>1 DEF IsRun
<1>6. run = [n \in 0 .. N |-> IF n = 0 THEN h ELSE Unmix(run[n - 1], k[random_nums[from - n]])]
  BY <1>5
<1> HIDE DEF run, N, steps
<1>7. Recurs(run, Word, h, N, steps)
  <2>1. \A n \in 0 .. N :
          run[n] = IF n = 0 THEN h ELSE Unmix(run[n - 1], k[random_nums[from - n]])
    BY <1>6
  <2>2. run = [n \in 0 .. N |-> run[n]]
    BY <1>6
  <2>3. run[0] = h
    BY <1>1, <2>1
  <2>4. ASSUME NEW n \in 1 .. N, run[n - 1] \in Word PROVE run[n] = steps[n][run[n - 1]]
    <3>1. n \in 0 .. N /\ n # 0
      OBVIOUS
    <3> QED BY <1>4, <2>1, <2>4, <3>1
  <2> QED BY <2>2, <2>3, <2>4 DEF Recurs
<1>8. IsRun(run, Word, h, N, steps)
  BY <1>1, <1>7, RecursionIsRun
<1> QED BY <1>2, <1>8 DEF N, steps

(* The macros, one iteration at a time. *)
LEMMA UpStep ==
  ASSUME NEW k \in PageWords, TableTyped, NEW from \in Ends, NEW to \in Ends, from <= to,
         NEW h \in Word
  PROVE  /\ HashFromTo(k, from, from, h) = h /\ HashFromTo(k, from, to, h) \in Word
         /\ to < HASH_STRENGTH_FULL =>
              HashFromTo(k, from, to + 1, h) =
                Mix(HashFromTo(k, from, to, h), k[random_nums[to]])
<1>1. HashFromTo(k, from, from, h) = h
  <2>1. from - from = 0 /\ from <= from
    BY SamplingAssumption DEF Ends
  <2>2. PICK f : /\ IsRun(f, Word, h, from - from, UpSteps(k, from, from - from))
                 /\ HashFromTo(k, from, from, h) = f[from - from]
    BY <2>1, UpIsRun, Zenon
  <2>3. f[0] = h
    BY <2>2 DEF IsRun
  <2> QED BY <2>1, <2>2, <2>3
<1>2. PICK f : /\ IsRun(f, Word, h, to - from, UpSteps(k, from, to - from))
               /\ HashFromTo(k, from, to, h) = f[to - from]
  BY UpIsRun
<1>3. to - from \in Nat /\ to - from \in 0 .. to - from
  BY SamplingAssumption DEF Ends
<1>4. f[to - from] \in Word
  BY <1>2, <1>3 DEF IsRun
<1>5. ASSUME to < HASH_STRENGTH_FULL
      PROVE  HashFromTo(k, from, to + 1, h) =
               Mix(HashFromTo(k, from, to, h), k[random_nums[to]])
  <2> DEFINE p == UpSteps(k, from, to - from)
             q == UpSteps(k, from, (to + 1) - from)
             N == (to + 1) - from
  <2>1. to + 1 \in Ends /\ from <= to + 1 /\ N \in Nat /\ N = (to - from) + 1
    BY <1>5, SamplingAssumption DEF Ends
  <2>2. PICK g : IsRun(g, Word, h, N, q) /\ HashFromTo(k, from, to + 1, h) = g[N]
    BY <2>1, UpIsRun
  <2>3. SameSteps(p, q, to - from, N)
    BY <1>3, <2>1 DEF UpSteps, SameSteps
  <2>4. SameUpTo(f, g, to - from, N)
    <3> HIDE DEF p, q, N
    <3>1. IsRun(f, Word, h, to - from, p)
      BY <1>2 DEF p
    <3> QED BY <1>3, <2>1, <2>2, <2>3, <3>1, RunsAgree
  <2>5. g[to - from] = f[to - from]
    BY <1>3, <2>1, <2>4 DEF SameUpTo
  <2>6. N \in 1 .. N /\ N - 1 = to - from /\ from + N - 1 = to
    BY <1>3, <2>1, SamplingAssumption DEF Ends
  <2>7. g[N] = q[N][g[to - from]]
    BY <2>2, <2>6 DEF IsRun
  <2>8. q[N][g[to - from]] = Mix(g[to - from], k[random_nums[to]])
    BY <1>4, <2>5, <2>6 DEF UpSteps
  <2> QED BY <1>2, <2>2, <2>5, <2>7, <2>8
<1> QED BY <1>1, <1>2, <1>4, <1>5

LEMMA DownStep ==
  ASSUME NEW k \in PageWords, TableTyped, NEW from \in Ends, NEW to \in Ends, to <= from,
         NEW h \in Word
  PROVE  /\ HashFromDownTo(k, from, from, h) = h /\ HashFromDownTo(k, from, to, h) \in Word
         /\ to > 0 =>
              HashFromDownTo(k, from, to - 1, h) =
                Unmix(HashFromDownTo(k, from, to, h), k[random_nums[to - 1]])
<1>1. HashFromDownTo(k, from, from, h) = h
  <2>1. from - from = 0 /\ from <= from
    BY SamplingAssumption DEF Ends
  <2>2. PICK f : /\ IsRun(f, Word, h, from - from, DownSteps(k, from, from - from))
                 /\ HashFromDownTo(k, from, from, h) = f[from - from]
    BY <2>1, DownIsRun, Zenon
  <2>3. f[0] = h
    BY <2>2 DEF IsRun
  <2> QED BY <2>1, <2>2, <2>3
<1>2. PICK f : /\ IsRun(f, Word, h, from - to, DownSteps(k, from, from - to))
               /\ HashFromDownTo(k, from, to, h) = f[from - to]
  BY DownIsRun
<1>3. from - to \in Nat /\ from - to \in 0 .. from - to
  BY SamplingAssumption DEF Ends
<1>4. f[from - to] \in Word
  BY <1>2, <1>3 DEF IsRun
<1>5. ASSUME to > 0
      PROVE  HashFromDownTo(k, from, to - 1, h) =
               Unmix(HashFromDownTo(k, from, to, h), k[random_nums[to - 1]])
  <2> DEFINE p == DownSteps(k, from, from - to)
             q == DownSteps(k, from, from - (to - 1))
             N == from - (to - 1)
  <2>1. to - 1 \in Ends /\ to - 1 <= from /\ N \in Nat /\ N = (from - to) + 1
    BY <1>5, SamplingAssumption DEF Ends
  <2>2. PICK g : IsRun(g, Word, h, N, q) /\ HashFromDownTo(k, from, to - 1, h) = g[N]
    BY <2>1, DownIsRun
  <2>3. SameSteps(p, q, from - to, N)
    BY <1>3, <2>1 DEF DownSteps, SameSteps
  <2>4. SameUpTo(f, g, from - to, N)
    <3> HIDE DEF p, q, N
    <3>1. IsRun(f, Word, h, from - to, p)
      BY <1>2 DEF p
    <3> QED BY <1>3, <2>1, <2>2, <2>3, <3>1, RunsAgree
  <2>5. g[from - to] = f[from - to]
    BY <1>3, <2>1, <2>4 DEF SameUpTo
  <2>6. N \in 1 .. N /\ N - 1 = from - to /\ from - N = to - 1
    BY <1>3, <2>1, SamplingAssumption DEF Ends
  <2>7. g[N] = q[N][g[from - to]]
    BY <2>2, <2>6 DEF IsRun
  <2>8. q[N][g[from - to]] = Unmix(g[from - to], k[random_nums[to - 1]])
    BY <1>4, <2>5, <2>6 DEF DownSteps
  <2> QED BY <1>2, <2>2, <2>5, <2>7, <2>8
<1> QED BY <1>1, <1>2, <1>4, <1>5

(* Hashing on from where an earlier hash has stopped ... *)
LEMMA UpGoesOn ==
  ASSUME NEW k \in PageWords, TableTyped, NEW a \in Ends, NEW b \in Ends, a <= b, NEW h \in Word,
         NEW c \in Ends, b <= c
  PROVE  HashFromTo(k, b, c, HashFromTo(k, a, b, h)) = HashFromTo(k, a, c, h)
<1> DEFINE g == HashFromTo(k, a, b, h)
           S == {n \in Nat : b + n \in Ends =>
                   HashFromTo(k, b, b + n, g) = HashFromTo(k, a, b + n, h)}
<1>1. g \in Word /\ a \in Nat /\ b \in Nat /\ c \in Nat /\ HASH_STRENGTH_FULL \in Nat
  BY UpStep, SamplingAssumption DEF Ends
<1>2. 0 \in S
  <2>1. HashFromTo(k, b, b, g) = g /\ b + 0 = b
    BY <1>1, UpStep
  <2> QED BY <2>1
<1> HIDE DEF g
<1>3. ASSUME NEW n \in S PROVE n + 1 \in S
  <2> SUFFICES ASSUME b + (n + 1) \in Ends
               PROVE  HashFromTo(k, b, b + (n + 1), g) = HashFromTo(k, a, b + (n + 1), h)
    OBVIOUS
  <2> DEFINE d == b + n
  <2>1. /\ d \in Ends /\ b <= d /\ a <= d /\ d < HASH_STRENGTH_FULL /\ b + (n + 1) = d + 1
    BY <1>1 DEF Ends
  <2>2. HashFromTo(k, b, d, g) = HashFromTo(k, a, d, h)
    BY <2>1
  <2> HIDE DEF d
  <2>3. HashFromTo(k, b, d + 1, g) = Mix(HashFromTo(k, b, d, g), k[random_nums[d]])
    BY <1>1, <2>1, UpStep
  <2>4. HashFromTo(k, a, d + 1, h) = Mix(HashFromTo(k, a, d, h), k[random_nums[d]])
    BY <1>1, <2>1, UpStep
  <2> QED BY <2>1, <2>2, <2>3, <2>4
<1>4. \A n \in Nat : n \in S
  <2>1. S \in SUBSET Nat
    OBVIOUS
  <2> HIDE DEF S
  <2> QED BY <1>2, <1>3, <2>1, AllNumbers
<1>5. c - b \in Nat /\ b + (c - b) = c
  BY <1>1
<1> QED BY <1>4, <1>5 DEF g

(* ... and undone down to where it was. *)
LEMMA DownUndoes ==
  ASSUME NEW k \in PageWords, TableTyped, NEW a \in Ends, NEW b \in Ends, a <= b, NEW h \in Word,
         NEW c \in Ends, a <= c, c <= b
  PROVE  HashFromDownTo(k, b, c, HashFromTo(k, a, b, h)) = HashFromTo(k, a, c, h)
<1> DEFINE g == HashFromTo(k, a, b, h)
           S == {n \in Nat : b - n \in Ends /\ a <= b - n =>
                   HashFromDownTo(k, b, b - n, g) = HashFromTo(k, a, b - n, h)}
<1>1. g \in Word /\ a \in Nat /\ b \in Nat /\ c \in Nat /\ HASH_STRENGTH_FULL \in Nat
  BY UpStep, SamplingAssumption DEF Ends
<1>2. 0 \in S
  <2>1. HashFromDownTo(k, b, b, g) = g /\ b - 0 = b
    BY <1>1, DownStep
  <2> QED BY <2>1
<1> HIDE DEF g
<1>3. ASSUME NEW n \in S PROVE n + 1 \in S
  <2> SUFFICES ASSUME b - (n + 1) \in Ends, a <= b - (n + 1)
               PROVE  HashFromDownTo(k, b, b - (n + 1), g) = HashFromTo(k, a, b - (n + 1), h)
    OBVIOUS
  <2> DEFINE d == b - n
             e == b - (n + 1)
             w == k[random_nums[e]]
  <2>1. /\ d \in Ends /\ d <= b /\ a <= d /\ d > 0 /\ e = d - 1 /\ e \in Ends /\ d = e + 1 /\ a <= e
        /\ e < HASH_STRENGTH_FULL /\ e \in Positions
    BY <1>1, SamplingAssumption DEF Ends, Positions
  <2>2. HashFromDownTo(k, b, d, g) = HashFromTo(k, a, d, h)
    BY <2>1
  <2> HIDE DEF d, e
  <2>3. HashFromDownTo(k, b, e, g) = Unmix(HashFromDownTo(k, b, d, g), w)
    BY <1>1, <2>1, DownStep
  <2>4. HashFromTo(k, a, d, h) = Mix(HashFromTo(k, a, e, h), w) /\ HashFromTo(k, a, e, h) \in Word
    BY <1>1, <2>1, UpStep
  <2>5. w \in Word
    BY <2>1 DEF PageWords, TableTyped
  <2>6. HashFromDownTo(k, b, e, g) = HashFromTo(k, a, e, h)
    BY <2>2, <2>3, <2>4, <2>5, UnmixMix
  <2> QED BY <2>6 DEF e
<1>4. \A n \in Nat : n \in S
  <2>1. S \in SUBSET Nat
    OBVIOUS
  <2> HIDE DEF S
  <2> QED BY <1>2, <1>3, <2>1, AllNumbers
<1>5. b - c \in Nat /\ b - (b - c) = c
  BY <1>1
<1> QED BY <1>4, <1>5 DEF g

-----------------------------------------------------------------------------
LEMMA HashTypes ==
  ASSUME NEW k \in PageWords, TableTyped, NEW s \in Strengths \cup {0}
  PROVE  /\ RandomSampleHash(k, s) \in Word
         /\ SEED \in Word /\ HashFromTo(k, 0, HASH_STRENGTH_FULL, SEED) \in Word
         /\ 0 \in Ends /\ HASH_STRENGTH_FULL \in Ends /\ HASH_STRENGTH_FULL \in Nat /\ s \in Nat
         /\ s <= HASH_STRENGTH_FULL => s \in Ends
         /\ s >= HASH_STRENGTH_FULL => s - HASH_STRENGTH_FULL \in Ends
<1>1. /\ SEED \in Word /\ 0 \in Ends /\ HASH_STRENGTH_FULL \in Ends /\ HASH_STRENGTH_FULL \in Nat
      /\ s \in Nat
      /\ s <= HASH_STRENGTH_FULL => s \in Ends
      /\ s >= HASH_STRENGTH_FULL => s - HASH_STRENGTH_FULL \in Ends
  BY SamplingAssumption, PageAssumption DEF Ends, Strengths, HASH_STRENGTH_MAX
<1>2. HashFromTo(k, 0, HASH_STRENGTH_FULL, SEED) \in Word
  BY <1>1, UpStep DEF Ends
<1>3. RandomSampleHash(k, s) \in Word
  <2>1. CASE s <= HASH_STRENGTH_FULL
    BY <1>1, <2>1, UpStep DEF RandomSampleHash
  <2>2. CASE ~(s <= HASH_STRENGTH_FULL)
    <3>1. s - HASH_STRENGTH_FULL \in Ends /\ 0 <= s - HASH_STRENGTH_FULL
      BY <1>1, <2>2
    <3> QED BY <1>1, <1>2, <2>2, <3>1, UpStep DEF RandomSampleHash
  <2> QED BY <2>1, <2>2
<1> QED BY <1>1, <1>2, <1>3

(* delta_hash, in its six cases, gives the hash at the other strength. *)
LEMMA DeltaIsHash ==
  ASSUME NEW k \in PageWords, TableTyped, NEW from \in Strengths, NEW to \in Strengths
  PROVE  DeltaHash(k, from, to, RandomSampleHash(k, from)) = RandomSampleHash(k, to)
<1> DEFINE F == HASH_STRENGTH_FULL
           R(s) == RandomSampleHash(k, s)
           X == HashFromTo(k, 0, F, SEED)
<1>1. /\ X \in Word /\ SEED \in Word /\ 0 \in Ends /\ F \in Ends /\ F \in Nat
      /\ from \in Nat /\ to \in Nat
      /\ from <= F => from \in Ends
      /\ to <= F => to \in Ends
      /\ from >= F => from - F \in Ends
      /\ to >= F => to - F \in Ends
  BY HashTypes
<1>2. ASSUME NEW s \in Nat PROVE /\ s <= F => R(s) = HashFromTo(k, 0, s, SEED)
                                 /\ s > F => R(s) = HashFromTo(k, 0, s - F, X)
  BY <1>1 DEF RandomSampleHash
<1>3. R(F) = X /\ HashFromTo(k, 0, F - F, X) = X
  <2>1. F - F = 0 /\ F <= F
    BY <1>1
  <2>2. HashFromTo(k, 0, 0, X) = X
    BY <1>1, UpStep
  <2> QED BY <1>1, <1>2, <2>1, <2>2
<1>4. ASSUME NEW s \in Nat, s >= F PROVE R(s) = HashFromTo(k, 0, s - F, X)
  BY <1>1, <1>2, <1>3, <1>4
<1> HIDE DEF F, R, X
<1>5. CASE to > from
  <2>1. CASE from >= F
    <3>1. from - F <= to - F /\ 0 <= from - F /\ to >= F
      BY <1>1, <1>5, <2>1
    <3>2. HashFromTo(k, from - F, to - F, HashFromTo(k, 0, from - F, X)) = HashFromTo(k, 0, to - F, X)
      BY <1>1, <2>1, <3>1, UpGoesOn
    <3>3. DeltaHash(k, from, to, R(from)) = HashFromTo(k, from - F, to - F, R(from))
      <4>1. ~(from < F)
        BY <1>1, <2>1
      <4> QED BY <1>5, <2>1, <4>1 DEF DeltaHash, F
    <3> QED BY <1>1, <1>4, <2>1, <3>1, <3>2, <3>3 DEF R
  <2>2. CASE from < F /\ to <= F
    <3>1. HashFromTo(k, from, to, HashFromTo(k, 0, from, SEED)) = HashFromTo(k, 0, to, SEED)
      BY <1>1, <1>5, <2>2, UpGoesOn
    <3>2. DeltaHash(k, from, to, R(from)) = HashFromTo(k, from, to, R(from))
      <4>1. ~(from >= F) /\ ~(to > F)
        BY <1>1, <2>2
      <4> QED BY <1>5, <2>2, <4>1 DEF DeltaHash, F
    <3> QED BY <1>1, <1>2, <2>2, <3>1, <3>2 DEF R
  <2>3. CASE from < F /\ to > F
    <3>1. HashFromTo(k, from, F, HashFromTo(k, 0, from, SEED)) = X
      BY <1>1, <2>3, UpGoesOn DEF X
    <3>2. DeltaHash(k, from, to, R(from)) = HashFromTo(k, 0, to - F, HashFromTo(k, from, F, R(from)))
      <4>1. ~(from >= F) /\ ~(to <= F)
        BY <1>1, <2>3
      <4> QED BY <1>5, <2>3, <4>1 DEF DeltaHash, F
    <3> QED BY <1>1, <1>2, <2>3, <3>1, <3>2 DEF R
  <2> QED BY <1>1, <2>1, <2>2, <2>3
<1>6. CASE ~(to > from)
  <2>0. to <= from
    BY <1>1, <1>6
  <2>1. CASE from <= F
    <3>1. HashFromDownTo(k, from, to, HashFromTo(k, 0, from, SEED)) = HashFromTo(k, 0, to, SEED)
      BY <1>1, <2>0, <2>1, DownUndoes
    <3>2. DeltaHash(k, from, to, R(from)) = HashFromDownTo(k, from, to, R(from))
      <4>1. ~(from > F)
        BY <1>1, <2>1
      <4> QED BY <1>6, <2>1, <4>1 DEF DeltaHash, F
    <3>3. to <= F
      BY <1>1, <2>0, <2>1
    <3> QED BY <1>1, <1>2, <2>1, <3>1, <3>2, <3>3 DEF R
  <2>2. CASE from > F /\ to >= F
    <3>1. from >= F /\ ~(from <= F) /\ ~(to < F) /\ to - F <= from - F /\ 0 <= to - F /\ 0 <= from - F
      BY <1>1, <2>0, <2>2
    <3>2. HashFromDownTo(k, from - F, to - F, HashFromTo(k, 0, from - F, X)) = HashFromTo(k, 0, to - F, X)
      BY <1>1, <2>2, <3>1, DownUndoes
    <3>3. DeltaHash(k, from, to, R(from)) = HashFromDownTo(k, from - F, to - F, R(from))
      BY <1>6, <2>2, <3>1 DEF DeltaHash, F
    <3> QED BY <1>1, <1>4, <2>2, <3>1, <3>2, <3>3 DEF R
  <2>3. CASE from > F /\ to < F
    <3>1. from >= F /\ ~(from <= F) /\ ~(to >= F) /\ to <= F /\ 0 <= from - F /\ 0 <= to
      BY <1>1, <2>3
    <3>2. HashFromDownTo(k, from - F, 0, HashFromTo(k, 0, from - F, X)) = X
      <4>1. HashFromDownTo(k, from - F, 0, HashFromTo(k, 0, from - F, X)) = HashFromTo(k, 0, 0, X)
        BY <1>1, <3>1, DownUndoes
      <4>2. HashFromTo(k, 0, 0, X) = X
        BY <1>1, UpStep
      <4> QED BY <4>1, <4>2
    <3>3. HashFromDownTo(k, F, to, X) = HashFromTo(k, 0, to, SEED)
      BY <1>1, <3>1, DownUndoes DEF X
    <3>4. DeltaHash(k, from, to, R(from)) = HashFromDownTo(k, F, to, HashFromDownTo(k, from - F, 0, R(from)))
      BY <1>6, <2>3, <3>1 DEF DeltaHash, F
    <3> QED BY <1>1, <1>2, <1>4, <3>1, <3>2, <3>3, <3>4 DEF R
  <2> QED BY <1>1, <2>1, <2>2, <2>3
<1> QED BY <1>5, <1>6

-----------------------------------------------------------------------------
(* What a hash tells apart.                                                *)
(* A hash tells a word from another, and a hash from another. *)
LEMMA MixTells ==
  ASSUME NEW h \in Word, NEW g \in Word, NEW v \in Word, NEW w \in Word
  PROVE  /\ Mix(h, v) = Mix(g, v) => h = g
         /\ Mix(h, v) = Mix(h, w) => v = w
<1>1. Mix(h, v) = Mix(g, v) => h = g
  <2>1. Unmix(Mix(h, v), v) = h /\ Unmix(Mix(g, v), v) = g
    BY UnmixMix
  <2> QED BY <2>1
<1>2. ASSUME Mix(h, v) = Mix(h, w) PROVE v = w
  <2> DEFINE L == TwoTo[shiftl]
             s == (h + v) % Size
             t == (h + w) % Size
             x == (s + s * L) % Size
             z == (t + t * L) % Size
             y == (x + Size * Size - x * L) % Size
  <2>1. h \in Int /\ v \in Int /\ w \in Int /\ L \in Int /\ Size \in Int /\ Size * Size \in Int
        /\ h + v \in Int /\ h + w \in Int
    BY SizeFacts, TwoToFacts, WidthAssumption, ShiftAssumption DEF Word
  <2>2. s \in Word /\ s \in Int /\ Cong(s, h + v) /\ Cong(h + v, s)
    BY <2>1, ModFacts DEF Word
  <2>3. t \in Word /\ t \in Int /\ Cong(t, h + w) /\ Cong(h + w, t)
    BY <2>1, ModFacts DEF Word
  <2>4. Mix(h, v) = XorShift[shiftr][x] /\ Mix(h, w) = XorShift[shiftr][z]
    BY DEF Mix
  <2> HIDE DEF s, t
  <2>5. s + s * L \in Int /\ t + t * L \in Int
    BY <2>1, <2>2, <2>3
  <2>6. x \in Word /\ x \in Int /\ Cong(x, s + s * L)
    BY <2>5, ModFacts DEF Word
  <2>7. z \in Word /\ z \in Int /\ Cong(z, t + t * L)
    BY <2>5, ModFacts DEF Word
  <2> HIDE DEF x, z
  <2>8. x = z
    <3>1. XorShift[2 * shiftr][XorShift[shiftr][XorShift[shiftr][x]]] = x
      BY <2>6, XorShiftUndone
    <3>2. XorShift[2 * shiftr][XorShift[shiftr][XorShift[shiftr][z]]] = z
      BY <2>7, XorShiftUndone
    <3> QED BY <1>2, <2>4, <3>1, <3>2
  <2>9. y \in Word /\ y \in Int /\ Cong(y, x + Size * Size - x * L)
    <3>1. x + Size * Size - x * L \in Int
      BY <2>1, <2>6
    <3> QED BY <3>1, ModFacts DEF Word
  <2> HIDE DEF y
  <2> DEFINE c == y + y * TwoTo[2 * shiftl]
  <2>10. c \in Int
    <3>1. TwoTo[2 * shiftl] \in Int
      BY TwoToFacts, WidthAssumption, ShiftAssumption
    <3> QED BY <2>9, <3>1
  <2>11. Cong(c, s) /\ Cong(c, t)
    BY <2>2, <2>3, <2>6, <2>7, <2>8, <2>9, AddsUndone
  <2> HIDE DEF c
  <2>12. s = t
    <3>1. Cong(c - c, t - s) /\ Cong(0, t - s)
      <4>1. Cong(c - c, t - s)
        BY <2>2, <2>3, <2>10, <2>11, CongAdd
      <4>2. c - c = 0
        BY <2>10
      <4> QED BY <4>1, <4>2
    <3>2. Cong(s, s) /\ Cong(0 + s, (t - s) + s) /\ 0 + s = s /\ (t - s) + s = t
      <4>1. Cong(s, s)
        BY <2>2, CongSame
      <4>2. t - s \in Int /\ 0 \in Int
        BY <2>2, <2>3
      <4>3. Cong(0 + s, (t - s) + s)
        BY <2>2, <3>1, <4>1, <4>2, CongAdd
      <4> QED BY <2>2, <2>3, <4>1, <4>3
    <3> QED BY <2>2, <2>3, <3>2, CongEqual
  <2>13. Cong(h + v, h + w)
    BY <2>1, <2>2, <2>3, <2>12, CongTrans
  <2>14. Cong(v, w)
    <3>1. Cong(h, h)
      BY <2>1, CongSame
    <3>2. Cong((h + v) - h, (h + w) - h)
      BY <2>1, <2>13, <3>1, CongAdd
    <3>3. (h + v) - h = v /\ (h + w) - h = w
      BY <2>1
    <3> QED BY <3>2, <3>3
  <2> QED BY <2>14, CongEqual
<1> QED BY <1>1, <1>2

SameWords(j, k, a, b) ==
  \A n \in Positions : a <= n /\ n < b => j[random_nums[n]] = k[random_nums[n]]

(* Over the same words, two hashes stay equal or stay different. *)
LEMMA UpTells ==
  ASSUME NEW j \in PageWords, NEW k \in PageWords, TableTyped,
         NEW a \in Ends, NEW b \in Ends, a <= b, SameWords(j, k, a, b),
         NEW g \in Word, NEW h \in Word
  PROVE  HashFromTo(j, a, b, g) = HashFromTo(k, a, b, h) <=> g = h
<1> DEFINE Tells(c) == HashFromTo(j, a, c, g) = HashFromTo(k, a, c, h) <=> g = h
           S == {n \in Nat : a + n <= b => Tells(a + n)}
<1>1. a \in Nat /\ b \in Nat /\ HASH_STRENGTH_FULL \in Nat /\ b <= HASH_STRENGTH_FULL
  BY SamplingAssumption DEF Ends
<1>2. 0 \in S
  <2>1. HashFromTo(j, a, a, g) = g /\ HashFromTo(k, a, a, h) = h /\ a + 0 = a
    BY <1>1, UpStep
  <2> QED BY <2>1
<1>3. ASSUME NEW n \in S PROVE n + 1 \in S
  <2> SUFFICES ASSUME a + (n + 1) <= b PROVE Tells(a + (n + 1))
    OBVIOUS
  <2> DEFINE d == a + n
             w == k[random_nums[d]]
  <2>1. d \in Ends /\ d \in Positions /\ a <= d /\ d < b /\ d < HASH_STRENGTH_FULL /\ a + (n + 1) = d + 1
    BY <1>1 DEF Ends, Positions
  <2>2. Tells(d)
    BY <1>1, <2>1
  <2>3. w \in Word /\ j[random_nums[d]] = w
    BY <2>1 DEF PageWords, TableTyped, SameWords
  <2> HIDE DEF d, w
  <2>4. /\ HashFromTo(j, a, d + 1, g) = Mix(HashFromTo(j, a, d, g), w)
        /\ HashFromTo(j, a, d, g) \in Word
    BY <2>1, <2>3, UpStep
  <2>5. /\ HashFromTo(k, a, d + 1, h) = Mix(HashFromTo(k, a, d, h), w)
        /\ HashFromTo(k, a, d, h) \in Word
    BY <2>1, UpStep DEF w
  <2>6. HashFromTo(j, a, d + 1, g) = HashFromTo(k, a, d + 1, h)
          <=> HashFromTo(j, a, d, g) = HashFromTo(k, a, d, h)
    BY <2>3, <2>4, <2>5, MixTells
  <2>7. Tells(d + 1)
    BY <2>2, <2>6
  <2> QED BY <2>1, <2>7
<1>4. \A n \in Nat : n \in S
  <2>1. S \in SUBSET Nat
    OBVIOUS
  <2> HIDE DEF S
  <2> QED BY <1>2, <1>3, <2>1, AllNumbers
<1>5. b - a \in Nat /\ a + (b - a) = b
  BY <1>1
<1>6. Tells(b)
  BY <1>1, <1>4, <1>5
<1> QED BY <1>6

(* One word that differs, once, shows. *)
LEMMA OneWordShows ==
  ASSUME NEW j \in PageWords, NEW k \in PageWords, TableTyped,
         NEW b \in Ends, NEW c \in Ends, c < b,
         j[random_nums[c]] # k[random_nums[c]],
         SameWords(j, k, 0, c), SameWords(j, k, c + 1, b), NEW h \in Word
  PROVE  HashFromTo(j, 0, b, h) # HashFromTo(k, 0, b, h)
<1>1. /\ 0 \in Ends /\ c + 1 \in Ends /\ c \in Positions /\ 0 <= c /\ 0 <= c + 1 /\ c + 1 <= b
      /\ c < HASH_STRENGTH_FULL
  BY SamplingAssumption DEF Ends, Positions
<1> DEFINE g == HashFromTo(k, 0, c, h)
           v == j[random_nums[c]]
           w == k[random_nums[c]]
           x == HashFromTo(j, 0, c + 1, h)
           y == HashFromTo(k, 0, c + 1, h)
<1>2. HashFromTo(j, 0, c, h) = g /\ g \in Word
  BY <1>1, UpTells, UpStep
<1>3. v \in Word /\ w \in Word /\ v # w
  BY <1>1 DEF PageWords, TableTyped
<1>4. x = Mix(g, v) /\ y = Mix(g, w)
  BY <1>1, <1>2, UpStep
<1>5. x # y /\ x \in Word /\ y \in Word
  BY <1>2, <1>3, <1>4, MixTells, MixType
<1>6. /\ HashFromTo(j, c + 1, b, x) = HashFromTo(j, 0, b, h)
      /\ HashFromTo(k, c + 1, b, y) = HashFromTo(k, 0, b, h)
  BY <1>1, UpGoesOn
<1> HIDE DEF x, y
<1>7. HashFromTo(j, c + 1, b, x) # HashFromTo(k, c + 1, b, y)
  BY <1>1, <1>5, UpTells
<1> QED BY <1>6, <1>7

LEMMA SampledWordShows ==
  ASSUME NEW j \in PageWords, NEW k \in PageWords, IsPermutation(random_nums),
         NEW s \in Strengths, NEW p \in Positions,
         \A q \in Positions : q # p <=> j[q] = k[q],
         \E index \in 0 .. s - 1 : index < HASH_STRENGTH_FULL /\ random_nums[index] = p,
         \A index \in 0 .. s - HASH_STRENGTH_FULL - 1 : random_nums[index] # p
  PROVE  RandomSampleHash(j, s) # RandomSampleHash(k, s)
<1> DEFINE F == HASH_STRENGTH_FULL
<1>1. TableTyped /\ \A m, n \in Positions : random_nums[m] = random_nums[n] => m = n
  BY DEF IsPermutation, TableTyped
<1>2. /\ SEED \in Word /\ 0 \in Ends /\ F \in Ends /\ F \in Nat /\ s \in Nat
      /\ s <= F => s \in Ends
      /\ s >= F => s - F \in Ends
      /\ HashFromTo(j, 0, F, SEED) \in Word /\ HashFromTo(k, 0, F, SEED) \in Word
  BY <1>1, HashTypes
<1>3. PICK c \in 0 .. s - 1 : c < F /\ random_nums[c] = p
  OBVIOUS
<1>4. c \in Ends /\ c \in Positions /\ c \in Nat /\ c < s
  BY <1>2, <1>3 DEF Ends, Positions
<1>5. \A n \in Positions : n # c => j[random_nums[n]] = k[random_nums[n]]
  BY <1>1, <1>3, <1>4 DEF TableTyped
<1>6. j[random_nums[c]] # k[random_nums[c]]
  BY <1>3
<1>7. ASSUME NEW b \in Ends, c < b
      PROVE  HashFromTo(j, 0, b, SEED) # HashFromTo(k, 0, b, SEED)
  <2>1. SameWords(j, k, 0, c) /\ SameWords(j, k, c + 1, b)
    BY <1>4, <1>5 DEF SameWords, Positions
  <2> QED BY <1>1, <1>2, <1>4, <1>6, <1>7, <2>1, OneWordShows
<1>8. CASE s <= F
  BY <1>2, <1>4, <1>7, <1>8 DEF RandomSampleHash
<1>9. CASE ~(s <= F)
  <2> DEFINE x == HashFromTo(j, 0, F, SEED)
             y == HashFromTo(k, 0, F, SEED)
  <2>1. x # y /\ x \in Word /\ y \in Word /\ s - F \in Ends /\ 0 <= s - F
    BY <1>2, <1>3, <1>7, <1>9
  <2>2. SameWords(j, k, 0, s - F)
    <3> SUFFICES ASSUME NEW n \in Positions, n < s - F PROVE j[random_nums[n]] = k[random_nums[n]]
      BY DEF SameWords
    <3>1. n \in 0 .. s - F - 1
      BY <1>2 DEF Positions
    <3>2. random_nums[n] # p
      BY <3>1
    <3> QED BY <1>1, <3>2 DEF TableTyped
  <2>3. RandomSampleHash(j, s) = HashFromTo(j, 0, s - F, x)
        /\ RandomSampleHash(k, s) = HashFromTo(k, 0, s - F, y)
    BY <1>9 DEF RandomSampleHash
  <2> HIDE DEF x, y
  <2>4. HashFromTo(j, 0, s - F, x) # HashFromTo(k, 0, s - F, y)
    BY <1>1, <1>2, <2>1, <2>2, UpTells
  <2> QED BY <2>3, <2>4
<1> QED BY <1>8, <1>9

-----------------------------------------------------------------------------
(* The hash kept in the state.                                             *)
(* The same hashes with the table of positions as an argument: they depend  *)
(* on nothing else that changes.                                            *)
HashFromToBy(t, k, from, to, h) ==
  LET run[n \in 0 .. to - from] ==
        IF n = 0 THEN h ELSE Mix(run[n - 1], k[t[from + n - 1]])
  IN run[to - from]
RandomSampleHashBy(t, k, s) ==
  IF s <= HASH_STRENGTH_FULL THEN HashFromToBy(t, k, 0, s, SEED)
  ELSE HashFromToBy(t, k, 0, s - HASH_STRENGTH_FULL,
                    HashFromToBy(t, k, 0, HASH_STRENGTH_FULL, SEED))
ZeroHashesBy(t) == [s \in 0 .. HASH_STRENGTH_MAX - 1 |-> RandomSampleHashBy(t, ZeroPage, s)]

LEMMA HashesBy ==
  /\ \A k, s : RandomSampleHash(k, s) = RandomSampleHashBy(random_nums, k, s)
  /\ ZeroHashes = ZeroHashesBy(random_nums)
<1>1. \A k, from, to, h : HashFromTo(k, from, to, h) = HashFromToBy(random_nums, k, from, to, h)
  BY DEF HashFromTo, HashFromToBy
<1>2. \A k, s : RandomSampleHash(k, s) = RandomSampleHashBy(random_nums, k, s)
  BY <1>1 DEF RandomSampleHash, RandomSampleHashBy
<1>3. ZeroHashes = ZeroHashesBy(random_nums)
  BY <1>2 DEF ZeroHashes, ZeroHashesBy
<1> QED BY <1>2, <1>3

(* The table of positions is fixed before the first hash; the kept hash is  *)
(* that of the page at the strength of the moment, and the table of zero    *)
(* hashes is what init_zeropage_hash_table has put there.                   *)
TableFixed == zero_hash_table # <<>> => pc = "ok" /\ zero_hash_table = ZeroHashesBy(random_nums)
HashKept ==
  strength # 0 =>
    /\ zero_hash_table # <<>> /\ strength \in Strengths /\ key \in [Positions -> WORDS]
    /\ hash = RandomSampleHashBy(random_nums, key, strength)
HashInv == SamplingInv /\ TableFixed /\ HashKept

LEMMA WordsArePages == [Positions -> WORDS] \subseteq PageWords /\ ZeroPage \in [Positions -> WORDS]
BY PageAssumption DEF PageWords, ZeroPage

LEMMA TableIsTyped == ASSUME SamplingInv, pc = "ok" PROVE IsPermutation(random_nums) /\ TableTyped
BY DEF SamplingInv, SamplesDistinctWords, IsPermutation, TableTyped

LEMMA HashInit == SampledInit => HashInv
BY SamplingInitial DEF SampledInit, HashInv, TableFixed, HashKept

LEMMA HashStep == HashInv /\ [SampledNext]_<<vars, hashVars>> => HashInv'
<1> SUFFICES ASSUME HashInv, [SampledNext]_<<vars, hashVars>> PROVE HashInv'
  OBVIOUS
<1>1. SamplingInv /\ TableFixed /\ HashKept
  BY DEF HashInv
<1>2. ASSUME UNCHANGED vars PROVE SamplingInv' /\ UNCHANGED <<pc, random_nums>>
  <2>1. SamplingInv'
    BY <1>1, <1>2, SamplingStep
  <2> QED BY <1>2, <2>1 DEF vars
<1>3. CASE Next /\ UNCHANGED hashVars
  <2>1. SamplingInv'
    BY <1>1, <1>3, SamplingStep
  <2>2. zero_hash_table = <<>>
    <3> SUFFICES ASSUME zero_hash_table # <<>> PROVE FALSE
      OBVIOUS
    <3>1. pc = "ok"
      BY <1>1 DEF TableFixed
    <3> QED BY <1>3, <3>1
          DEF Next, AllocTable, Shuffle, Shuffled, AllocPages, TimeHashes, HashCost, Compare
  <2>3. strength = 0
    BY <1>1, <2>2 DEF HashKept
  <2> QED BY <1>3, <2>1, <2>2, <2>3 DEF HashInv, TableFixed, HashKept, hashVars
<1>4. CASE InitZeropageHashTable
  <2>1. pc = "ok" /\ UNCHANGED <<sampling, pages, clock, key, strength, hash>> /\ strength = 0
    BY <1>1, <1>4 DEF InitZeropageHashTable, HashKept
  <2>2. pc' \in {"ok", "ENOMEM"}
    BY <1>4, <2>1 DEF InitZeropageHashTable
  <2>3. SamplingInv'
    BY <1>1, <2>1, <2>2 DEF SamplingInv, TypeOK, SamplesDistinctWords, ClockInTime,
       DivisorIsPositive, sampling, clock, Places, Returns, IsPermutation
  <2>4. /\ random_nums' = random_nums
        /\ \/ zero_hash_table' = ZeroHashesBy(random_nums) /\ pc' = pc
           \/ zero_hash_table' = <<>>
    BY <1>4, <2>1, HashesBy DEF InitZeropageHashTable, sampling
  <2>5. TableFixed'
    BY <2>1, <2>4 DEF TableFixed
  <2> QED BY <2>1, <2>3, <2>5 DEF HashInv, HashKept
<1>5. CASE PageHash
  <2>1. SamplingInv' /\ UNCHANGED <<pc, random_nums, zero_hash_table>> /\ zero_hash_table # <<>>
    BY <1>2, <1>5 DEF PageHash
  <2>2. /\ strength' \in Strengths /\ key' \in [Positions -> WORDS]
        /\ hash' = RandomSampleHashBy(random_nums, key', strength')
    BY <1>5, HashesBy DEF PageHash
  <2> QED BY <1>1, <2>1, <2>2 DEF HashInv, TableFixed, HashKept
<1>6. ASSUME NEW to \in Strengths, Follow(to) PROVE HashInv'
  <2>1. /\ SamplingInv' /\ UNCHANGED <<pc, random_nums, zero_hash_table, key>>
        /\ strength # 0 /\ strength' = to
    BY <1>2, <1>6 DEF Follow
  <2>2. /\ zero_hash_table # <<>> /\ strength \in Strengths /\ key \in PageWords
        /\ key \in [Positions -> WORDS] /\ TableTyped
        /\ hash = RandomSampleHash(key, strength)
    BY <1>1, <2>1, WordsArePages, TableIsTyped, HashesBy DEF HashKept, TableFixed
  <2>3. hash' = DeltaHash(key, strength, to, RandomSampleHash(key, strength))
    BY <1>6, <2>2 DEF Follow
  <2>4. hash' = RandomSampleHashBy(random_nums, key, to)
    BY <2>2, <2>3, DeltaIsHash, HashesBy
  <2> QED BY <1>1, <1>6, <2>1, <2>2, <2>4 DEF HashInv, TableFixed, HashKept
<1>7. CASE UNCHANGED <<vars, hashVars>>
  BY <1>1, <1>2, <1>7 DEF hashVars, HashInv, TableFixed, HashKept
<1> QED BY <1>3, <1>4, <1>5, <1>6, <1>7 DEF SampledNext

LEMMA HashInvariant == SampledSpec => []HashInv
BY HashInit, HashStep, PTL DEF SampledSpec

(* However hash_strength went, delta_hash has kept the hash that            *)
(* random_sample_hash would compute anew: its inverse loop undoes its       *)
(* forward loop exactly, word by word, modulo 2^WIDTH, whenever four of     *)
(* each shift reach the width.                                              *)
THEOREM DeltaHashIsRehash == SampledSpec => []DeltaIsRehash
<1>1. HashInv => DeltaIsRehash
  BY HashesBy DEF HashInv, HashKept, DeltaIsRehash
<1> QED BY <1>1, HashInvariant, PTL

(* find_zero_page_hash accepts every zero page, and refuses a page that has *)
(* one word which is not zero among those sampled once.                     *)
THEOREM ZeroPagesAreFound == SampledSpec => []ZeroPagesFound
<1>1. ASSUME HashInv, strength \in 1 .. HASH_STRENGTH_MAX - 1
      PROVE  /\ key = ZeroPage => FindZeroPageHash(strength, hash)
             /\ \A p \in Positions, w \in WORDS \ {0} :
                  SampledOnce(p) =>
                    ~FindZeroPageHash(strength, RandomSampleHash([ZeroPage EXCEPT ![p] = w], strength))
  <2>1. /\ strength \in Strengths /\ pc = "ok" /\ strength \in 0 .. HASH_STRENGTH_MAX - 1
        /\ zero_hash_table = ZeroHashesBy(random_nums)
        /\ hash = RandomSampleHashBy(random_nums, key, strength)
    <3>1. strength # 0
      BY <1>1, SamplingAssumption, PageAssumption DEF HASH_STRENGTH_MAX
    <3> QED BY <1>1, <3>1 DEF HashInv, TableFixed, HashKept
  <2>2. zero_hash_table[strength] = RandomSampleHash(ZeroPage, strength)
    BY <2>1, HashesBy DEF ZeroHashesBy
  <2>3. IsPermutation(random_nums)
    BY <1>1, <2>1, TableIsTyped DEF HashInv
  <2>4. key = ZeroPage => FindZeroPageHash(strength, hash)
    BY <2>1, <2>2, HashesBy DEF FindZeroPageHash
  <2>5. ASSUME NEW p \in Positions, NEW w \in WORDS \ {0}, SampledOnce(p)
        PROVE  ~FindZeroPageHash(strength, RandomSampleHash([ZeroPage EXCEPT ![p] = w], strength))
    <3> DEFINE j == [ZeroPage EXCEPT ![p] = w]
    <3>1. j \in PageWords /\ ZeroPage \in PageWords /\ \A q \in Positions : q # p <=> j[q] = ZeroPage[q]
      BY PageAssumption DEF ZeroPage, PageWords
    <3> HIDE DEF j
    <3>2. RandomSampleHash(j, strength) # RandomSampleHash(ZeroPage, strength)
      BY <2>1, <2>3, <2>5, <3>1, SampledWordShows DEF SampledOnce
    <3> QED BY <2>2, <3>2 DEF FindZeroPageHash, j
  <2> QED BY <2>4, <2>5
<1>2. HashInv => ZeroPagesFound
  BY <1>1 DEF ZeroPagesFound
<1> QED BY <1>2, HashInvariant, PTL
-----------------------------------------------------------------------------
(* The operators of FastHash are one to one. *)
LEMMA SumsTell ==
  \A x, y, z \in {0, 1} :
    /\ (x + y) % 2 = (x + z) % 2 => y = z
    /\ (y + x) % 2 = (z + x) % 2 => y = z
OBVIOUS

(* ^ is, in each operand. *)
LEMMA XorTells ==
  ASSUME NEW a \in Word, NEW b \in Word, NEW c \in Word
  PROVE  /\ Xor(a, b) = Xor(a, c) => b = c
         /\ Xor(b, a) = Xor(c, a) => b = c
<1>1. a \in Nat /\ b \in Nat /\ c \in Nat /\ WIDTH \in Nat
  BY SizeFacts, WidthAssumption DEF Word
<1>2. \A j \in Nat : Bit(a, j) \in {0, 1} /\ Bit(b, j) \in {0, 1} /\ Bit(c, j) \in {0, 1}
  BY <1>1, BitIs
<1>3. ASSUME \A j \in Nat : Bit(b, j) = Bit(c, j) PROVE b = c
  <2>1. \A j \in 0 .. WIDTH - 1 : Bit(b, j) = Bit(c, j)
    BY <1>3
  <2> QED BY <1>1, <2>1, BitsTell DEF Word, Size
<1>4. ASSUME Xor(a, b) = Xor(a, c) PROVE b = c
  <2>1. \A j \in Nat : (Bit(a, j) + Bit(b, j)) % 2 = (Bit(a, j) + Bit(c, j)) % 2
    <3> TAKE j \in Nat
    <3>1. /\ Bit(Xor(a, b), j) = (Bit(a, j) + Bit(b, j)) % 2
          /\ Bit(Xor(a, c), j) = (Bit(a, j) + Bit(c, j)) % 2
      BY XorIs
    <3> QED BY <1>4, <3>1
  <2>2. \A j \in Nat : Bit(b, j) = Bit(c, j)
    BY <1>2, <2>1, SumsTell
  <2> QED BY <1>3, <2>2
<1>5. ASSUME Xor(b, a) = Xor(c, a) PROVE b = c
  <2>1. \A j \in Nat : (Bit(b, j) + Bit(a, j)) % 2 = (Bit(c, j) + Bit(a, j)) % 2
    <3> TAKE j \in Nat
    <3>1. /\ Bit(Xor(b, a), j) = (Bit(b, j) + Bit(a, j)) % 2
          /\ Bit(Xor(c, a), j) = (Bit(c, j) + Bit(a, j)) % 2
      BY XorIs
    <3> QED BY <1>5, <3>1
  <2>2. \A j \in Nat : Bit(b, j) = Bit(c, j)
    BY <1>2, <2>1, SumsTell
  <2> QED BY <1>3, <2>2
<1> QED BY <1>4, <1>5

LEMMA XoredTells ==
  ASSUME NEW a \in Word, NEW b \in Word, NEW c \in Word
  PROVE  /\ Xored[a][b] \in Word
         /\ Xored[a][b] = Xored[a][c] => b = c
         /\ Xored[b][a] = Xored[c][a] => b = c
<1>1. /\ Xored[a][b] = Xor(a, b) /\ Xored[a][c] = Xor(a, c)
      /\ Xored[b][a] = Xor(b, a) /\ Xored[c][a] = Xor(c, a)
  BY DEF Xored
<1> QED BY <1>1, XorIs, XorTells

(* h ^ (h >> s) is: its bits tell those of h from the highest down.         *)
LEMMA XorHighTells ==
  ASSUME NEW h \in Word, NEW g \in Word, NEW s \in 1 .. WIDTH
  PROVE  XorHigh(h, s) \in Word /\ (XorHigh(h, s) = XorHigh(g, s) => h = g)
<1>1. h \in Nat /\ g \in Nat /\ WIDTH \in Nat /\ s \in Nat /\ s >= 1
  BY SizeFacts, WidthAssumption DEF Word
<1> DEFINE hs == h \div TwoTo[s]
           gs == g \div TwoTo[s]
<1>2. hs \in Word /\ gs \in Word
  BY <1>1, ShiftedWord
<1>3. \A j \in Nat : Bit(hs, j) = Bit(h, j + s) /\ Bit(gs, j) = Bit(g, j + s)
  <2> TAKE j \in Nat
  <2>1. \A x \in Nat : Bit(x \div TwoTo[s], j) = Bit(x, j + s)
    <3> TAKE x \in Nat
    <3>1. s \in Nat
      BY <1>1
    <3> QED BY <3>1, ShiftedBit
  <2> QED BY <1>1, <2>1
<1>4. XorHigh(h, s) = Xor(h, hs) /\ XorHigh(g, s) = Xor(g, gs)
  BY <1>2 DEF XorHigh, Xored
<1> HIDE DEF hs, gs
<1>5. \A j \in Nat : Bit(h, j) \in {0, 1} /\ Bit(g, j) \in {0, 1}
  BY <1>1, BitIs
<1>6. ASSUME XorHigh(h, s) = XorHigh(g, s) PROVE h = g
  <2>1. \A j \in Nat : (Bit(h, j) + Bit(h, j + s)) % 2 = (Bit(g, j) + Bit(g, j + s)) % 2
    <3> TAKE j \in Nat
    <3>1. /\ Bit(Xor(h, hs), j) = (Bit(h, j) + Bit(hs, j)) % 2
          /\ Bit(Xor(g, gs), j) = (Bit(g, j) + Bit(gs, j)) % 2
      BY <1>2, XorIs
    <3> QED BY <1>3, <1>4, <1>6, <3>1
  <2> DEFINE From(m) == \A j \in Nat : j + m >= WIDTH => Bit(h, j) = Bit(g, j)
             S == {m \in Nat : From(m)}
  <2>2. 0 \in S
    <3> SUFFICES ASSUME NEW j \in Nat, j + 0 >= WIDTH PROVE Bit(h, j) = Bit(g, j)
      OBVIOUS
    <3>1. j >= WIDTH
      BY <1>1
    <3> QED BY <3>1, HighBits
  <2>3. ASSUME NEW m \in S PROVE m + 1 \in S
    <3> SUFFICES ASSUME NEW j \in Nat, j + (m + 1) >= WIDTH PROVE Bit(h, j) = Bit(g, j)
      OBVIOUS
    <3>1. j + s \in Nat /\ (j + s) + m >= WIDTH
      BY <1>1
    <3>2. Bit(h, j + s) = Bit(g, j + s)
      BY <3>1
    <3>3. (Bit(h, j) + Bit(h, j + s)) % 2 = (Bit(g, j) + Bit(g, j + s)) % 2
      BY <2>1
    <3> QED BY <1>5, <3>1, <3>2, <3>3, SumsTell
  <2>4. \A m \in Nat : m \in S
    <3>1. S \in SUBSET Nat
      OBVIOUS
    <3> HIDE DEF S
    <3> QED BY <2>2, <2>3, <3>1, AllNumbers
  <2>5. From(WIDTH)
    BY <1>1, <2>4
  <2>6. \A j \in 0 .. WIDTH - 1 : Bit(h, j) = Bit(g, j)
    BY <1>1, <2>5
  <2> QED BY <1>1, <2>6, BitsTell DEF Word, Size
<1> QED BY <1>2, <1>4, <1>6, XorIs

(* A multiple of a power of two that is small times an odd number is zero.  *)
LEMMA OddMultiple ==
  ASSUME NEW k \in Nat, k % 2 = 1, NEW n \in Nat, NEW d \in 0 .. TwoTo[n] - 1,
         NEW q \in Int, d * k = TwoTo[n] * q
  PROVE  d = 0
<1> DEFINE Zero(x, m) == (\E r \in Int : x * k = TwoTo[m] * r) => x = 0
           S == {m \in Nat : \A x \in 0 .. TwoTo[m] - 1 : Zero(x, m)}
<1>1. 0 \in S
  BY TwoToFacts
<1>2. ASSUME NEW m \in S PROVE m + 1 \in S
  <2> SUFFICES ASSUME NEW x \in 0 .. TwoTo[m + 1] - 1, NEW r \in Int, x * k = TwoTo[m + 1] * r
               PROVE  x = 0
    OBVIOUS
  <2> DEFINE t == TwoTo[m]
  <2>1. TwoTo[m + 1] = 2 * t /\ t \in Nat /\ x \in Nat
    BY TwoToFacts
  <2>2. PICK c \in Nat : k = 2 * c + 1
    <3>1. k = 2 * (k \div 2) + 1 /\ k \div 2 \in Nat
      OBVIOUS
    <3> QED BY <3>1
  <2>3. x \in 0 .. 2 * t - 1 /\ x * k = (2 * t) * r
    BY <2>1
  <2> HIDE DEF t
  <2>4. x = 2 * (t * r - x * c)
    <3>1. x * k = 2 * (x * c) + x /\ (2 * t) * r = 2 * (t * r)
      BY <2>1, <2>2
    <3>2. x * c \in Int /\ t * r \in Int
      BY <2>1
    <3> QED BY <2>1, <2>3, <3>1, <3>2
  <2> DEFINE y == t * r - x * c
  <2>5. y \in Int
    BY <2>1
  <2>6. x = 2 * y
    BY <2>4
  <2> HIDE DEF y
  <2>7. y \in 0 .. t - 1
    BY <2>1, <2>3, <2>5, <2>6
  <2>8. y * k = t * r
    <3>1. x * k = 2 * (y * k) /\ (2 * t) * r = 2 * (t * r) /\ y * k \in Int /\ t * r \in Int
      BY <2>1, <2>5, <2>6
    <3> QED BY <2>3, <3>1
  <2>9. Zero(y, m)
    BY <2>7 DEF t
  <2>10. y = 0
    BY <2>8, <2>9 DEF t
  <2> QED BY <2>6, <2>10
<1>3. \A m \in Nat : m \in S
  <2>1. S \in SUBSET Nat
    OBVIOUS
  <2> HIDE DEF S
  <2> QED BY <1>1, <1>2, <2>1, AllNumbers
<1>4. Zero(d, n)
  BY <1>3
<1> QED BY <1>4

(* Multiplication by an odd word is one to one. *)
LEMMA TimesTells ==
  ASSUME NEW a \in Word, NEW b \in Word, NEW k \in Word, k % 2 = 1
  PROVE  Times(a, k) \in Word /\ (Times(a, k) = Times(b, k) => a = b)
<1>1. a \in Nat /\ b \in Nat /\ k \in Nat /\ a < Size /\ b < Size /\ Size \in Nat
      /\ a * k \in Int /\ b * k \in Int
  BY SizeFacts DEF Word
<1>2. /\ Times(a, k) \in Word /\ Times(b, k) \in Word
      /\ Cong(a * k, Times(a, k)) /\ Cong(Times(b, k), b * k)
  BY <1>1, ModFacts DEF Times
<1>3. ASSUME Times(a, k) = Times(b, k) PROVE a = b
  <2>1. Cong(a * k, b * k)
    <3>1. Times(a, k) \in Int
      BY <1>1, <1>2 DEF Word
    <3> QED BY <1>1, <1>2, <1>3, <3>1, CongTrans
  <2>2. PICK q \in Int : a * k = b * k + Size * q
    BY <2>1 DEF Cong
  <2>3. CASE a >= b
    <3>1. (a - b) * k = Size * q
      <4>1. (a - b) * k = a * k - b * k /\ Size * q \in Int
        BY <1>1
      <4> QED BY <1>1, <2>2, <4>1
    <3> DEFINE d == a - b
    <3>2. d \in 0 .. Size - 1
      BY <1>1, <2>3
    <3>3. d * k = Size * q
      BY <3>1
    <3> HIDE DEF d
    <3>4. d = 0
      BY <1>1, <3>2, <3>3, OddMultiple, WidthAssumption DEF Size
    <3> QED BY <1>1, <3>4 DEF d
  <2>4. CASE b >= a
    <3>1. (b - a) * k = Size * (0 - q)
      <4>1. (b - a) * k = b * k - a * k /\ Size * q \in Int /\ Size * (0 - q) = 0 - Size * q
        BY <1>1
      <4> QED BY <1>1, <2>2, <4>1
    <3> DEFINE d == b - a
               r == 0 - q
    <3>2. d \in 0 .. Size - 1 /\ r \in Int
      BY <1>1, <2>4
    <3>3. d * k = Size * r
      BY <3>1
    <3> HIDE DEF d, r
    <3>4. d = 0
      BY <1>1, <3>2, <3>3, OddMultiple, WidthAssumption DEF Size
    <3> QED BY <1>1, <3>4 DEF d
  <2> QED BY <1>1, <2>3, <2>4
<1> QED BY <1>2, <1>3

-----------------------------------------------------------------------------
(* fast_hash. *)
Lanes == [1 .. 4 -> Word]
Block == [0 .. LONG - 1 -> Word]

LEMMA KIs == \A lane \in 1 .. 4 : K[lane] \in Word /\ K[lane] % 2 = 1
BY HashAssumption DEF K

LEMMA StartType == Start \in Lanes
<1>1. Xored[FH_K1][FH_K2] \in Word
  BY XoredTells, HashAssumption
<1> QED BY <1>1, HashAssumption DEF Start, Lanes

(* A word taken in by a lane. *)
LEMMA AbsorbTells ==
  ASSUME NEW a \in Word, NEW b \in Word, NEW x \in Word, NEW y \in Word,
         NEW k \in Word, k % 2 = 1
  PROVE  /\ Absorb(a, x, k) \in Word
         /\ Absorb(a, x, k) = Absorb(a, y, k) => x = y
         /\ Absorb(a, x, k) = Absorb(b, x, k) => a = b
<1>1. Xored[a][x] \in Word /\ Xored[a][y] \in Word /\ Xored[b][x] \in Word
  BY XoredTells
<1>2. /\ Absorb(a, x, k) \in Word
      /\ Absorb(a, x, k) = Absorb(a, y, k) => Xored[a][x] = Xored[a][y]
      /\ Absorb(a, x, k) = Absorb(b, x, k) => Xored[a][x] = Xored[b][x]
  BY <1>1, TimesTells DEF Absorb
<1> QED BY <1>2, XoredTells

(* fh_mix. *)
LEMMA FhMixTells ==
  ASSUME NEW h \in Word, NEW g \in Word
  PROVE  fh_mix(h) \in Word /\ (fh_mix(h) = fh_mix(g) => h = g)
<1>1. /\ SHIFTS[1] \in 1 .. WIDTH /\ SHIFTS[2] \in 1 .. WIDTH /\ SHIFTS[3] \in 1 .. WIDTH
      /\ FH_K2 \in Word /\ FH_K2 % 2 = 1 /\ FH_K3 \in Word /\ FH_K3 % 2 = 1
  BY HashAssumption
<1> DEFINE h1 == XorHigh(h, SHIFTS[1])
           g1 == XorHigh(g, SHIFTS[1])
           h2 == Times(h1, FH_K2)
           g2 == Times(g1, FH_K2)
           h3 == XorHigh(h2, SHIFTS[2])
           g3 == XorHigh(g2, SHIFTS[2])
           h4 == Times(h3, FH_K3)
           g4 == Times(g3, FH_K3)
           h5 == XorHigh(h4, SHIFTS[3])
           g5 == XorHigh(g4, SHIFTS[3])
<1>2. h1 \in Word /\ g1 \in Word /\ (h1 = g1 => h = g)
  BY <1>1, XorHighTells
<1> HIDE DEF h1, g1
<1>3. h2 \in Word /\ g2 \in Word /\ (h2 = g2 => h1 = g1)
  BY <1>1, <1>2, TimesTells
<1> HIDE DEF h2, g2
<1>4. h3 \in Word /\ g3 \in Word /\ (h3 = g3 => h2 = g2)
  BY <1>1, <1>3, XorHighTells
<1> HIDE DEF h3, g3
<1>5. h4 \in Word /\ g4 \in Word /\ (h4 = g4 => h3 = g3)
  BY <1>1, <1>4, TimesTells
<1> HIDE DEF h4, g4
<1>6. h5 \in Word /\ (h5 = g5 => h4 = g4)
  BY <1>1, <1>5, XorHighTells
<1>7. fh_mix(h) = h5 /\ fh_mix(g) = g5
  BY DEF fh_mix, h1, h2, h3, h4, g1, g2, g3, g4
<1> HIDE DEF h5, g5
<1> QED BY <1>2, <1>3, <1>4, <1>5, <1>6, <1>7

(* Two rows of lanes that differ in one of them. *)
DifferOnlyIn(h, g, l) == h[l] # g[l] /\ \A m \in 1 .. 4 : m # l => h[m] = g[m]

(* Two lanes, a and b, that took in x and y and became c and d. *)
Took(a, b, x, y, c, d) ==
  /\ c \in Word /\ d \in Word
  /\ a = b /\ x # y => c # d
  /\ a # b /\ x = y => c # d
  /\ a = b /\ x = y => c = d

LEMMA TakesIn ==
  ASSUME NEW a \in Word, NEW b \in Word, NEW x \in Word, NEW y \in Word,
         NEW k \in Word, k % 2 = 1
  PROVE  Took(a, b, x, y, Absorb(a, x, k), Absorb(b, y, k))
<1>1. Absorb(a, x, k) \in Word /\ (Absorb(a, x, k) = Absorb(a, y, k) => x = y)
  BY AbsorbTells
<1>2. Absorb(b, y, k) \in Word
  BY AbsorbTells
<1>3. Absorb(a, x, k) = Absorb(b, x, k) => a = b
  BY AbsorbTells
<1> QED BY <1>1, <1>2, <1>3 DEF Took

LEMMA JoinTells ==
  ASSUME NEW h \in Lanes, NEW g \in Lanes
  PROVE  /\ Join(h) \in Word /\ Join(g) \in Word
         /\ \A l \in 1 .. 4 : DifferOnlyIn(h, g, l) => Join(h) # Join(g)
<1> DEFINE x1 == h[1]
           x2 == h[2]
           x3 == h[3]
           x4 == h[4]
           y1 == g[1]
           y2 == g[2]
           y3 == g[3]
           y4 == g[4]
           a1 == Times(x1, FH_K1)
           b1 == Times(y1, FH_K1)
           a2 == Absorb(a1, x2, FH_K2)
           b2 == Absorb(b1, y2, FH_K2)
           a3 == Absorb(a2, x3, FH_K3)
           b3 == Absorb(b2, y3, FH_K3)
<1>1. FH_K1 \in Word /\ FH_K1 % 2 = 1
  BY HashAssumption
<1>2. FH_K2 \in Word /\ FH_K2 % 2 = 1
  BY HashAssumption
<1>3. FH_K3 \in Word /\ FH_K3 % 2 = 1
  BY HashAssumption
<1>4. /\ x1 \in Word /\ x2 \in Word /\ x3 \in Word /\ x4 \in Word
      /\ y1 \in Word /\ y2 \in Word /\ y3 \in Word /\ y4 \in Word
  BY DEF Lanes
<1>5. Join(h) = Xored[a3][x4] /\ Join(g) = Xored[b3][y4]
  BY DEF Join, Absorb
<1>6. ASSUME NEW l \in 1 .. 4, DifferOnlyIn(h, g, l)
      PROVE  \/ x1 # y1 /\ x2 = y2 /\ x3 = y3 /\ x4 = y4
             \/ x1 = y1 /\ x2 # y2 /\ x3 = y3 /\ x4 = y4
             \/ x1 = y1 /\ x2 = y2 /\ x3 # y3 /\ x4 = y4
             \/ x1 = y1 /\ x2 = y2 /\ x3 = y3 /\ x4 # y4
  BY <1>6 DEF DifferOnlyIn
<1> HIDE DEF x1, x2, x3, x4, y1, y2, y3, y4
<1>7. a1 \in Word /\ (a1 = b1 => x1 = y1)
  BY <1>1, <1>4, TimesTells
<1>8. b1 \in Word /\ (x1 = y1 => a1 = b1)
  BY <1>1, <1>4, TimesTells
<1> HIDE DEF a1, b1
<1>9. Took(a1, b1, x2, y2, a2, b2)
  BY <1>2, <1>4, <1>7, <1>8, TakesIn
<1> HIDE DEF a2, b2
<1>10. a2 \in Word /\ b2 \in Word
  BY <1>9 DEF Took
<1>11. Took(a2, b2, x3, y3, a3, b3)
  BY <1>3, <1>4, <1>10, TakesIn
<1> HIDE DEF a3, b3
<1>12. a3 \in Word /\ b3 \in Word
  BY <1>11 DEF Took
<1>13. Xored[a3][x4] \in Word /\ (Xored[a3][x4] = Xored[a3][y4] => x4 = y4)
  BY <1>4, <1>12, XoredTells
<1>14. Xored[b3][y4] \in Word /\ (Xored[a3][y4] = Xored[b3][y4] => a3 = b3)
  BY <1>4, <1>12, XoredTells
<1>15. ASSUME NEW l \in 1 .. 4, DifferOnlyIn(h, g, l) PROVE Join(h) # Join(g)
  <2>1. \/ a3 # b3 /\ x4 = y4
        \/ a3 = b3 /\ x4 # y4
    BY <1>6, <1>7, <1>8, <1>9, <1>11, <1>15 DEF Took
  <2> QED BY <1>5, <1>13, <1>14, <2>1
<1> QED BY <1>5, <1>13, <1>14, <1>15

-----------------------------------------------------------------------------
(* The loops. *)
LoopSteps(p, N) == [n \in 1 .. N |-> [h \in Lanes |-> FourWords(p, h, 4 * (n - 1))]]
OneSteps(p) == [n \in 1 .. SHORT |-> [h \in Lanes |-> Step(p, h, Steps[n][1], Steps[n][2])]]

LEMMA FourWordsType ==
  ASSUME NEW p \in Block, NEW h \in Lanes, NEW w \in Nat, w + 3 < LONG
  PROVE  FourWords(p, h, w) \in Lanes
<1>1. ASSUME NEW lane \in 1 .. 4 PROVE Absorb(h[lane], p[w + lane - 1], K[lane]) \in Word
  <2>1. h[lane] \in Word
    BY DEF Lanes
  <2>2. w + lane - 1 \in 0 .. LONG - 1
    BY HashAssumption
  <2>3. p[w + lane - 1] \in Word
    BY <2>2 DEF Block
  <2> QED BY <2>1, <2>3, KIs, AbsorbTells
<1> QED BY <1>1 DEF FourWords, Lanes

LEMMA StepType ==
  ASSUME NEW p \in Block, NEW h \in Lanes, NEW w \in 0 .. LONG - 1, NEW lane \in 1 .. 4
  PROVE  Step(p, h, w, lane) \in Lanes
<1>1. h[lane] \in Word /\ p[w] \in Word /\ K[lane] \in Word /\ K[lane] % 2 = 1
  BY KIs DEF Lanes, Block
<1>2. Absorb(h[lane], p[w], K[lane]) \in Word
  BY <1>1, AbsorbTells
<1> QED BY <1>2 DEF Step, Lanes

LEMMA LoopStepsType ==
  ASSUME NEW p \in Block, NEW N \in Nat, 4 * N <= LONG
  PROVE  LoopSteps(p, N) \in [1 .. N -> [Lanes -> Lanes]]
<1>1. ASSUME NEW n \in 1 .. N, NEW h \in Lanes PROVE FourWords(p, h, 4 * (n - 1)) \in Lanes
  <2>1. 4 * (n - 1) \in Nat /\ 4 * (n - 1) + 3 < LONG
    BY HashAssumption
  <2> QED BY <2>1, FourWordsType
<1> QED BY <1>1 DEF LoopSteps

(* Both loops make the same run. *)
LEMMA LoopIsRun ==
  ASSUME NEW p \in Block, NEW words \in Nat, NEW N \in Nat, N = words \div 4, 4 * N <= LONG
  PROVE  \E f : /\ IsRun(f, Lanes, Start, N, LoopSteps(p, N))
                /\ Loop(p, words) = f[N]
<1> DEFINE steps == LoopSteps(p, N)
           run[n \in 0 .. words \div 4] ==
             IF n = 0 THEN Start ELSE FourWords(p, run[n - 1], 4 * (n - 1))
<1>1. steps \in [1 .. N -> [Lanes -> Lanes]]
  BY LoopStepsType
<1>2. Loop(p, words) = run[words \div 4]
  BY DEF Loop
<1>3. PICK f : IsRun(f, Lanes, Start, N, steps)
  BY <1>1, RunExists, StartType
<1>4. \A n \in 1 .. N, h \in Lanes : steps[n][h] = FourWords(p, h, 4 * (n - 1))
  BY DEF LoopSteps
<1>5. f = [n \in 0 .. words \div 4 |-> IF n = 0 THEN Start ELSE FourWords(p, f[n - 1], 4 * (n - 1))]
  <2> HIDE DEF steps
  <2>1. ASSUME NEW n \in 0 .. N
        PROVE  f[n] = IF n = 0 THEN Start ELSE FourWords(p, f[n - 1], 4 * (n - 1))
    <3>1. CASE n # 0
      <4>1. n \in 1 .. N /\ n - 1 \in 0 .. N
        BY <3>1
      <4> QED BY <1>3, <1>4, <3>1, <4>1 DEF IsRun
    <3> QED BY <1>3, <3>1 DEF IsRun
  <2> QED BY <1>3, <2>1 DEF IsRun
<1>6. run = [n \in 0 .. words \div 4 |->
               IF n = 0 THEN Start ELSE FourWords(p, run[n - 1], 4 * (n - 1))]
  BY <1>5
<1> HIDE DEF run, steps
<1>7. Recurs(run, Lanes, Start, N, steps)
  <2>1. \A n \in 0 .. N :
          run[n] = IF n = 0 THEN Start ELSE FourWords(p, run[n - 1], 4 * (n - 1))
    BY <1>6
  <2>2. run = [n \in 0 .. N |-> run[n]]
    BY <1>6
  <2>3. run[0] = Start
    BY <2>1
  <2>4. ASSUME NEW n \in 1 .. N, run[n - 1] \in Lanes PROVE run[n] = steps[n][run[n - 1]]
    <3>1. n \in 0 .. N /\ n # 0
      OBVIOUS
    <3> QED BY <1>4, <2>1, <2>4, <3>1
  <2> QED BY <2>2, <2>3, <2>4 DEF Recurs
<1>8. IsRun(run, Lanes, Start, N, steps)
  BY <1>1, <1>7, StartType, RecursionIsRun
<1> QED BY <1>2, <1>8 DEF steps

LEMMA OffsetsAreRun ==
  ASSUME NEW p \in Block, NEW N \in Nat, N = LONG \div 4, 4 * N <= LONG
  PROVE  \E f : /\ IsRun(f, Lanes, Start, N, LoopSteps(p, N))
                /\ ByOffsets(p) = f[N]
<1> DEFINE steps == LoopSteps(p, N)
           run[n \in 0 .. LONG \div 4] ==
             IF n = 0 THEN Start ELSE FourWords(p, run[n - 1], (32 * (n - 1)) \div 8)
<1>1. steps \in [1 .. N -> [Lanes -> Lanes]]
  BY LoopStepsType
<1>2. ByOffsets(p) = run[LONG \div 4]
  BY DEF ByOffsets
<1>3. PICK f : IsRun(f, Lanes, Start, N, steps)
  BY <1>1, RunExists, StartType
<1>4. \A n \in 1 .. N, h \in Lanes : steps[n][h] = FourWords(p, h, (32 * (n - 1)) \div 8)
  <2> TAKE n \in 1 .. N, h \in Lanes
  <2>1. (32 * (n - 1)) \div 8 = 4 * (n - 1)
    OBVIOUS
  <2> QED BY <2>1 DEF LoopSteps
<1>5. f = [n \in 0 .. LONG \div 4 |->
             IF n = 0 THEN Start ELSE FourWords(p, f[n - 1], (32 * (n - 1)) \div 8)]
  <2> HIDE DEF steps
  <2>1. ASSUME NEW n \in 0 .. N
        PROVE  f[n] = IF n = 0 THEN Start ELSE FourWords(p, f[n - 1], (32 * (n - 1)) \div 8)
    <3>1. CASE n # 0
      <4>1. n \in 1 .. N /\ n - 1 \in 0 .. N
        BY <3>1
      <4> QED BY <1>3, <1>4, <3>1, <4>1 DEF IsRun
    <3> QED BY <1>3, <3>1 DEF IsRun
  <2> QED BY <1>3, <2>1 DEF IsRun
<1>6. run = [n \in 0 .. LONG \div 4 |->
               IF n = 0 THEN Start ELSE FourWords(p, run[n - 1], (32 * (n - 1)) \div 8)]
  BY <1>5
<1> HIDE DEF run, steps
<1>7. Recurs(run, Lanes, Start, N, steps)
  <2>1. \A n \in 0 .. N :
          run[n] = IF n = 0 THEN Start ELSE FourWords(p, run[n - 1], (32 * (n - 1)) \div 8)
    BY <1>6
  <2>2. run = [n \in 0 .. N |-> run[n]]
    BY <1>6
  <2>3. run[0] = Start
    BY <2>1
  <2>4. ASSUME NEW n \in 1 .. N, run[n - 1] \in Lanes PROVE run[n] = steps[n][run[n - 1]]
    <3>1. n \in 0 .. N /\ n # 0
      OBVIOUS
    <3> QED BY <1>4, <2>1, <2>4, <3>1
  <2> QED BY <2>2, <2>3, <2>4 DEF Recurs
<1>8. IsRun(run, Lanes, Start, N, steps)
  BY <1>1, <1>7, StartType, RecursionIsRun
<1> QED BY <1>2, <1>8 DEF steps

(* The word and the lane of each STEP. *)
LEMMA StepsAre ==
  ASSUME NEW n \in 1 .. SHORT
  PROVE  Steps[n][1] = n - 1 /\ Steps[n][2] = ((n - 1) % 4) + 1
<1>1. /\ Steps[1] = <<0, 1>> /\ Steps[2] = <<1, 2>> /\ Steps[3] = <<2, 3>> /\ Steps[4] = <<3, 4>>
      /\ Steps[5] = <<4, 1>> /\ Steps[6] = <<5, 2>> /\ Steps[7] = <<6, 3>> /\ Steps[8] = <<7, 4>>
  BY DEF Steps
<1>2. /\ Steps[9] = <<8, 1>> /\ Steps[10] = <<9, 2>> /\ Steps[11] = <<10, 3>>
      /\ Steps[12] = <<11, 4>> /\ Steps[13] = <<12, 1>> /\ Steps[14] = <<13, 2>>
      /\ Steps[15] = <<14, 3>> /\ Steps[16] = <<15, 4>>
  BY DEF Steps
<1>3. n \in 1 .. 16
  BY DEF SHORT
<1>4. CASE n <= 8
  <2>1. \/ n = 1 \/ n = 2 \/ n = 3 \/ n = 4 \/ n = 5 \/ n = 6 \/ n = 7 \/ n = 8
    BY <1>3, <1>4
  <2> QED BY <1>1, <2>1
<1>5. CASE n > 8
  <2>1. \/ n = 9 \/ n = 10 \/ n = 11 \/ n = 12 \/ n = 13 \/ n = 14 \/ n = 15 \/ n = 16
    BY <1>3, <1>5
  <2> QED BY <1>2, <2>1
<1> QED BY <1>3, <1>4, <1>5

LEMMA OneStepsType ==
  ASSUME NEW p \in Block
  PROVE  /\ OneSteps(p) \in [1 .. SHORT -> [Lanes -> Lanes]]
         /\ \A n \in 1 .. SHORT, h \in Lanes :
              OneSteps(p)[n][h] = Step(p, h, n - 1, ((n - 1) % 4) + 1)
<1>1. ASSUME NEW n \in 1 .. SHORT, NEW h \in Lanes
      PROVE  /\ Step(p, h, Steps[n][1], Steps[n][2]) \in Lanes
             /\ Step(p, h, Steps[n][1], Steps[n][2]) = Step(p, h, n - 1, ((n - 1) % 4) + 1)
  <2>1. Steps[n][1] = n - 1 /\ Steps[n][2] = ((n - 1) % 4) + 1
    BY StepsAre
  <2>2. n - 1 \in 0 .. LONG - 1 /\ ((n - 1) % 4) + 1 \in 1 .. 4
    BY HashAssumption DEF SHORT
  <2>3. Step(p, h, n - 1, ((n - 1) % 4) + 1) \in Lanes
    BY <2>2, StepType
  <2> QED BY <2>1, <2>3
<1> QED BY <1>1 DEF OneSteps

LEMMA UnrolledIsRun ==
  ASSUME NEW p \in Block
  PROVE  \E f : IsRun(f, Lanes, Start, SHORT, OneSteps(p)) /\ Unrolled(p) = f[SHORT]
<1> DEFINE steps == OneSteps(p)
           run[n \in 0 .. SHORT] ==
             IF n = 0 THEN Start ELSE Step(p, run[n - 1], Steps[n][1], Steps[n][2])
<1>1. steps \in [1 .. SHORT -> [Lanes -> Lanes]] /\ SHORT \in Nat
  BY OneStepsType DEF SHORT
<1>2. Unrolled(p) = run[SHORT]
  BY DEF Unrolled
<1>3. PICK f : IsRun(f, Lanes, Start, SHORT, steps)
  BY <1>1, RunExists, StartType
<1>4. \A n \in 1 .. SHORT, h \in Lanes : steps[n][h] = Step(p, h, Steps[n][1], Steps[n][2])
  BY DEF OneSteps
<1>5. f = [n \in 0 .. SHORT |->
             IF n = 0 THEN Start ELSE Step(p, f[n - 1], Steps[n][1], Steps[n][2])]
  <2> HIDE DEF steps
  <2>1. ASSUME NEW n \in 0 .. SHORT
        PROVE  f[n] = IF n = 0 THEN Start ELSE Step(p, f[n - 1], Steps[n][1], Steps[n][2])
    <3>1. CASE n # 0
      <4>1. n \in 1 .. SHORT /\ n - 1 \in 0 .. SHORT
        BY <1>1, <3>1
      <4> QED BY <1>3, <1>4, <3>1, <4>1 DEF IsRun
    <3> QED BY <1>3, <3>1 DEF IsRun
  <2> QED BY <1>3, <2>1 DEF IsRun
<1>6. run = [n \in 0 .. SHORT |->
               IF n = 0 THEN Start ELSE Step(p, run[n - 1], Steps[n][1], Steps[n][2])]
  BY <1>5
<1> HIDE DEF run, steps
<1>7. Recurs(run, Lanes, Start, SHORT, steps)
  <2>1. \A n \in 0 .. SHORT :
          run[n] = IF n = 0 THEN Start ELSE Step(p, run[n - 1], Steps[n][1], Steps[n][2])
    BY <1>6
  <2>2. run = [n \in 0 .. SHORT |-> run[n]]
    BY <1>6
  <2>3. run[0] = Start
    BY <1>1, <2>1
  <2>4. ASSUME NEW n \in 1 .. SHORT, run[n - 1] \in Lanes PROVE run[n] = steps[n][run[n - 1]]
    <3>1. n \in 0 .. SHORT /\ n # 0
      BY <1>1
    <3> QED BY <1>4, <2>1, <2>4, <3>1
  <2> QED BY <2>2, <2>3, <2>4 DEF Recurs
<1>8. IsRun(run, Lanes, Start, SHORT, steps)
  BY <1>1, <1>7, StartType, RecursionIsRun
<1> QED BY <1>2, <1>8 DEF steps

(* Four STEPs of one row are an iteration of the loop. *)
LEMMA RowIsFourWords ==
  ASSUME NEW p \in Block, NEW h \in Lanes, NEW w \in Nat, w + 3 < LONG,
         NEW h1, h1 = Step(p, h, w, 1), NEW h2, h2 = Step(p, h1, w + 1, 2),
         NEW h3, h3 = Step(p, h2, w + 2, 3), NEW h4, h4 = Step(p, h3, w + 3, 4)
  PROVE  h4 = FourWords(p, h, w)
<1>1. w \in 0 .. LONG - 1 /\ w + 1 \in 0 .. LONG - 1 /\ w + 2 \in 0 .. LONG - 1 /\ w + 3 \in 0 .. LONG - 1
  BY HashAssumption
<1>2. h1 \in Lanes
  BY <1>1, StepType
<1>3. h2 \in Lanes
  BY <1>1, <1>2, StepType
<1>4. h3 \in Lanes
  BY <1>1, <1>3, StepType
<1>5. h4 \in Lanes
  BY <1>1, <1>4, StepType
<1>6. /\ h1[1] = Absorb(h[1], p[w], K[1])
      /\ h1[2] = h[2] /\ h1[3] = h[3] /\ h1[4] = h[4]
  BY DEF Step, Lanes
<1>7. /\ h2[2] = Absorb(h1[2], p[w + 1], K[2])
      /\ h2[1] = h1[1] /\ h2[3] = h1[3] /\ h2[4] = h1[4]
  BY <1>2 DEF Step, Lanes
<1>8. /\ h3[3] = Absorb(h2[3], p[w + 2], K[3])
      /\ h3[1] = h2[1] /\ h3[2] = h2[2] /\ h3[4] = h2[4]
  BY <1>3 DEF Step, Lanes
<1>9. /\ h4[4] = Absorb(h3[4], p[w + 3], K[4])
      /\ h4[1] = h3[1] /\ h4[2] = h3[2] /\ h4[3] = h3[3]
  BY <1>4 DEF Step, Lanes
<1>10. /\ h4[1] = Absorb(h[1], p[w + 1 - 1], K[1])
       /\ h4[2] = Absorb(h[2], p[w + 2 - 1], K[2])
       /\ h4[3] = Absorb(h[3], p[w + 3 - 1], K[3])
       /\ h4[4] = Absorb(h[4], p[w + 4 - 1], K[4])
  <2>1. w + 1 - 1 = w /\ w + 2 - 1 = w + 1 /\ w + 3 - 1 = w + 2 /\ w + 4 - 1 = w + 3
    OBVIOUS
  <2> QED BY <1>6, <1>7, <1>8, <1>9, <2>1
<1>11. ASSUME NEW lane \in 1 .. 4 PROVE h4[lane] = Absorb(h[lane], p[w + lane - 1], K[lane])
  <2>1. lane = 1 \/ lane = 2 \/ lane = 3 \/ lane = 4
    OBVIOUS
  <2> QED BY <1>10, <2>1
<1>12. h4 = [lane \in 1 .. 4 |-> h4[lane]]
  BY <1>5 DEF Lanes
<1> QED BY <1>11, <1>12 DEF FourWords

(* The three programs compute one hash. *)
LEMMA LoopAgain ==
  ASSUME NEW p \in Block, NEW N \in Nat, NEW f, NEW g,
         IsRun(f, Lanes, Start, N, LoopSteps(p, N)), IsRun(g, Lanes, Start, N, LoopSteps(p, N))
  PROVE  f[N] = g[N]
<1> DEFINE s == LoopSteps(p, N)
           M == N
<1>1. SameSteps(s, s, N, N)
  BY DEF SameSteps
<1> HIDE DEF s
<1>2. IsRun(f, Lanes, Start, N, s) /\ IsRun(g, Lanes, Start, N, s)
  BY DEF s
<1>3. SameUpTo(f, g, N, N)
  BY <1>1, <1>2, RunsAgree
<1> QED BY <1>3 DEF SameUpTo

LEMMA UnrolledIsLoop == ASSUME NEW p \in Block PROVE Unrolled(p) = Loop(p, SHORT)
<1>1. SHORT = 16 /\ SHORT \div 4 = 4 /\ 4 * 4 <= LONG /\ LONG \in Nat
  BY HashAssumption DEF SHORT
<1>2. PICK g : IsRun(g, Lanes, Start, 4, LoopSteps(p, 4)) /\ Loop(p, SHORT) = g[4]
  <2> DEFINE N == 4
  <2>1. N \in Nat /\ N = SHORT \div 4 /\ 4 * N <= LONG /\ SHORT \in Nat
    BY <1>1
  <2> HIDE DEF N
  <2>2. \E g : IsRun(g, Lanes, Start, N, LoopSteps(p, N)) /\ Loop(p, SHORT) = g[N]
    BY <2>1, LoopIsRun
  <2> QED BY <2>2 DEF N
<1>3. PICK f : IsRun(f, Lanes, Start, SHORT, OneSteps(p)) /\ Unrolled(p) = f[SHORT]
  BY UnrolledIsRun
<1>4. ASSUME NEW m \in 0 .. 3, f[4 * m] = g[m] PROVE f[4 * m + 4] = g[m + 1]
  <2> DEFINE w == 4 * m
             a == f[w]
             h1 == f[w + 1]
             h2 == f[w + 2]
             h3 == f[w + 3]
             h4 == f[w + 4]
             F == OneSteps(p)
  <2>1. w \in Nat /\ w + 3 < LONG /\ w % 4 = 0 /\ w + 4 <= SHORT
    BY <1>1
  <2> HIDE DEF w
  <2>2. /\ \A n \in 1 .. SHORT : f[n] = F[n][f[n - 1]]
        /\ \A n \in 0 .. SHORT : f[n] \in Lanes
    BY <1>1, <1>3 DEF IsRun
  <2>3. \A n \in 1 .. SHORT : f[n] = Step(p, f[n - 1], n - 1, ((n - 1) % 4) + 1)
    <3> TAKE n \in 1 .. SHORT
    <3>1. n - 1 \in 0 .. SHORT
      BY <1>1
    <3>2. f[n - 1] \in Lanes /\ f[n] = F[n][f[n - 1]]
      BY <2>2, <3>1
    <3> QED BY <3>2, OneStepsType
  <2> HIDE DEF F
  <2>4. /\ w + 1 \in 1 .. SHORT /\ (w + 1) - 1 = w /\ (w % 4) + 1 = 1
        /\ w + 2 \in 1 .. SHORT /\ (w + 2) - 1 = w + 1 /\ ((w + 1) % 4) + 1 = 2
        /\ w + 3 \in 1 .. SHORT /\ (w + 3) - 1 = w + 2 /\ ((w + 2) % 4) + 1 = 3
        /\ w + 4 \in 1 .. SHORT /\ (w + 4) - 1 = w + 3 /\ ((w + 3) % 4) + 1 = 4
    BY <1>1, <2>1
  <2>5. h1 = Step(p, a, w, 1)
    BY <2>3, <2>4
  <2>6. h2 = Step(p, h1, w + 1, 2)
    BY <2>3, <2>4
  <2>7. h3 = Step(p, h2, w + 2, 3)
    BY <2>3, <2>4
  <2>8. h4 = Step(p, h3, w + 3, 4)
    BY <2>3, <2>4
  <2>9. a \in Lanes
    <3>1. w \in 0 .. SHORT
      BY <1>1, <2>1
    <3> QED BY <2>2, <3>1
  <2> HIDE DEF a, h1, h2, h3, h4
  <2>10. h4 = FourWords(p, a, w)
    BY <2>1, <2>5, <2>6, <2>7, <2>8, <2>9, RowIsFourWords
  <2>11. g[m + 1] = FourWords(p, g[m], 4 * m)
    <3>1. m + 1 \in 1 .. 4 /\ (m + 1) - 1 = m /\ m \in 0 .. 4
      OBVIOUS
    <3>2. g[m + 1] = LoopSteps(p, 4)[m + 1][g[m]] /\ g[m] \in Lanes
      BY <1>2, <3>1 DEF IsRun
    <3>3. LoopSteps(p, 4)[m + 1][g[m]] = FourWords(p, g[m], 4 * ((m + 1) - 1))
      BY <3>1, <3>2 DEF LoopSteps
    <3> QED BY <3>1, <3>2, <3>3
  <2>12. a = g[m]
    BY <1>4 DEF a, w
  <2> QED BY <2>10, <2>11, <2>12 DEF h4, w
<1>5. f[0] = g[0]
  BY <1>2, <1>3 DEF IsRun
<1>6. f[4] = g[1]
  BY <1>4, <1>5
<1>7. f[8] = g[2]
  BY <1>4, <1>6
<1>8. f[12] = g[3]
  BY <1>4, <1>7
<1>9. f[16] = g[4]
  BY <1>4, <1>8
<1> QED BY <1>1, <1>2, <1>3, <1>9

LEMMA LongHalves == LONG \div 4 \in Nat /\ 4 * (LONG \div 4) = LONG /\ LONG \in Nat
BY HashAssumption

LEMMA OffsetsAreLoop == ASSUME NEW p \in Block PROVE ByOffsets(p) = Loop(p, LONG)
<1> DEFINE N == LONG \div 4
<1>1. N \in Nat /\ N = LONG \div 4 /\ 4 * N <= LONG /\ LONG \in Nat
  BY LongHalves
<1> HIDE DEF N
<1>2. PICK f : IsRun(f, Lanes, Start, N, LoopSteps(p, N)) /\ Loop(p, LONG) = f[N]
  BY <1>1, LoopIsRun
<1>3. PICK g : IsRun(g, Lanes, Start, N, LoopSteps(p, N)) /\ ByOffsets(p) = g[N]
  BY <1>1, OffsetsAreRun
<1> QED BY <1>1, <1>2, <1>3, LoopAgain

(* Whichever of the three programs, on the host or the device.              *)
LEMMA HashesAgree ==
  ASSUME NEW p \in Block
  PROVE  /\ FastHash(p, SHORT) = FastHashOf(p, SHORT)
         /\ FastHash(p, LONG) = FastHashOf(p, LONG)
<1>1. FastHash128(p) = FastHashOf(p, SHORT)
  BY UnrolledIsLoop DEF FastHash128, FastHashOf
<1>2. FastHash4096(p) = FastHashOf(p, LONG)
  BY OffsetsAreLoop DEF FastHash4096, FastHashOf
<1> QED BY <1>1, <1>2 DEF FastHash

(* The lanes and the words of a row differ at lane l alone, in one of both. *)
DifferOnce(h, g, p, q, w, l) ==
  /\ \A m \in 1 .. 4 : m # l => h[m] = g[m] /\ p[w + m - 1] = q[w + m - 1]
  /\ \/ h[l] = g[l] /\ p[w + l - 1] # q[w + l - 1]
     \/ h[l] # g[l] /\ p[w + l - 1] = q[w + l - 1]

LEMMA RowDiffers ==
  ASSUME NEW p \in Block, NEW q \in Block, NEW h \in Lanes, NEW g \in Lanes,
         NEW w \in Nat, w + 3 < LONG, NEW l \in 1 .. 4, DifferOnce(h, g, p, q, w, l)
  PROVE  DifferOnlyIn(FourWords(p, h, w), FourWords(q, g, w), l)
<1>1. ASSUME NEW m \in 1 .. 4
      PROVE  /\ FourWords(p, h, w)[m] = Absorb(h[m], p[w + m - 1], K[m])
             /\ FourWords(q, g, w)[m] = Absorb(g[m], q[w + m - 1], K[m])
  BY DEF FourWords
<1>2. ASSUME NEW m \in 1 .. 4, m # l PROVE FourWords(p, h, w)[m] = FourWords(q, g, w)[m]
  <2>1. h[m] = g[m] /\ p[w + m - 1] = q[w + m - 1]
    BY <1>2 DEF DifferOnce
  <2> QED BY <1>1, <2>1
<1>3. FourWords(p, h, w)[l] # FourWords(q, g, w)[l]
  <2> DEFINE a == h[l]
             b == g[l]
             x == p[w + l - 1]
             y == q[w + l - 1]
             k == K[l]
  <2>1. w + l - 1 \in 0 .. LONG - 1
    BY HashAssumption
  <2>2. a \in Word /\ b \in Word /\ x \in Word /\ y \in Word
    BY <2>1 DEF Lanes, Block
  <2>3. k \in Word /\ k % 2 = 1
    BY KIs
  <2>4. \/ a = b /\ x # y
        \/ a # b /\ x = y
    BY DEF DifferOnce
  <2>5. FourWords(p, h, w)[l] = Absorb(a, x, k) /\ FourWords(q, g, w)[l] = Absorb(b, y, k)
    BY <1>1
  <2> HIDE DEF a, b, x, y, k
  <2>6. Took(a, b, x, y, Absorb(a, x, k), Absorb(b, y, k))
    BY <2>2, <2>3, TakesIn
  <2> QED BY <2>4, <2>5, <2>6 DEF Took
<1> QED BY <1>2, <1>3 DEF DifferOnlyIn

(* Two blocks that differ in one word. *)
OneWord(p, q, w0) == p[w0] # q[w0] /\ \A w \in 0 .. LONG - 1 : w # w0 => p[w] = q[w]

(* Up to the row of that word the lanes agree, and after it one differs.    *)
LanesSoFar(f, g, n, w0) ==
  /\ n <= w0 \div 4 => f[n] = g[n]
  /\ n > w0 \div 4 => DifferOnlyIn(f[n], g[n], (w0 % 4) + 1)

LEMMA LanesDiffer ==
  ASSUME NEW p \in Block, NEW q \in Block, NEW w0 \in 0 .. LONG - 1, OneWord(p, q, w0),
         NEW N \in Nat, 4 * N = LONG, NEW f, NEW g,
         IsRun(f, Lanes, Start, N, LoopSteps(p, N)), IsRun(g, Lanes, Start, N, LoopSteps(q, N))
  PROVE  DifferOnlyIn(f[N], g[N], (w0 % 4) + 1)
<1> DEFINE l == (w0 % 4) + 1
           r == w0 \div 4
           S == {n \in Nat : n <= N => LanesSoFar(f, g, n, w0)}
<1>1. l \in 1 .. 4 /\ r \in Nat /\ r < N /\ w0 = 4 * r + l - 1 /\ w0 \in Nat
  BY HashAssumption
<1>2. 0 \in S
  BY <1>1 DEF IsRun, LanesSoFar
<1>3. ASSUME NEW n \in S PROVE n + 1 \in S
  <2> SUFFICES ASSUME n + 1 <= N PROVE LanesSoFar(f, g, n + 1, w0)
    OBVIOUS
  <2> DEFINE w == 4 * n
             h == f[n]
             c == g[n]
  <2>1. n \in Nat /\ n + 1 \in 1 .. N /\ (n + 1) - 1 = n /\ n \in 0 .. N
    OBVIOUS
  <2>2. w \in Nat /\ w + 3 < LONG
    BY <2>1
  <2>3. h \in Lanes /\ c \in Lanes
    BY <2>1 DEF IsRun
  <2>4. f[n + 1] = FourWords(p, h, w)
    <3>1. f[n + 1] = LoopSteps(p, N)[n + 1][h]
      BY <2>1 DEF IsRun
    <3>2. LoopSteps(p, N)[n + 1][h] = FourWords(p, h, 4 * ((n + 1) - 1))
      BY <2>1, <2>3 DEF LoopSteps
    <3> QED BY <2>1, <3>1, <3>2
  <2>5. g[n + 1] = FourWords(q, c, w)
    <3>1. g[n + 1] = LoopSteps(q, N)[n + 1][c]
      BY <2>1 DEF IsRun
    <3>2. LoopSteps(q, N)[n + 1][c] = FourWords(q, c, 4 * ((n + 1) - 1))
      BY <2>1, <2>3 DEF LoopSteps
    <3> QED BY <2>1, <3>1, <3>2
  <2>6. ASSUME NEW m \in 1 .. 4, n # r \/ m # l PROVE p[w + m - 1] = q[w + m - 1]
    <3>1. w + m - 1 \in 0 .. LONG - 1
      BY <2>2
    <3>2. w + m - 1 # w0
      <4>1. CASE n < r
        BY <1>1, <2>1, <4>1
      <4>2. CASE n > r
        BY <1>1, <2>1, <4>2
      <4>3. CASE n = r
        BY <1>1, <2>1, <2>6, <4>3
      <4> QED BY <1>1, <2>1, <4>1, <4>2, <4>3
    <3> QED BY <3>1, <3>2 DEF OneWord
  <2>7. LanesSoFar(f, g, n, w0)
    BY <2>1
  <2>8. r = w0 \div 4 /\ l = (w0 % 4) + 1
    OBVIOUS
  <2>9. r \in Nat /\ l \in 1 .. 4 /\ n \in Nat
    BY <1>1, <2>1
  <2>10. CASE n < r
    <3>1. h = c
      BY <2>7, <2>8, <2>9, <2>10 DEF LanesSoFar
    <3>2. \A m \in 1 .. 4 : p[w + m - 1] = q[w + m - 1]
      BY <2>6, <2>9, <2>10
    <3>3. FourWords(p, h, w) = FourWords(q, h, w)
      <4> HIDE DEF w, h
      <4> QED BY <3>2 DEF FourWords
    <3>4. f[n + 1] = g[n + 1]
      BY <2>4, <2>5, <3>1, <3>3
    <3>5. ~ (n + 1 > r)
      BY <2>9, <2>10
    <3> QED BY <2>8, <3>4, <3>5 DEF LanesSoFar
  <2>11. CASE n = r
    <3>1. h = c
      BY <2>7, <2>8, <2>9, <2>11 DEF LanesSoFar
    <3>2. p[w + l - 1] # q[w + l - 1]
      <4>1. w + l - 1 = w0
        BY <1>1, <2>11
      <4> QED BY <4>1 DEF OneWord
    <3>3. \A m \in 1 .. 4 : m # l => p[w + m - 1] = q[w + m - 1]
      BY <2>6
    <3> HIDE DEF l, r, h, c, w
    <3>4. DifferOnce(h, c, p, q, w, l)
      BY <3>1, <3>2, <3>3 DEF DifferOnce
    <3>5. DifferOnlyIn(FourWords(p, h, w), FourWords(q, c, w), l)
      BY <2>2, <2>3, <2>9, <3>4, RowDiffers
    <3>6. ~ (n + 1 <= r)
      BY <2>9, <2>11
    <3> QED BY <2>4, <2>5, <2>8, <3>5, <3>6 DEF LanesSoFar
  <2>12. CASE n > r
    <3>1. DifferOnlyIn(h, c, l)
      BY <2>7, <2>8, <2>9, <2>12 DEF LanesSoFar
    <3>2. \A m \in 1 .. 4 : p[w + m - 1] = q[w + m - 1]
      BY <2>6, <2>9, <2>12
    <3> HIDE DEF l, r, h, c, w
    <3>4. DifferOnce(h, c, p, q, w, l)
      BY <2>9, <3>1, <3>2 DEF DifferOnce, DifferOnlyIn
    <3>5. DifferOnlyIn(FourWords(p, h, w), FourWords(q, c, w), l)
      BY <2>2, <2>3, <2>9, <3>4, RowDiffers
    <3>6. ~ (n + 1 <= r)
      BY <2>9, <2>12
    <3> QED BY <2>4, <2>5, <2>8, <3>5, <3>6 DEF LanesSoFar
  <2> QED BY <2>9, <2>10, <2>11, <2>12
<1>4. \A n \in Nat : n \in S
  <2>1. S \in SUBSET Nat
    OBVIOUS
  <2> HIDE DEF S
  <2> QED BY <1>2, <1>3, <2>1, AllNumbers
<1>5. LanesSoFar(f, g, N, w0)
  BY <1>4
<1>6. N > w0 \div 4
  BY <1>1
<1> QED BY <1>5, <1>6 DEF LanesSoFar

LEMMA BytesIs == ASSUME NEW n \in Nat PROVE Bytes(n) \in Word
<1>1. 8 * n \in Int
  OBVIOUS
<1> QED BY <1>1, SizeFacts, ModFacts DEF Bytes

(* Every step is one to one in the lane and in the word, so that a word     *)
(* that differs shows in the hash.                                          *)
LEMMA FlipShows ==
  ASSUME NEW p \in Block, NEW q \in Block, NEW w0 \in 0 .. LONG - 1, OneWord(p, q, w0)
  PROVE  FastHashOf(p, LONG) # FastHashOf(q, LONG)
<1> DEFINE N == LONG \div 4
           l == (w0 % 4) + 1
           P == Loop(p, LONG)
           Q == Loop(q, LONG)
           B == Bytes(LONG)
<1>1. N \in Nat /\ N = LONG \div 4 /\ 4 * N <= LONG /\ 4 * N = LONG /\ LONG \in Nat
  BY LongHalves
<1>2. l \in 1 .. 4
  BY HashAssumption
<1> HIDE DEF N
<1>3. PICK f : IsRun(f, Lanes, Start, N, LoopSteps(p, N)) /\ P = f[N]
  BY <1>1, LoopIsRun
<1>4. PICK g : IsRun(g, Lanes, Start, N, LoopSteps(q, N)) /\ Q = g[N]
  BY <1>1, LoopIsRun
<1>5. f[N] \in Lanes /\ g[N] \in Lanes
  <2>1. N \in 0 .. N
    BY <1>1
  <2> QED BY <1>3, <1>4, <2>1 DEF IsRun
<1>6. DifferOnlyIn(f[N], g[N], (w0 % 4) + 1)
  BY <1>1, <1>3, <1>4, LanesDiffer
<1>7. P \in Lanes /\ Q \in Lanes /\ DifferOnlyIn(P, Q, l)
  BY <1>3, <1>4, <1>5, <1>6
<1>8. B \in Word
  BY <1>1, BytesIs
<1>9. FastHashOf(p, LONG) = fh_mix(Xored[Join(P)][B]) /\ FastHashOf(q, LONG) = fh_mix(Xored[Join(Q)][B])
  BY DEF FastHashOf
<1> DEFINE a == Join(P)
           b == Join(Q)
           c == Xored[a][B]
           d == Xored[b][B]
<1> HIDE DEF P, Q, B, l
<1>10. a \in Word /\ b \in Word /\ a # b
  BY <1>2, <1>7, JoinTells
<1> HIDE DEF a, b
<1>11. c \in Word /\ (Xored[a][B] = Xored[b][B] => a = b)
  BY <1>8, <1>10, XoredTells
<1>12. d \in Word
  BY <1>8, <1>10, XoredTells
<1>13. c # d
  BY <1>10, <1>11
<1> HIDE DEF c, d
<1>14. fh_mix(c) # fh_mix(d)
  BY <1>11, <1>12, <1>13, FhMixTells
<1> QED BY <1>9, <1>14 DEF a, b, c, d

-----------------------------------------------------------------------------
(* HashKernel.  The blocks are filled, the third from the second, in one    *)
(* word; what a kernel has no thread left for is hashed, and what no kernel *)
(* was queued for is as it was allocated.                                   *)
Filled ==
  /\ blocks[1] \in Block /\ blocks[2] \in Block /\ blocks[3] \in Block
  /\ \E w0 \in 0 .. LONG - 1 : OneWord(blocks[2], blocks[3], w0)

Allocating ==
  DOMAIN memory = Buffers /\ \A b \in Buffers : memory[b] \in {<<>>} \cup FreshMemory(b)
Allocated == DOMAIN memory = Buffers /\ \A b \in Buffers : memory[b] \in FreshMemory(b)
CopiedIn ==
  /\ DOMAIN memory = Buffers
  /\ memory["in128"][0] = blocks[1]
  /\ memory["in4k"][0] = blocks[2] /\ memory["in4k"][1] = blocks[3]
  /\ DOMAIN memory["out128"] = {0} /\ DOMAIN memory["out4k"] = {0, 1}

Fresh1 == "out128" \notin refused /\ memory["out128"][0] \in GARBAGE
Fresh2 == "out4k" \notin refused /\ memory["out4k"][0] \in GARBAGE /\ memory["out4k"][1] \in GARBAGE

(* What a result is in the end *)
Due(value, block, words, out) ==
  IF out \in refused THEN value \in GARBAGE ELSE value = FastHashOf(block, words)
Hash1 == Due(memory["out128"][0], blocks[1], SHORT, "out128")
Hash2 == Due(memory["out4k"][0], blocks[2], LONG, "out4k")
Hash3 == Due(memory["out4k"][1], blocks[3], LONG, "out4k")
ShortLeft(t) == "out128" \notin refused /\ (0 \notin t => Hash1)
LongLeft(t) == "out4k" \notin refused /\ (0 \notin t => Hash2) /\ (1 \notin t => Hash3)

(* A launch of which the threads t are left *)
Short(t) == [in |-> "in128", out |-> "out128", words |-> SHORT, num_blocks |-> 1, todo |-> t]
Long(t) == [in |-> "in4k", out |-> "out4k", words |-> LONG, num_blocks |-> 2, todo |-> t]

ShortRuns == \E t : stream = <<Short(t)>> /\ ShortLeft(t)
BothRun == \E t, u : stream = <<Short(t), Long(u)>> /\ ShortLeft(t) /\ LongLeft(u)
ShortRunsLast == ShortRuns /\ Hash2 /\ Hash3
LongRuns == \E t : stream = <<Long(t)>> /\ Hash1 /\ LongLeft(t)
Launched == stream = <<>> /\ Hash1
Finished == stream = <<>> /\ Hash1 /\ Hash2 /\ Hash3

Printable ==
  /\ Due(h_results[1], blocks[1], SHORT, "out128")
  /\ Due(h_results[2], blocks[2], LONG, "out4k") /\ Due(h_results[3], blocks[3], LONG, "out4k")

KernelInv ==
  /\ host \in {"malloc", "cudaMalloc", "copy in", "launch"} => stream = <<>> /\ refused = {}
  /\ host = "malloc" => memory = [b \in Buffers |-> <<>>]
  /\ host = "cudaMalloc" => Allocating
  /\ host = "copy in" => Allocated
  /\ host \in {"launch", "launch again", "synchronize", "copy back"} => CopiedIn
  /\ host \in {"cudaMalloc", "copy in", "launch", "launch again", "synchronize", "copy back",
               "print", "free"} => Filled
  /\ host = "launch" => Fresh1
  /\ host \in {"launch", "launch again"} => Fresh2
  /\ host = "launch again" => ShortRuns \/ Launched
  /\ host = "synchronize" => BothRun \/ ShortRunsLast \/ LongRuns \/ Finished
  /\ host = "copy back" => Finished
  /\ host \in {"print", "free"} => Printable
  /\ host = "return 0" => FlippedBitShows

LEMMA XorChanges ==
  ASSUME NEW a \in Word, NEW b \in Word, b # 0 PROVE Xored[a][b] # a
<1>1. 0 \in Word /\ a \in Nat /\ WIDTH \in Nat
  BY SizeFacts, WidthAssumption DEF Word
<1>2. \A j \in Nat : Bit(0, j) = 0
  <2> TAKE j \in Nat
  <2>1. TwoTo[j] \in Nat \ {0}
    BY TwoToFacts
  <2> DEFINE t == TwoTo[j]
  <2>2. 0 \div t = 0
    <3> HIDE DEF t
    <3>1. t \in Nat \ {0}
      BY <2>1 DEF t
    <3> QED BY <3>1
  <2> QED BY <2>2 DEF Bit
<1>3. Xor(a, 0) = a
  <2>1. \A j \in Nat : Bit(Xor(a, 0), j) = Bit(a, j)
    <3> TAKE j \in Nat
    <3>1. Bit(Xor(a, 0), j) = (Bit(a, j) + Bit(0, j)) % 2
      BY <1>1, XorIs
    <3>2. Bit(a, j) \in {0, 1} /\ Bit(0, j) = 0
      BY <1>1, <1>2, BitIs
    <3> QED BY <3>1, <3>2
  <2>2. \A j \in 0 .. WIDTH - 1 : Bit(Xor(a, 0), j) = Bit(a, j)
    BY <1>1, <2>1
  <2>3. Xor(a, 0) \in Word
    BY <1>1, XorIs
  <2> QED BY <1>1, <2>2, <2>3, BitsTell DEF Word, Size
<1>4. Xored[a][0] = a
  BY <1>1, <1>3 DEF Xored
<1>5. Xored[a][0] # Xored[a][b]
  BY <1>1, XoredTells
<1> QED BY <1>4, <1>5

LEMMA BitIsWord ==
  ASSUME NEW bit \in 0 .. WIDTH - 1 PROVE TwoTo[bit] \in Word /\ TwoTo[bit] # 0
<1>1. bit \in Nat /\ bit + 1 \in Nat /\ bit + 1 <= WIDTH /\ WIDTH \in Nat
  BY WidthAssumption
<1>2. TwoTo[bit + 1] = 2 * TwoTo[bit] /\ TwoTo[bit] \in Nat \ {0}
  BY <1>1, TwoToFacts
<1>3. TwoTo[bit + 1] <= TwoTo[WIDTH]
  BY <1>1, TwoToGrows
<1>4. TwoTo[WIDTH] \in Nat
  BY <1>1, TwoToFacts
<1> QED BY <1>2, <1>3, <1>4 DEF Word, Size

LEMMA PatternIsBlock == ASSUME NEW seed \in Word PROVE FillPattern(seed) \in Block
<1>1. ASSUME NEW w \in 0 .. LONG - 1 PROVE (seed + 31 * w) % Size \in Word
  <2>1. seed + 31 * w \in Int
    BY HashAssumption, SizeFacts DEF Word
  <2> QED BY <2>1, ModFacts
<1> QED BY <1>1 DEF FillPattern, Block

LEMMA FlippedIsBlock ==
  ASSUME NEW p \in Block, NEW w0 \in 0 .. LONG - 1, NEW bit \in 0 .. WIDTH - 1,
         NEW q, q = [p EXCEPT ![w0] = Xored[@][TwoTo[bit]]]
  PROVE  q \in Block /\ OneWord(p, q, w0)
<1>1. p[w0] \in Word /\ TwoTo[bit] \in Word /\ TwoTo[bit] # 0
  BY BitIsWord DEF Block
<1>2. Xored[p[w0]][TwoTo[bit]] \in Word /\ Xored[p[w0]][TwoTo[bit]] # p[w0]
  BY <1>1, XoredTells, XorChanges
<1> QED BY <1>1, <1>2 DEF Block, OneWord

LEMMA KernelInitial == KernelInit => KernelInv
BY DEF KernelInit, KernelInv

(* The invariant through each step of the host, then of the device. *)
LEMMA MallocKeeps == KernelInv /\ Malloc => KernelInv'
<1> SUFFICES ASSUME KernelInv, Malloc PROVE KernelInv'
  OBVIOUS
<1>1. host = "malloc" /\ stream = <<>> /\ refused = {} /\ memory = [b \in Buffers |-> <<>>]
  BY DEF Malloc, Goto, KernelInv
<1>2. UNCHANGED <<memory, stream, refused, h_results>>
  BY DEF Malloc
<1>3. CASE host' = "SIGSEGV"
  BY <1>3 DEF KernelInv
<1>4. CASE host' = "cudaMalloc"
  <2>1. PICK seed128 \in SEEDS, seed4k \in SEEDS, w0 \in 0 .. LONG - 1, bit \in 0 .. WIDTH - 1 :
          blocks' = << FillPattern(seed128), FillPattern(seed4k),
                       [FillPattern(seed4k) EXCEPT ![w0] = Xored[@][TwoTo[bit]]] >>
    BY <1>4 DEF Malloc, Goto
  <2> DEFINE a == FillPattern(seed128)
             p == FillPattern(seed4k)
             q == [p EXCEPT ![w0] = Xored[@][TwoTo[bit]]]
  <2>2. a \in Block /\ p \in Block
    BY KernelAssumption, PatternIsBlock
  <2>3. blocks' = <<a, p, q>>
    BY <2>1
  <2> HIDE DEF a, p
  <2>4. q \in Block /\ OneWord(p, q, w0)
    BY <2>2, FlippedIsBlock
  <2> HIDE DEF q
  <2>5. blocks'[1] = a /\ blocks'[2] = p /\ blocks'[3] = q
    BY <2>3
  <2>6. Filled'
    BY <2>2, <2>4, <2>5 DEF Filled
  <2>7. Allocating'
    BY <1>1, <1>2 DEF Allocating
  <2> QED BY <1>1, <1>2, <1>4, <2>6, <2>7 DEF KernelInv
<1> QED BY <1>3, <1>4 DEF Malloc, Goto

LEMMA CudaMallocKeeps == KernelInv /\ CudaMalloc => KernelInv'
<1> SUFFICES ASSUME KernelInv, CudaMalloc PROVE KernelInv'
  OBVIOUS
<1>1. PICK k \in 1 .. 4 :
        /\ Goto("cudaMalloc", IF k = 4 THEN "copy in" ELSE "cudaMalloc")
        /\ memory[Order[k]] = <<>> /\ \A j \in 1 .. k - 1 : memory[Order[j]] # <<>>
        /\ \E fresh \in FreshMemory(Order[k]) : memory' = [memory EXCEPT ![Order[k]] = fresh]
  BY DEF CudaMalloc
<1>2. host = "cudaMalloc" /\ stream = <<>> /\ refused = {} /\ Allocating /\ Filled
  BY <1>1 DEF Goto, KernelInv
<1>3. UNCHANGED <<blocks, stream, refused, h_results>>
  BY DEF CudaMalloc
<1>4. Filled'
  BY <1>2, <1>3 DEF Filled
<1>5. PICK fresh \in FreshMemory(Order[k]) : memory' = [memory EXCEPT ![Order[k]] = fresh]
  BY <1>1
<1>6. Order[k] \in Buffers
  BY DEF Order, Buffers
<1>7. /\ DOMAIN memory' = Buffers /\ memory'[Order[k]] \in FreshMemory(Order[k])
      /\ \A b \in Buffers \ {Order[k]} : memory'[b] = memory[b]
  BY <1>2, <1>5, <1>6 DEF Allocating
<1>8. Allocating'
  BY <1>2, <1>7 DEF Allocating
<1>9. CASE k # 4
  <2>1. host' = "cudaMalloc"
    BY <1>1, <1>9 DEF Goto
  <2> QED BY <1>2, <1>3, <1>4, <1>8, <2>1 DEF KernelInv
<1>10. CASE k = 4
  <2>1. host' = "copy in"
    BY <1>1, <1>10 DEF Goto
  <2>2. /\ Order[1] = "in128" /\ Order[2] = "out128" /\ Order[3] = "in4k" /\ Order[4] = "out4k"
        /\ 1 \in 1 .. k - 1 /\ 2 \in 1 .. k - 1 /\ 3 \in 1 .. k - 1
    BY <1>10 DEF Order
  <2>3. memory["in128"] # <<>> /\ memory["out128"] # <<>> /\ memory["in4k"] # <<>>
    BY <1>1, <2>2
  <2>4. Order[k] = "out4k"
    BY <1>10, <2>2
  <2>5. \A b \in Buffers \ {"out4k"} : memory[b] # <<>>
    BY <2>3 DEF Buffers
  <2>6. ASSUME NEW b \in Buffers PROVE memory'[b] \in FreshMemory(b)
    <3>1. CASE b = "out4k"
      BY <1>7, <2>4, <3>1
    <3>2. CASE b # "out4k"
      <4>1. memory'[b] = memory[b] /\ memory[b] # <<>>
        BY <1>7, <2>4, <2>5, <3>2
      <4> QED BY <1>2, <4>1 DEF Allocating
    <3> QED BY <3>1, <3>2
  <2>7. Allocated'
    BY <1>7, <2>6 DEF Allocated
  <2> QED BY <1>2, <1>3, <1>4, <2>1, <2>7 DEF KernelInv
<1> QED BY <1>9, <1>10

LEMMA CopyInKeeps == KernelInv /\ CopyIn => KernelInv'
<1> SUFFICES ASSUME KernelInv, CopyIn PROVE KernelInv'
  OBVIOUS
<1>1. host = "copy in" /\ host' = "launch" /\ UNCHANGED <<blocks, stream, refused, h_results>>
  BY DEF CopyIn, Goto
<1>2. stream = <<>> /\ refused = {} /\ Allocated /\ Filled
  BY <1>1 DEF KernelInv
<1>3. Filled'
  BY <1>1, <1>2 DEF Filled
<1>4. /\ Inputs["in128"] = [m \in {0} |-> blocks[1]]
      /\ Inputs["in4k"] = [m \in {0, 1} |-> blocks[2 + m]] /\ DOMAIN Inputs = {"in128", "in4k"}
  BY DEF Inputs
<1>5. memory' = [b \in Buffers |-> IF b \in {"in128", "in4k"} THEN Inputs[b] ELSE memory[b]]
  BY <1>4 DEF CopyIn
<1>6. /\ memory'["in128"] = Inputs["in128"] /\ memory'["in4k"] = Inputs["in4k"]
      /\ memory'["out128"] = memory["out128"] /\ memory'["out4k"] = memory["out4k"]
      /\ DOMAIN memory' = Buffers
  BY <1>5 DEF Buffers
<1>7. memory["out128"] \in [{0} -> GARBAGE] /\ memory["out4k"] \in [{0, 1} -> GARBAGE]
  <2>1. memory["out128"] \in FreshMemory("out128") /\ memory["out4k"] \in FreshMemory("out4k")
    BY <1>2 DEF Allocated, Buffers
  <2>2. NumBlocks("out128") = 1 /\ NumBlocks("out4k") = 2
    BY DEF NumBlocks
  <2>3. /\ FreshMemory("out128") = [0 .. 1 - 1 -> GARBAGE]
        /\ FreshMemory("out4k") = [0 .. 2 - 1 -> GARBAGE]
    BY <2>2 DEF FreshMemory
  <2>4. 0 .. 1 - 1 = {0} /\ 0 .. 2 - 1 = {0, 1}
    OBVIOUS
  <2> QED BY <2>1, <2>3, <2>4
<1>8. CopiedIn'
  <2>1. memory'["in128"][0] = blocks[1]
    BY <1>4, <1>6
  <2>2. memory'["in4k"][0] = blocks[2] /\ memory'["in4k"][1] = blocks[3]
    BY <1>4, <1>6
  <2>3. DOMAIN memory'["out128"] = {0} /\ DOMAIN memory'["out4k"] = {0, 1}
    BY <1>6, <1>7
  <2> QED BY <1>1, <1>6, <2>1, <2>2, <2>3 DEF CopiedIn
<1>9. Fresh1' /\ Fresh2'
  BY <1>1, <1>2, <1>6, <1>7 DEF Fresh1, Fresh2
<1> QED BY <1>1, <1>2, <1>3, <1>8, <1>9 DEF KernelInv

(* Rounded up, the threads of a grid cover its blocks. *)
LEMMA GridCovers ==
  ASSUME NEW n \in Nat PROVE GridSize(n) * ThreadsPerBlock \in Nat /\ GridSize(n) * ThreadsPerBlock >= n
<1> DEFINE T == ThreadsPerBlock
           x == n + T - 1
<1>1. T \in Nat \ {0}
  BY KernelAssumption
<1> HIDE DEF T
<1>2. x \in Nat
  BY <1>1
<1>3. x \div T \in Nat /\ x < T * (x \div T) + T
  <2> HIDE DEF x
  <2> QED BY <1>1, <1>2, DivFacts
<1> DEFINE d == x \div T
           y == d * T
<1>4. y = T * d /\ y \in Nat /\ d \in Nat
  <2>1. d \in Nat
    BY <1>3
  <2> HIDE DEF d
  <2> QED BY <1>1, <2>1
<1>5. x < y + T
  BY <1>3, <1>4
<1>6. GridSize(n) * ThreadsPerBlock = y
  BY DEF GridSize, T
<1>7. y >= n
  <2> HIDE DEF y
  <2> QED BY <1>1, <1>4, <1>5 DEF x
<1> HIDE DEF y
<1> QED BY <1>4, <1>6, <1>7

LEMMA KernelsAre ==
  /\ \E t : Kernel("in128", "out128", SHORT, 1) = Short(t) /\ 0 \in t
  /\ \E t : Kernel("in4k", "out4k", LONG, 2) = Long(t) /\ 0 \in t /\ 1 \in t
<1>1. 0 \in 0 .. GridSize(1) * ThreadsPerBlock - 1
  <2>1. GridSize(1) * ThreadsPerBlock \in Nat /\ GridSize(1) * ThreadsPerBlock >= 1
    BY GridCovers
  <2> QED BY <2>1
<1>2. 0 \in 0 .. GridSize(2) * ThreadsPerBlock - 1 /\ 1 \in 0 .. GridSize(2) * ThreadsPerBlock - 1
  <2>1. GridSize(2) * ThreadsPerBlock \in Nat /\ GridSize(2) * ThreadsPerBlock >= 2
    BY GridCovers
  <2> QED BY <2>1
<1>3. Kernel("in128", "out128", SHORT, 1) = Short(0 .. GridSize(1) * ThreadsPerBlock - 1)
  BY DEF Kernel, Short
<1>4. Kernel("in4k", "out4k", LONG, 2) = Long(0 .. GridSize(2) * ThreadsPerBlock - 1)
  BY DEF Kernel, Long
<1> QED BY <1>1, <1>2, <1>3, <1>4

(* Sequences of one launch and of two. *)
LEMMA Sequences1 == \A k : Append(<<>>, k) = <<k>> /\ \A e : Append(<<e>>, k) = <<e, k>>
<1>1. ASSUME NEW k PROVE Append(<<>>, k) = <<k>>
  OBVIOUS
<1>2. ASSUME NEW k, NEW e PROVE Append(<<e>>, k) = <<e, k>>
  <2> DEFINE S == {e, k}
             s == Append(<<e>>, k)
  <2>1. <<e>> \in Seq(S) /\ k \in S /\ Len(<<e>>) = 1 /\ <<e>>[1] = e
    OBVIOUS
  <2> HIDE DEF S
  <2>2. Len(s) = 2 /\ s \in Seq(S) /\ s[1] = e /\ s[2] = k
    BY <2>1
  <2>3. <<e, k>>[1] = e /\ <<e, k>>[2] = k /\ Len(<<e, k>>) = 2
    OBVIOUS
  <2> HIDE DEF s
  <2>4. DOMAIN s = 1 .. 2 /\ s = [m \in 1 .. 2 |-> s[m]]
    BY <2>2
  <2>5. <<e, k>> = [m \in 1 .. 2 |-> <<e, k>>[m]]
    OBVIOUS
  <2>6. \A m \in 1 .. 2 : s[m] = <<e, k>>[m]
    <3>1. \A m \in 1 .. 2 : m = 1 \/ m = 2
      OBVIOUS
    <3> QED BY <2>2, <2>3, <3>1
  <2>7. s = <<e, k>>
    BY <2>4, <2>5, <2>6
  <2> QED BY <2>7 DEF s
<1> QED BY <1>1, <1>2

LEMMA Sequences2 ==
  ASSUME NEW a, NEW b, NEW c
  PROVE  /\ <<a>> # <<>> /\ Head(<<a>>) = a /\ Tail(<<a>>) = <<>> /\ <<c>> \o Tail(<<a>>) = <<c>>
         /\ <<a, b>> # <<>> /\ Head(<<a, b>>) = a /\ Tail(<<a, b>>) = <<b>>
         /\ <<c>> \o Tail(<<a, b>>) = <<c, b>>
<1>1. Tail(<<a>>) = <<>> /\ Tail(<<a, b>>) = <<b>>
  OBVIOUS
<1>2. <<c>> \o <<>> = <<c>>
  OBVIOUS
<1>3. <<c>> \o <<b>> = <<c, b>>
  <2>1. <<c>> \o <<b>> = Append(<<c>>, b)
    <3> DEFINE S == {b, c}
               s == <<c>>
    <3>1. s \in Seq(S) /\ b \in S
      OBVIOUS
    <3> HIDE DEF S, s
    <3>2. Append(s, b) = s \o <<b>>
      BY <3>1, AppendIsConcat
    <3> QED BY <3>2 DEF s
  <2> QED BY <2>1, Sequences1
<1>4. <<a>> # <<>> /\ Head(<<a>>) = a /\ <<a, b>> # <<>> /\ Head(<<a, b>>) = a
  OBVIOUS
<1> QED BY <1>1, <1>2, <1>3, <1>4

LEMMA LaunchKeeps == KernelInv /\ Launch => KernelInv'
<1> SUFFICES ASSUME KernelInv, Launch PROVE KernelInv'
  OBVIOUS
<1>1. UNCHANGED <<blocks, memory, h_results>>
  BY DEF Launch
<1>2. host \in {"launch", "launch again"} /\ CopiedIn /\ Filled
  BY DEF Launch, Goto, KernelInv
<1>3. CopiedIn' /\ Filled'
  BY <1>1, <1>2 DEF CopiedIn, Filled
<1>4. \A k : Append(<<>>, k) = <<k>> /\ \A e : Append(<<e>>, k) = <<e, k>>
  BY Sequences1
<1>5. CASE host = "launch"
  <2>1. host' = "launch again" /\ Queue(Kernel("in128", "out128", SHORT, 1))
    BY <1>5 DEF Launch, Goto
  <2>2. PICK t : Kernel("in128", "out128", SHORT, 1) = Short(t) /\ 0 \in t
    BY KernelsAre
  <2>3. stream = <<>> /\ refused = {} /\ Fresh1 /\ Fresh2
    BY <1>5 DEF KernelInv
  <2>4. Short(t).out = "out128"
    BY DEF Short
  <2>5. CASE stream' = Append(stream, Short(t)) /\ UNCHANGED refused
    <3>1. stream' = <<Short(t)>>
      BY <1>4, <2>3, <2>5
    <3>2. ShortLeft(t)'
      BY <2>2, <2>3, <2>5 DEF ShortLeft, Fresh1
    <3>3. ShortRuns'
      BY <3>1, <3>2 DEF ShortRuns
    <3>4. Fresh2'
      BY <1>1, <2>3, <2>5 DEF Fresh2
    <3> QED BY <1>3, <2>1, <3>3, <3>4 DEF KernelInv
  <2>6. CASE refused' = refused \cup {"out128"} /\ UNCHANGED stream
    <3>1. Launched'
      BY <1>1, <2>3, <2>6 DEF Launched, Hash1, Due, Fresh1
    <3>2. Fresh2'
      BY <1>1, <2>3, <2>6 DEF Fresh2
    <3> QED BY <1>3, <2>1, <3>1, <3>2 DEF KernelInv
  <2> QED BY <2>1, <2>2, <2>4, <2>5, <2>6 DEF Queue
<1>6. CASE host = "launch again"
  <2>1. host' = "synchronize" /\ Queue(Kernel("in4k", "out4k", LONG, 2))
    BY <1>6 DEF Launch, Goto
  <2>2. PICK u : Kernel("in4k", "out4k", LONG, 2) = Long(u) /\ 0 \in u /\ 1 \in u
    BY KernelsAre
  <2>3. Fresh2 /\ (ShortRuns \/ Launched)
    BY <1>6 DEF KernelInv
  <2>4. Long(u).out = "out4k"
    BY DEF Long
  <2>5. CASE stream' = Append(stream, Long(u)) /\ UNCHANGED refused
    <3>1. LongLeft(u)'
      BY <2>2, <2>3, <2>5 DEF LongLeft, Fresh2
    <3>2. Hash1 => Hash1'
      BY <1>1, <2>5 DEF Hash1, Due
    <3>3. CASE ShortRuns
      <4>1. PICK t : stream = <<Short(t)>> /\ ShortLeft(t)
        BY <3>3 DEF ShortRuns
      <4>2. stream' = <<Short(t), Long(u)>>
        BY <1>4, <2>5, <4>1
      <4>3. ShortLeft(t)'
        BY <2>5, <3>2, <4>1 DEF ShortLeft
      <4>4. BothRun'
        BY <3>1, <4>2, <4>3 DEF BothRun
      <4> QED BY <1>3, <2>1, <4>4 DEF KernelInv
    <3>4. CASE Launched
      <4>1. stream' = <<Long(u)>>
        BY <1>4, <2>5, <3>4 DEF Launched
      <4>2. Hash1'
        BY <3>2, <3>4 DEF Launched
      <4>3. LongRuns'
        BY <3>1, <4>1, <4>2 DEF LongRuns
      <4> QED BY <1>3, <2>1, <4>3 DEF KernelInv
    <3> QED BY <2>3, <3>3, <3>4
  <2>6. CASE refused' = refused \cup {"out4k"} /\ UNCHANGED stream
    <3>1. Hash2' /\ Hash3'
      BY <1>1, <2>3, <2>6 DEF Hash2, Hash3, Due, Fresh2
    <3>2. Hash1 => Hash1'
      BY <1>1, <2>6 DEF Hash1, Due
    <3>3. CASE ShortRuns
      <4>1. PICK t : stream = <<Short(t)>> /\ ShortLeft(t)
        BY <3>3 DEF ShortRuns
      <4>2. ShortLeft(t)'
        BY <2>6, <3>2, <4>1 DEF ShortLeft
      <4>3. ShortRunsLast'
        BY <2>6, <3>1, <4>1, <4>2 DEF ShortRunsLast, ShortRuns
      <4> QED BY <1>3, <2>1, <4>3 DEF KernelInv
    <3>4. CASE Launched
      <4>1. Finished'
        BY <2>6, <3>1, <3>2, <3>4 DEF Launched, Finished
      <4> QED BY <1>3, <2>1, <4>1 DEF KernelInv
    <3> QED BY <2>3, <3>3, <3>4
  <2> QED BY <2>1, <2>2, <2>4, <2>5, <2>6 DEF Queue
<1> QED BY <1>2, <1>5, <1>6

(* A thread of either kernel hashes its block, if it has one, and is done.  *)
LEMMA ShortThread ==
  ASSUME CopiedIn, NEW t, ShortLeft(t), NEW idx \in Nat, Thread(idx),
         Head(stream) = Short(t)
  PROVE  /\ CopiedIn' /\ (Fresh2 => Fresh2') /\ ShortLeft(t \ {idx})' /\ (Hash1 => Hash1') /\ (Hash2 => Hash2') /\ (Hash3 => Hash3')
         /\ stream' = <<Short(t \ {idx})>> \o Tail(stream)
<1> DEFINE v == FastHashOf(memory["in128"][idx], SHORT)
<1>1. UNCHANGED <<blocks, refused>> /\ idx \in t /\ "out128" \notin refused
  BY DEF Thread, Short, ShortLeft
<1>2. [Short(t) EXCEPT !.todo = @ \ {idx}] = Short(t \ {idx})
  BY DEF Short
<1>3. stream' = <<Short(t \ {idx})>> \o Tail(stream)
  BY <1>2 DEF Thread
<1>4. /\ Short(t).in = "in128" /\ Short(t).out = "out128" /\ Short(t).words = SHORT
      /\ Short(t).num_blocks = 1
  BY DEF Short
<1>5. IF idx < 1 THEN memory' = [memory EXCEPT !["out128"][idx] = v] ELSE memory' = memory
  BY <1>4 DEF Thread
<1> HIDE DEF v
<1>6. CASE idx # 0
  <2>1. memory' = memory
    BY <1>5, <1>6
  <2>2. CopiedIn' /\ (Hash1 => Hash1') /\ (Hash2 => Hash2') /\ (Hash3 => Hash3') /\ (Fresh2 => Fresh2')
    BY <1>1, <2>1 DEF CopiedIn, Hash1, Hash2, Hash3, Fresh2, Due
  <2>3. ShortLeft(t \ {idx})'
    BY <1>1, <1>6, <2>2 DEF ShortLeft
  <2> QED BY <1>3, <2>2, <2>3
<1>7. CASE idx = 0
  <2>1. memory' = [memory EXCEPT !["out128"][0] = v]
    BY <1>5, <1>7
  <2>2. DOMAIN memory = Buffers /\ DOMAIN memory["out128"] = {0}
    BY DEF CopiedIn
  <2>3. /\ DOMAIN memory' = Buffers
        /\ memory'["out128"] = [memory["out128"] EXCEPT ![0] = v]
        /\ memory'["in128"] = memory["in128"] /\ memory'["in4k"] = memory["in4k"]
        /\ memory'["out4k"] = memory["out4k"]
    BY <2>1, <2>2 DEF Buffers
  <2>4. DOMAIN memory'["out128"] = {0} /\ memory'["out128"][0] = v
    BY <2>2, <2>3
  <2>5. CopiedIn'
    BY <1>1, <2>3, <2>4 DEF CopiedIn
  <2>6. v = FastHashOf(blocks[1], SHORT)
    BY <1>7 DEF CopiedIn, v
  <2>7. Hash1'
    BY <1>1, <2>4, <2>6 DEF Hash1, Due
  <2>8. (Hash2 => Hash2') /\ (Hash3 => Hash3') /\ (Fresh2 => Fresh2')
    BY <1>1, <2>3 DEF Hash2, Hash3, Fresh2, Due
  <2>9. ShortLeft(t \ {idx})'
    BY <1>1, <2>7 DEF ShortLeft
  <2> QED BY <1>3, <2>5, <2>7, <2>8, <2>9
<1> QED BY <1>6, <1>7

LEMMA LongThread ==
  ASSUME CopiedIn, NEW t, LongLeft(t), NEW idx \in Nat, Thread(idx),
         Head(stream) = Long(t)
  PROVE  /\ CopiedIn' /\ LongLeft(t \ {idx})' /\ (Hash1 => Hash1')
         /\ stream' = <<Long(t \ {idx})>> \o Tail(stream)
<1> DEFINE v == FastHashOf(memory["in4k"][idx], LONG)
<1>1. UNCHANGED <<blocks, refused>> /\ idx \in t /\ "out4k" \notin refused
  BY DEF Thread, Long, LongLeft
<1>2. [Long(t) EXCEPT !.todo = @ \ {idx}] = Long(t \ {idx})
  BY DEF Long
<1>3. stream' = <<Long(t \ {idx})>> \o Tail(stream)
  BY <1>2 DEF Thread
<1>4. /\ Long(t).in = "in4k" /\ Long(t).out = "out4k" /\ Long(t).words = LONG
      /\ Long(t).num_blocks = 2
  BY DEF Long
<1>5. IF idx < 2 THEN memory' = [memory EXCEPT !["out4k"][idx] = v] ELSE memory' = memory
  BY <1>4 DEF Thread
<1> HIDE DEF v
<1>6. CASE idx >= 2
  <2>1. memory' = memory
    BY <1>5, <1>6
  <2>2. CopiedIn' /\ (Hash1 => Hash1') /\ (Hash2 => Hash2') /\ (Hash3 => Hash3')
    BY <1>1, <2>1 DEF CopiedIn, Hash1, Hash2, Hash3, Due
  <2>3. idx # 0 /\ idx # 1
    BY <1>6
  <2>4. LongLeft(t \ {idx})'
    BY <1>1, <2>2, <2>3 DEF LongLeft
  <2> QED BY <1>3, <2>2, <2>4
<1>7. CASE idx < 2
  <2>1. memory' = [memory EXCEPT !["out4k"][idx] = v] /\ (idx = 0 \/ idx = 1)
    BY <1>5, <1>7
  <2>2. DOMAIN memory = Buffers /\ DOMAIN memory["out4k"] = {0, 1}
    BY DEF CopiedIn
  <2>3. /\ DOMAIN memory' = Buffers
        /\ memory'["out4k"] = [memory["out4k"] EXCEPT ![idx] = v]
        /\ memory'["in128"] = memory["in128"] /\ memory'["in4k"] = memory["in4k"]
        /\ memory'["out128"] = memory["out128"]
    BY <2>1, <2>2 DEF Buffers
  <2>4. /\ DOMAIN memory'["out4k"] = {0, 1} /\ memory'["out4k"][idx] = v
        /\ \A m \in {0, 1} : m # idx => memory'["out4k"][m] = memory["out4k"][m]
    BY <2>1, <2>2, <2>3
  <2>5. CopiedIn'
    BY <1>1, <2>3, <2>4 DEF CopiedIn
  <2>6. Hash1 => Hash1'
    BY <1>1, <2>3 DEF Hash1, Due
  <2>7. CASE idx = 0
    <3>1. v = FastHashOf(blocks[2], LONG)
      BY <2>7 DEF CopiedIn, v
    <3>2. Hash2' /\ (Hash3 => Hash3')
      BY <1>1, <2>4, <2>7, <3>1 DEF Hash2, Hash3, Due
    <3>3. LongLeft(t \ {idx})'
      BY <1>1, <2>7, <3>2 DEF LongLeft
    <3> QED BY <1>3, <2>5, <2>6, <3>3
  <2>8. CASE idx = 1
    <3>1. v = FastHashOf(blocks[3], LONG)
      BY <2>8 DEF CopiedIn, v
    <3>2. Hash3' /\ (Hash2 => Hash2')
      BY <1>1, <2>4, <2>8, <3>1 DEF Hash2, Hash3, Due
    <3>3. LongLeft(t \ {idx})'
      BY <1>1, <2>8, <3>2 DEF LongLeft
    <3> QED BY <1>3, <2>5, <2>6, <3>3
  <2> QED BY <2>1, <2>7, <2>8
<1> QED BY <1>6, <1>7

(* The stream is empty unless the host waits for it, launches once more, or *)
(* is past caring.                                                          *)
Waiting == {"launch again", "synchronize"}
LEMMA DeviceElsewhere ==
  ASSUME KernelInv, stream # <<>>, host \notin Waiting,
         UNCHANGED <<host, blocks, refused, h_results>>
  PROVE  KernelInv'
<1>1. host \notin {"malloc", "cudaMalloc", "copy in", "launch", "launch again", "synchronize"}
  <2>1. host \in {"malloc", "cudaMalloc", "copy in", "launch"} => stream = <<>>
    BY DEF KernelInv
  <2> QED BY <2>1 DEF Waiting
<1>2. host # "copy back"
  BY DEF KernelInv, Finished
<1>3. Filled => Filled'
  BY DEF Filled
<1>4. Printable => Printable'
  BY DEF Printable, Due
<1>5. FlippedBitShows => FlippedBitShows'
  BY DEF FlippedBitShows
<1> QED BY <1>1, <1>2, <1>3, <1>4, <1>5 DEF KernelInv

LEMMA ThreadKeeps == ASSUME NEW idx \in Nat, KernelInv, Thread(idx) PROVE KernelInv'
<1>1. stream # <<>> /\ UNCHANGED <<host, blocks, refused, h_results>>
  BY DEF Thread
<1>2. CASE host \notin Waiting
  BY <1>1, <1>2, DeviceElsewhere
<1>3. CASE host = "launch again"
  <2>1. CopiedIn /\ Filled /\ Fresh2 /\ ShortRuns
    BY <1>1, <1>3 DEF KernelInv, Launched
  <2>2. PICK t : stream = <<Short(t)>> /\ ShortLeft(t)
    BY <2>1 DEF ShortRuns
  <2> DEFINE a == Short(t)
             c == Short(t \ {idx})
  <2>3. Head(<<a>>) = a /\ <<c>> \o Tail(<<a>>) = <<c>>
    <3> HIDE DEF a, c
    <3> QED BY Sequences2
  <2>4. Head(stream) = Short(t)
    BY <2>2, <2>3
  <2>5. CopiedIn' /\ Fresh2' /\ ShortLeft(t \ {idx})' /\ stream' = <<Short(t \ {idx})>> \o Tail(stream)
    BY <2>1, <2>2, <2>4, ShortThread
  <2>6. ShortRuns'
    <3>1. stream' = <<Short(t \ {idx})>>
      BY <2>2, <2>3, <2>5
    <3> QED BY <2>5, <3>1 DEF ShortRuns
  <2>7. Filled'
    BY <1>1, <2>1 DEF Filled
  <2> QED BY <1>1, <1>3, <2>5, <2>6, <2>7 DEF KernelInv
<1>4. CASE host = "synchronize"
  <2>1. CopiedIn /\ Filled /\ (BothRun \/ ShortRunsLast \/ LongRuns)
    BY <1>1, <1>4 DEF KernelInv, Finished
  <2>2. Filled'
    BY <1>1, <2>1 DEF Filled
  <2>3. CASE BothRun
    <3>1. PICK t, u : stream = <<Short(t), Long(u)>> /\ ShortLeft(t) /\ LongLeft(u)
      BY <2>3 DEF BothRun
    <3> DEFINE a == Short(t)
               b == Long(u)
               c == Short(t \ {idx})
    <3>2. Head(<<a, b>>) = a /\ <<c>> \o Tail(<<a, b>>) = <<c, b>>
      <4> HIDE DEF a, b, c
      <4> QED BY Sequences2
    <3>3. Head(stream) = Short(t)
      BY <3>1, <3>2
    <3>4. /\ CopiedIn' /\ ShortLeft(t \ {idx})' /\ (Hash2 => Hash2') /\ (Hash3 => Hash3')
          /\ stream' = <<Short(t \ {idx})>> \o Tail(stream)
      BY <2>1, <3>1, <3>3, ShortThread
    <3>5. LongLeft(u)'
      BY <1>1, <3>1, <3>4 DEF LongLeft
    <3>6. BothRun'
      <4>1. stream' = <<Short(t \ {idx}), Long(u)>>
        BY <3>1, <3>2, <3>4
      <4> QED BY <3>4, <3>5, <4>1 DEF BothRun
    <3> QED BY <1>1, <1>4, <2>2, <3>4, <3>6 DEF KernelInv
  <2>4. CASE ShortRunsLast
    <3>1. PICK t : stream = <<Short(t)>> /\ ShortLeft(t) /\ Hash2 /\ Hash3
      BY <2>4 DEF ShortRunsLast, ShortRuns
    <3> DEFINE a == Short(t)
               c == Short(t \ {idx})
    <3>2. Head(<<a>>) = a /\ <<c>> \o Tail(<<a>>) = <<c>>
      <4> HIDE DEF a, c
      <4> QED BY Sequences2
    <3>3. Head(stream) = Short(t)
      BY <3>1, <3>2
    <3>4. /\ CopiedIn' /\ ShortLeft(t \ {idx})' /\ Hash2' /\ Hash3'
          /\ stream' = <<Short(t \ {idx})>> \o Tail(stream)
      BY <2>1, <3>1, <3>3, ShortThread
    <3>5. ShortRunsLast'
      <4>1. stream' = <<Short(t \ {idx})>>
        BY <3>1, <3>2, <3>4
      <4> QED BY <3>4, <4>1 DEF ShortRunsLast, ShortRuns
    <3> QED BY <1>1, <1>4, <2>2, <3>4, <3>5 DEF KernelInv
  <2>5. CASE LongRuns
    <3>1. PICK t : stream = <<Long(t)>> /\ Hash1 /\ LongLeft(t)
      BY <2>5 DEF LongRuns
    <3> DEFINE a == Long(t)
               c == Long(t \ {idx})
    <3>2. Head(<<a>>) = a /\ <<c>> \o Tail(<<a>>) = <<c>>
      <4> HIDE DEF a, c
      <4> QED BY Sequences2
    <3>3. Head(stream) = Long(t)
      BY <3>1, <3>2
    <3>4. /\ CopiedIn' /\ LongLeft(t \ {idx})' /\ Hash1'
          /\ stream' = <<Long(t \ {idx})>> \o Tail(stream)
      BY <2>1, <3>1, <3>3, LongThread
    <3>5. LongRuns'
      <4>1. stream' = <<Long(t \ {idx})>>
        BY <3>1, <3>2, <3>4
      <4> QED BY <3>4, <4>1 DEF LongRuns
    <3> QED BY <1>1, <1>4, <2>2, <3>4, <3>5 DEF KernelInv
  <2> QED BY <2>1, <2>3, <2>4, <2>5
<1> QED BY <1>2, <1>3, <1>4 DEF Waiting

LEMMA KernelEndsKeeps == KernelInv /\ KernelEnds => KernelInv'
<1> SUFFICES ASSUME KernelInv, KernelEnds PROVE KernelInv'
  OBVIOUS
<1>1. /\ stream # <<>> /\ Head(stream).todo = {} /\ stream' = Tail(stream)
      /\ UNCHANGED <<host, blocks, memory, refused, h_results>>
  BY DEF KernelEnds
<1>2. /\ CopiedIn => CopiedIn'
      /\ Filled => Filled'
      /\ Hash1 => Hash1'
      /\ Hash2 => Hash2'
      /\ Hash3 => Hash3'
      /\ Fresh2 => Fresh2'
  BY <1>1 DEF CopiedIn, Filled, Hash1, Hash2, Hash3, Fresh2, Due
<1>3. CASE host \notin Waiting
  BY <1>1, <1>3, DeviceElsewhere
<1>4. CASE host = "launch again"
  <2>1. CopiedIn /\ Filled /\ Fresh2 /\ ShortRuns
    BY <1>1, <1>4 DEF KernelInv, Launched
  <2>2. PICK t : stream = <<Short(t)>> /\ ShortLeft(t)
    BY <2>1 DEF ShortRuns
  <2> DEFINE a == Short(t)
  <2>3. Head(<<a>>) = a /\ Tail(<<a>>) = <<>>
    <3> HIDE DEF a
    <3> QED BY Sequences2
  <2>4. t = {}
    BY <1>1, <2>2, <2>3 DEF Short
  <2>5. Hash1
    BY <2>2, <2>4 DEF ShortLeft
  <2>6. Launched'
    BY <1>1, <1>2, <2>2, <2>3, <2>5 DEF Launched
  <2> QED BY <1>1, <1>2, <1>4, <2>1, <2>6 DEF KernelInv
<1>5. CASE host = "synchronize"
  <2>1. CopiedIn /\ Filled /\ (BothRun \/ ShortRunsLast \/ LongRuns)
    BY <1>1, <1>5 DEF KernelInv, Finished
  <2>2. CASE BothRun
    <3>1. PICK t, u : stream = <<Short(t), Long(u)>> /\ ShortLeft(t) /\ LongLeft(u)
      BY <2>2 DEF BothRun
    <3> DEFINE a == Short(t)
               b == Long(u)
    <3>2. Head(<<a, b>>) = a /\ Tail(<<a, b>>) = <<b>>
      <4> HIDE DEF a, b
      <4> QED BY Sequences2
    <3>3. t = {}
      BY <1>1, <3>1, <3>2 DEF Short
    <3>4. Hash1'
      BY <1>2, <3>1, <3>3 DEF ShortLeft
    <3>5. LongLeft(u)'
      BY <1>1, <1>2, <3>1 DEF LongLeft
    <3>6. stream' = <<Long(u)>>
      BY <1>1, <3>1, <3>2
    <3>7. LongRuns'
      BY <3>4, <3>5, <3>6 DEF LongRuns
    <3> QED BY <1>1, <1>2, <1>5, <2>1, <3>7 DEF KernelInv
  <2>3. CASE ShortRunsLast
    <3>1. PICK t : stream = <<Short(t)>> /\ ShortLeft(t) /\ Hash2 /\ Hash3
      BY <2>3 DEF ShortRunsLast, ShortRuns
    <3> DEFINE a == Short(t)
    <3>2. Head(<<a>>) = a /\ Tail(<<a>>) = <<>>
      <4> HIDE DEF a
      <4> QED BY Sequences2
    <3>3. t = {}
      BY <1>1, <3>1, <3>2 DEF Short
    <3>4. Hash1
      BY <3>1, <3>3 DEF ShortLeft
    <3>5. Finished'
      BY <1>1, <1>2, <3>1, <3>2, <3>4 DEF Finished
    <3> QED BY <1>1, <1>2, <1>5, <2>1, <3>5 DEF KernelInv
  <2>4. CASE LongRuns
    <3>1. PICK t : stream = <<Long(t)>> /\ Hash1 /\ LongLeft(t)
      BY <2>4 DEF LongRuns
    <3> DEFINE a == Long(t)
    <3>2. Head(<<a>>) = a /\ Tail(<<a>>) = <<>>
      <4> HIDE DEF a
      <4> QED BY Sequences2
    <3>3. t = {}
      BY <1>1, <3>1, <3>2 DEF Long
    <3>4. Hash2 /\ Hash3
      BY <3>1, <3>3 DEF LongLeft
    <3>5. Finished'
      BY <1>1, <1>2, <3>1, <3>2, <3>4 DEF Finished
    <3> QED BY <1>1, <1>2, <1>5, <2>1, <3>5 DEF KernelInv
  <2> QED BY <2>1, <2>2, <2>3, <2>4
<1> QED BY <1>3, <1>4, <1>5 DEF Waiting

(* The hashes that are printed tell the two long blocks apart. *)
LEMMA PrintableShows ==
  ASSUME Filled, Printable PROVE ResultsAreHashes /\ FlippedBitShows
<1>1. PICK w0 \in 0 .. LONG - 1 : OneWord(blocks[2], blocks[3], w0)
  BY DEF Filled
<1>2. blocks[1] \in Block /\ blocks[2] \in Block /\ blocks[3] \in Block
  BY DEF Filled
<1>3. FastHashOf(blocks[2], LONG) # FastHashOf(blocks[3], LONG)
  <2> DEFINE p == blocks[2]
             q == blocks[3]
  <2>1. p \in Block /\ q \in Block /\ OneWord(p, q, w0)
    BY <1>1, <1>2
  <2> HIDE DEF p, q
  <2>2. FastHashOf(p, LONG) # FastHashOf(q, LONG)
    BY <2>1, FlipShows
  <2> QED BY <2>2 DEF p, q
<1>4. /\ FastHash(blocks[1], SHORT) = FastHashOf(blocks[1], SHORT)
      /\ FastHash(blocks[2], LONG) = FastHashOf(blocks[2], LONG)
      /\ FastHash(blocks[3], LONG) = FastHashOf(blocks[3], LONG)
  BY <1>2, HashesAgree
<1>5. ResultsAreHashes
  BY <1>4 DEF Printable, ResultsAreHashes, Printed, Due
<1>6. "out4k" \notin refused => h_results[2] # h_results[3]
  BY <1>3 DEF Printable, Due
<1> QED BY <1>5, <1>6 DEF FlippedBitShows

LEMMA SynchronizeKeeps == KernelInv /\ Synchronize => KernelInv'
<1> SUFFICES ASSUME KernelInv, Synchronize PROVE KernelInv'
  OBVIOUS
<1>1. /\ host = "synchronize" /\ host' = "copy back" /\ stream = <<>>
      /\ UNCHANGED <<blocks, memory, stream, refused, h_results>>
  BY DEF Synchronize, Goto
<1>2. CopiedIn /\ Filled
  BY <1>1 DEF KernelInv
<1>3. ~ BothRun /\ ~ ShortRunsLast /\ ~ LongRuns
  BY <1>1 DEF BothRun, ShortRunsLast, ShortRuns, LongRuns
<1>4. Finished
  BY <1>1, <1>3 DEF KernelInv
<1>5. CopiedIn' /\ Filled' /\ Finished'
  BY <1>1, <1>2, <1>4 DEF CopiedIn, Filled, Finished, Hash1, Hash2, Hash3, Due
<1> QED BY <1>1, <1>5 DEF KernelInv

LEMMA CopyBackKeeps == KernelInv /\ CopyBack => KernelInv'
<1> SUFFICES ASSUME KernelInv, CopyBack PROVE KernelInv'
  OBVIOUS
<1>1. /\ host = "copy back" /\ host' = "print" /\ UNCHANGED <<blocks, refused>>
      /\ h_results' = <<memory["out128"][0], memory["out4k"][0], memory["out4k"][1]>>
  BY DEF CopyBack, Goto
<1>2. Finished /\ Filled
  BY <1>1 DEF KernelInv
<1>3. Printable' /\ Filled'
  BY <1>1, <1>2 DEF Printable, Finished, Hash1, Hash2, Hash3, Filled, Due
<1> QED BY <1>1, <1>3 DEF KernelInv

LEMMA PrintKeeps == KernelInv /\ PrintResults => KernelInv'
<1> SUFFICES ASSUME KernelInv, PrintResults PROVE KernelInv'
  OBVIOUS
<1>1. host = "print" /\ host' = "free" /\ UNCHANGED <<blocks, refused, h_results>>
  BY DEF PrintResults, Goto
<1>2. Printable /\ Filled
  BY <1>1 DEF KernelInv
<1>3. Printable' /\ Filled'
  BY <1>1, <1>2 DEF Printable, Filled, Due
<1> QED BY <1>1, <1>3 DEF KernelInv

LEMMA FreeKeeps == KernelInv /\ Free => KernelInv'
<1> SUFFICES ASSUME KernelInv, Free PROVE KernelInv'
  OBVIOUS
<1>1. host = "free" /\ host' = "return 0" /\ UNCHANGED <<refused, h_results>>
  BY DEF Free, Goto
<1>2. "out4k" \notin refused => h_results[2] # h_results[3]
  BY <1>1, PrintableShows DEF KernelInv, FlippedBitShows
<1>3. FlippedBitShows'
  BY <1>1, <1>2 DEF FlippedBitShows
<1> QED BY <1>1, <1>3 DEF KernelInv

LEMMA KernelStep == KernelInv /\ [KernelNext]_kernelVars => KernelInv'
<1> SUFFICES ASSUME KernelInv, [KernelNext]_kernelVars PROVE KernelInv'
  OBVIOUS
<1>1. CASE HostStep
  BY <1>1, MallocKeeps, CudaMallocKeeps, CopyInKeeps, LaunchKeeps, SynchronizeKeeps,
     CopyBackKeeps, PrintKeeps, FreeKeeps DEF HostStep
<1>2. CASE DeviceStep
  <2>1. CASE KernelEnds
    BY <2>1, KernelEndsKeeps
  <2>2. CASE \E idx \in 0 .. 2 * ThreadsPerBlock : Thread(idx)
    <3>1. PICK idx \in 0 .. 2 * ThreadsPerBlock : Thread(idx)
      BY <2>2
    <3>2. idx \in Nat
      BY KernelAssumption
    <3> QED BY <3>1, <3>2, ThreadKeeps
  <2> QED BY <1>2, <2>1, <2>2 DEF DeviceStep
<1>3. CASE CudaCheck
  <2>1. host' = "EXIT_FAILURE"
    BY <1>3 DEF CudaCheck, Goto
  <2> QED BY <2>1 DEF KernelInv
<1>4. CASE UNCHANGED kernelVars
  <2>1. UNCHANGED <<host, blocks, memory, stream, refused, h_results>>
    BY <1>4 DEF kernelVars
  <2>2. /\ Allocating => Allocating'
        /\ Allocated => Allocated'
        /\ CopiedIn => CopiedIn'
        /\ Filled => Filled'
        /\ ShortRuns => ShortRuns'
        /\ Launched => Launched'
        /\ Fresh1 => Fresh1'
        /\ Fresh2 => Fresh2'
    BY <2>1 DEF Allocating, Allocated, CopiedIn, Filled, ShortRuns, Launched, ShortLeft, Hash1, Fresh1, Fresh2, Due
  <2>3. /\ BothRun => BothRun'
        /\ LongRuns => LongRuns'
        /\ Finished => Finished'
        /\ ShortRunsLast => ShortRunsLast'
    BY <2>1 DEF BothRun, ShortRunsLast, ShortRuns, LongRuns, Finished, ShortLeft, LongLeft, Hash1, Hash2, Hash3, Due
  <2>4. (Printable => Printable') /\ (FlippedBitShows => FlippedBitShows')
    BY <2>1 DEF Printable, FlippedBitShows, Due
  <2> QED BY <2>1, <2>2, <2>3, <2>4 DEF KernelInv
<1> QED BY <1>1, <1>2, <1>3, <1>4 DEF KernelNext

LEMMA KernelInvariant == KernelSpec => []KernelInv
<1>1. KernelInit => KernelInv
  BY KernelInitial
<1>2. KernelInv /\ [KernelNext]_kernelVars => KernelInv'
  BY KernelStep
<1> QED BY <1>1, <1>2, PTL DEF KernelSpec

(* For each launch that ran, hashalg.cu prints, in order, the hashes        *)
(* fast_hash.h computes for the blocks the host filled, whichever of its    *)
(* programs computes them there and in whichever order the threads ran      *)
(* here, be the other launch refused or not: for every number of threads in *)
(* a block, every length of a long block in whole rows, every odd constants *)
(* and every shifts.  For a launch that was refused it prints what the      *)
(* device memory held, whatever that is.                                    *)
THEOREM PrintedAreHashes == KernelSpec => []ResultsAreHashes
<1>1. KernelInv => ResultsAreHashes
  <2> SUFFICES ASSUME KernelInv, host \in {"print", "free"} PROVE ResultsAreHashes
    BY DEF ResultsAreHashes
  <2>1. Filled /\ Printable
    BY DEF KernelInv
  <2> QED BY <2>1, PrintableShows
<1> QED BY <1>1, KernelInvariant, PTL

(* "should be no": unless the launch that hashes the long blocks was        *)
(* refused, the bit the host flipped in the second of them shows in what is *)
(* printed for it, because no step of the hash loses any.                   *)
THEOREM FlipNeverHides == KernelSpec => []FlippedBitShows
<1>1. KernelInv => FlippedBitShows
  <2> SUFFICES ASSUME KernelInv, host \in {"print", "free", "return 0"} PROVE FlippedBitShows
    BY DEF FlippedBitShows
  <2>1. CASE host \in {"print", "free"}
    <3>1. Filled /\ Printable
      BY <2>1 DEF KernelInv
    <3> QED BY <3>1, PrintableShows
  <2>2. CASE host = "return 0"
    BY <2>2 DEF KernelInv
  <2> QED BY <2>1, <2>2
<1> QED BY <1>1, KernelInvariant, PTL

=============================================================================
