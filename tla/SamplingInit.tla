---------------------------- MODULE SamplingInit ----------------------------
(***************************************************************************)
(* init_random_sampling of dirtPages.c and the calibration it ends with,   *)
(* cal_positive_negative_costs.  The first shuffles the table of sampled   *)
(* positions, one swap a step; the second times page hashes against page   *)
(* comparisons on a clock (jiffies) that wraps and that other work moves   *)
(* on by any amount between two readings.                                  *)
(***************************************************************************)
EXTENDS Naturals

CONSTANTS
  HASH_STRENGTH_FULL,  \* words in a page
  RANDOM,              \* what prandom_u32 returns
  JIFFIES,             \* the clock counts modulo JIFFIES
  SPAN,                \* jiffies that must pass in the timed loop; 100 in the code
  LAPSE                \* bound: jiffies during one iteration of a timed loop

ASSUME SamplingAssumption ==
  /\ HASH_STRENGTH_FULL \in Nat \ {0}
  /\ RANDOM \subseteq Nat
ASSUME ClockAssumption ==
  /\ JIFFIES \in Nat \ {0} /\ SPAN \in Nat \ {0} /\ LAPSE \in Nat
  /\ SPAN + 2 * LAPSE < JIFFIES     \* the clock does not come round within a measurement

Positions == 0 .. HASH_STRENGTH_FULL - 1
Ticks == 0 .. JIFFIES - 1
Returns == {"ok", "ENOMEM"}
Places == {"start", "shuffle", "pages", "hashing", "comparing"} \cup Returns

VARIABLES
  pc,
  random_nums,    \* <<>> is NULL
  i,
  state,          \* rshash_state.state; static, so STILL until it is set
  pages,          \* pages of the calibration that are allocated
  jiffies, time_start, hash_cost

vars == <<pc, random_nums, i, state, pages, jiffies, time_start, hash_cost>>
sampling == <<random_nums, i, state>>
clock == <<jiffies, time_start, hash_cost>>

Init ==
  /\ pc = "start" /\ random_nums = <<>> /\ i = 0 /\ state = "STILL" /\ pages = {}
  /\ jiffies \in Ticks /\ time_start = 0 /\ hash_cost = 0

(* kmalloc of the table; without it nothing else is done. *)
AllocTable ==
  /\ pc = "start"
  /\ \/ pc' = "ENOMEM" /\ UNCHANGED sampling
     \/ pc' = "shuffle" /\ random_nums' = [p \in Positions |-> p] /\ i' = 0 /\ UNCHANGED state
  /\ UNCHANGED <<pages, clock>>

SwapIndex(r) == i + (r % (HASH_STRENGTH_FULL - i))

(* Mutant: the second assignment reads what the first has overwritten.      *)
SwappedInPlace(k) == [random_nums EXCEPT ![i] = random_nums[k], ![k] = random_nums[k]]
Swapped(k) == [random_nums EXCEPT ![i] = random_nums[k], ![k] = random_nums[i]]

Shuffle ==
  /\ pc = "shuffle" /\ i < HASH_STRENGTH_FULL
  /\ \E r \in RANDOM : random_nums' = Swapped(SwapIndex(r))
  /\ i' = i + 1
  /\ UNCHANGED <<pc, state, pages, clock>>

Shuffled ==
  /\ pc = "shuffle" /\ i = HASH_STRENGTH_FULL
  /\ pc' = "pages" /\ state' = "NEW"
  /\ UNCHANGED <<random_nums, i, pages, clock>>

-----------------------------------------------------------------------------
Elapsed == (jiffies + JIFFIES - time_start) % JIFFIES

(* Two pages, the first given back when there is no second. *)
AllocPages ==
  /\ pc = "pages"
  /\ \/ pc' = "ENOMEM" /\ UNCHANGED <<pages, time_start>>
     \/ pc' = "hashing" /\ pages' = {"p1", "p2"} /\ time_start' = jiffies
  /\ UNCHANGED <<sampling, jiffies, hash_cost>>

TimePasses == \E d \in 0 .. LAPSE : jiffies' = (jiffies + d) % JIFFIES

(* The test of the loop; mutant: by absolute times, which fails at a wrap.  *)
GoesOnUntil == jiffies < (time_start + SPAN) % JIFFIES
GoesOn == Elapsed < SPAN

(* A hundred hashes of p1. *)
TimeHashes ==
  /\ pc = "hashing" /\ GoesOn
  /\ TimePasses
  /\ UNCHANGED <<pc, sampling, pages, time_start, hash_cost>>

(* The clock is read again for hash_cost and for the next start: it may     *)
(* have moved since the loop was left.                                      *)
HashCost ==
  /\ pc = "hashing" /\ ~GoesOn
  /\ TimePasses
  /\ hash_cost' = (jiffies' + JIFFIES - time_start) % JIFFIES
  /\ time_start' = jiffies'
  /\ pc' = "comparing"
  /\ UNCHANGED <<sampling, pages>>

(* loopnum comparisons, a division by hash_cost, both pages freed; the      *)
(* times were locals and are dropped.                                       *)
Compare ==
  /\ pc = "comparing"
  /\ TimePasses
  /\ pc' = "ok" /\ pages' = {}
  /\ time_start' = 0 /\ hash_cost' = 0
  /\ UNCHANGED sampling

Next == AllocTable \/ Shuffle \/ Shuffled \/ AllocPages \/ TimeHashes \/ HashCost \/ Compare

Spec == Init /\ [][Next]_vars

-----------------------------------------------------------------------------
TypeOK ==
  /\ pc \in Places
  /\ random_nums \in [Positions -> Positions] \cup {<<>>}
  /\ i \in 0 .. HASH_STRENGTH_FULL
  /\ state \in {"STILL", "NEW"}
  /\ pages \subseteq {"p1", "p2"}
  /\ jiffies \in Ticks /\ time_start \in Ticks /\ hash_cost \in Ticks

IsPermutation(f) ==
  /\ f \in [Positions -> Positions]
  /\ \A p, q \in Positions : f[p] = f[q] => p = q
  /\ \A w \in Positions : \E p \in Positions : f[p] = w

(* At every moment of the shuffle the table is a permutation, so a hash of  *)
(* strength N <= HASH_STRENGTH_FULL samples N different words and one of    *)
(* full strength samples every word (387-391, 572-576).                     *)
SamplesDistinctWords == pc \notin {"start", "ENOMEM"} => IsPermutation(random_nums)

(* A swap never touches what an earlier one has settled: position i is      *)
(* drawn among the words not used by a weaker strength.                     *)
SettledPrefixStays ==
  [][pc = "shuffle" => \A p \in Positions : p < i => random_nums'[p] = random_nums[p]]_vars

(* However the clock wraps, memcmp_cost is divided by at least SPAN, never  *)
(* by zero.                                                                 *)
DivisorIsPositive == pc = "comparing" => hash_cost >= SPAN

(* Every return, the failing ones included, has given its pages back. *)
PagesGivenBack == pc \in Returns => pages = {}
=============================================================================
