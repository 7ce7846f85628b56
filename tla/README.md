# TLA+ models of dirtPages.c and its companions

This project specifies, model-checks and partly proves the logic of `src/dirtPages.c`: a user-space
reading of the UKSM/KSM page-deduplication code (adaptive random-sampling hash, cost/benefit counters,
the strength state machine, the two-level stable tree and its rebuild).  The other files of the
repository are a chained hash table (`fast_hash.c`, `hashalg.c`), a GPU page hasher (`PageTransfer.c`,
`hashalg.cu`), a pagemap sketch (`whichPages.c`) and stand-alone C exercises.

Contents: [1 Inventory](#1-inventory) · [2 Hard behaviours](#2-hard-behaviours) ·
[3 Modules](#3-modules-and-the-code-they-model) · [4 Runs](#4-runs-bounds-and-what-they-show) ·
[5 Proofs](#5-proofs) · [6 Findings and remarks](#6-findings-and-remarks) · [7 Not modelled](#7-not-modelled) ·
[8 Plan](#8-plan)

## 1. Inventory

There is one scanner thread (`uksmd`).  A *scan round* visits pages; for each it computes a sampled hash
(`page_hash`), looks it up in the stable tree, may extend it to a full hash (`page_hash_max`), may compare
pages byte by byte and may check for a false collision (`check_collision`).  Each of these charges a counter.
At the end of the round `rshash_adjust` encodes the counters, judges the round, moves `hash_strength` and,
if it moved, rebuilds the stable tree by `stable_tree_delta_hash`.  The scanner loop itself is not in
the repository; the header of section 13 of `dirtPages.c` and the comments give its call order.

| Component | Where | State | Operations | Interacts with |
|---|---|---|---|---|
| Hash-strength state machine | dirtPages.c 1139-1277, 1653-1768 | `hash_strength`, `hash_strength_delta`, `rshash_state`, two static round counters, `fully_scanned_round` | `rshash_adjust`, `judge_rshash_direction`, `inc/dec_hash_strength`, `inc_hash_strength_delta` | reads the benefit; triggers the rebuild |
| Benefit tracking and page counter | 655-785, 845-890 | `rshash_pos`, `rshash_neg`, `benefit`, `uksm_pages_scanned` (+ `_last`, `_stored`, `pages_scanned_base`) | `encode_benefit`, `reset_benefit`, `inc_rshash_pos/neg`, `inc_uksm_pages_scanned`, `get_current_neg_ratio`, `get_current_benefit` | charged by hashing, comparing, rebuilding |
| Random-sampling hash | 560-650, 1894-1921 | `random_nums` permutation | `random_sample_hash`, `delta_hash`, `init_random_sampling` | called by hashing and rebuild |
| Per-page hash and comparison | 787-843, 1060-1100 | none of its own | `page_hash`, `page_hash_max`, `rmap_item_hash_max`, `memcmp_pages_with_cost` | charge the counters |
| Collision check | 1102-1133 | none | `check_collision` | reads two pages other threads may write |
| Stable tree and rebuild | 1288-1652 | two roots, `stable_node_list`, `tree_node`s, `stable_node`s, `uksm_pages_shared/sharing` | `stable_tree_delta_hash`, `stable_node_reinsert`, `remove_node_from_stable_tree`, `stable_node_hash_max`, allocators | called by `rshash_adjust`; charges `rshash_neg`; races with page freeing |
| Keyhole page reference | 1372-1429 | `page->mapping` | `get_uksm_page` | races with migration and freeing |
| PTE write protection | 948-1031 | one PTE | `write_protect_page` | races with writers, O_DIRECT, TLB batching |
| Memory comparison helpers | 60-147 | registers and flags | `memcmpx86_32/64`, `is_full_zero` | read pages other threads may write |
| Zero pages, cost calibration | 899-946, 1788-1892 | `zero_hash_table`, `memcmp_cost` | `find_zero_page_hash`, `init_zeropage_hash_table`, `cal_positive_negative_costs` | its costs parametrise the counters |
| Fast hash and chained table | fast_hash.c, fast_hash.h, hashalg.c | `fh_table` | `fast_hash`, insert, lookup, free | borrows the caller's blocks |
| GPU hashing and page transfer | hashalg.cu, PageTransfer.c | pinned buffers, device buffers, a stream | a kernel launch, an asynchronous copy | host pages being copied |
| Page metadata, copies, exercises, notes | whichPages.c, VCstring.h, `nodes.c`, `malloc.c`, ... | none that outlives a call | - | - |

What makes each of them correct:

* **State machine.** The strength stays in 1..HASH_STRENGTH_MAX; a search probes each side of its start,
  ends within a bounded number of rounds (a u8 counts them), pairs every measured benefit with the strength
  it was measured at and settles on the best of its candidates; the landscape is explored again for ever;
  a one-sided ratio drives the strength to the end of its range.
* **Counters.** No charge is lost or counted twice by encoding, scaling and wrapping; what is scaled is never
  overestimated; `BUG_ON(!benefit.scanned)` does not fire.
* **Feedback loop.** What is judged is about the strength in force, is a percentage and is within what that
  strength can save.
* **Stable tree.** `tree_node->count` is the number of nodes under it and never zero between steps; nodes with one
  hash are told apart by full hashes, all computed; no freed `tree_node` or node is reached; only
  a node with a double or a failed allocation is left out; published page counts are exact.
* **Hashes.** `random_nums` stays a permutation of the positions; `delta_hash` equals a rehash, up and down and across the
  loop-back; a changed sampled word changes the hash; the table of zero hashes and the sentinel 0 fit the hashes they stand for.
* **Collision check.** A verdict of "changed" means that the page was written, and one of "collision" that the words
  read again are those that were hashed.
* **Page reference.** What `get_uksm_page` returns is the node's page; the node is removed only when its page is gone;
  a failed call holds nothing; to its caller it is one indivisible step.
* **Write protection.** After a success every write faults first, no DMA goes on, and what was written before is accounted for.
* **Calibration.** `memcmp_cost` is never divided by 0 and the two pages are given back.
* **Table and device.** An unchanged block that was inserted is found, and no entry leaks; whatever order the threads of a grid
  run in, each result is the hash of its own block, the same that the host's unrolled code computes.

## 2. Hard behaviours

`PROJECT.json` lists them one by one with their lines.  They are of seven sorts.

1. **Long protocol sequences.** The state machine couples a strength chosen in one round with the benefit
   measured in the next; its `below_count`, window index, turn points and stable benefit each survive from one
   phase or search to another and must be reset in the right place.
2. **Arithmetic at the edge.** `encode_benefit` halves sums *and* deltas when an addition would overflow;
   `uksm_pages_scanned` wraps in three steps; `lookup_window_index` and `below_count` are u8; 0 means both "hash is 0" and
   "hash was not computed".
3. **Partial failure in a rebuild.** Pages disappear while a tree is rebuilt and allocations fail in the
   middle; a stale node is freed while its `tree_node` is kept and reused.
4. **Stale values.** A hash is used after its page may have changed, a round is judged after the strength has
   changed, the rebuild charges counters that were just reset.
5. **Liveness.** A search must end, exploration must return, descent and ascent must make progress although every
   periodic search interrupts them; `get_uksm_page` must return although migrations make it start again.
6. **Interleavings.** Pages are written while they are hashed, compared and write-protected; they are migrated, freed and
   reused while a reference to them is taken; a page table entry changes while its TLB entries do not; counters of one page are
   read one after the other while other processes map and unmap it.
7. **Asynchrony.** A grid of threads runs while the host goes on or fails.

## 3. Modules and the code they model

| Module | Models | Lines (of dirtPages.c where no file is named) |
|---|---|---|
| `HashStrength` | the state machine; one step is one `rshash_adjust` and the scanner's `fully_scanned_round++` | 1139-1277, 1653-1768 |
| `StrengthSearch` | *abstract*: what a search promises | - |
| `HashStrengthSearch` | `HashStrength` with history variables and the refinement mapping to `StrengthSearch` | - |
| `HashStrengthProofs` | theorems about `HashStrength`, `HashStrengthSearch` and `Rshash` | - |
| `BenefitProofs` | theorems about `Benefit` | - |
| `Counters` | the counters as pure functions of one record | 655-785, 845-890 |
| `Benefit` | the counters called in any order, with ghost totals | the same |
| `Rshash` | `HashStrength` + `Counters`: pages, comparisons, collisions, adjustment, rebuild charges | 787-843, 1060-1133, 1653-1768 |
| `StableTree`, `StableTreeProofs` | the two-level tree, its rebuild, freeing of pages, failing allocations | 1288-1652 |
| `SamplingInit` | the shuffle and the calibration | 1788-1842, 1894-1921 |
| `Words` | unsigned words of a given width: powers of two, bits, `^` | the operators of 208-209 |
| `SampledHash` | on top of `SamplingInit`: the hash and its increments on words of a small width; zero hashes | 174-225, 584-647, 754-773, 916-926, 1844-1879 |
| `DirtyCheck`, `DirtyCheckProofs` | `check_collision` while the page is written | 754-820, 1060-1133 |
| `Keyhole` | *abstract*: what `get_uksm_page` promises | - |
| `KsmPage`, `KsmPageProofs` | `get_uksm_page` against the kernel's handling of the page | 1372-1429 |
| `WriteProtect`, `WriteProtectProofs` | `write_protect_page` against everybody who may write the page | 948-1031 |
| `FastHash` | the hash of fast_hash.h, hashalg.c and hashalg.cu | fast_hash.h 30-153, hashalg.c 19-83 |
| `FhTable`, `FhTableProofs` | the chained table over borrowed blocks | fast_hash.c 157-217 |
| `HashKernel` | main and the kernel of hashalg.cu | hashalg.cu 10-152 |
| `WordHashProofs` | theorems about `SamplingInit`, `SampledHash`, `FastHash` and `HashKernel` | - |
| `MC*` | constants, symmetry and views for TLC | - |

**HashStrength.** The variables carry the names of the C globals.  The `switch` of `rshash_adjust` becomes one
action per case and outcome: `StillGo`, `StillObscure`, `StillStay`, `TryDownMore`, `TryDownEnds`, `TryUpMore`,
`TryUpEnds`, `Settle`.  `Judge(m, dir)` says that `judge_rshash_direction` returns `dir`; it is a conjunct of
exactly the actions in which the code calls it.  `||` short-circuits: when `below_count` already ends a
phase, `judge` is not called and its two static counters stay (`PhaseEnds`).  Those two counters are only compared
with `> 2`, so they are cut at `Cap = 3`; `fully_scanned_round` is only used masked with 0xFF and is kept
modulo `EXPLORE_PERIOD`.  `EmptyRound` is the early return for a round in which `encode_benefit` did nothing.
What a round measured is any member of `Measurements`.

**Counters, Benefit.** A record holds every counter; `% (U64_MAX + 1)` is the width.  `EncodeBenefit` is the
whole function: fresh pages, the overflow test on the three sums, the scaled update and the reset of the
deltas.  `Benefit` calls the functions in every order the scanner can, with ghost totals `total`, `pos_left`, `neg_left`
that say what was charged.

**Rshash.** One action per call that charges: `ScanPage` (`inc_uksm_pages_scanned` and `page_hash`),
`ComparePages`, `HashMax`, `CheckCollision` (its two branches), `RebuildHash`, and `EndRound`, which
joins `HashStrength!Round` with the real measurement, `reset_benefit` and the start of a rebuild.
Which pages match is the workload's choice.

**StableTree.** Red-black trees are sets, because only membership, emptiness and the count are tested; `list` keeps the
order of `stable_node_list`, and `todo` is what remains of `list_for_each_entry_safe`.  One iteration of
the loop is a step and `FreePage` can happen between any two.  `Reinsert` has one disjunct for each path
of `stable_node_reinsert`; `Hash` is a constant table, so hashes that collide at one strength and not at another,
and the hash 0, are chosen in the MC module.  `Wrong` is what `delta_hash` makes of a hash of another strength.
`uksm_pages_shared` and `uksm_pages_sharing` are adjusted where the code does; what they should be is the size of `Shared`, the mapped nodes, and of
`Mappings`, a pair for every rmap_item under a node, which is a set the provers can count.
The insertion, sharing and dropping of nodes are done by the scanner; they are modelled from what the
rebuild does and from the comments of the allocators, and only between rebuilds, as there is one thread.  `alloc_stable_node` does not zero a node and initialises nothing but `hlist`; `InsertNode` therefore states
what whoever merges a page has to set before the tree reads it: no tree_node, and a `hash_max` that is 0 or, if the rmap_item had it, the full hash of the page.

**SamplingInit.** One swap of the shuffle a step, then the calibration: allocations that may fail, and a clock that other
work moves on by up to `LAPSE` between two readings.  `Elapsed` is the unsigned difference `jiffies - time_start`.  What `prandom_u32` returns is any member
of `RANDOM`.

**SampledHash.** `HashFromTo` and `HashFromDownTo` are the two macros, as recursive functions of the number of iterations; `XorShift` says bit by bit what a word
xored with its own right shift is, and `TwoTo` and `Bit` are powers of two and the bits of a word, so that the provers can reason about them; `DeltaHash` has the
cases of `delta_hash`, including the two halves of a change across `HASH_STRENGTH_FULL`.  A word has 8 bits and the shifts 2 and 3: the code's inverse (`HASH_FROM_DOWN_TO`)
stops after a fixed number of terms, which is exact because 4 * 8 and 4 * 12 reach 32, and `WidthAssumption` says just that.
(The comment on the macros asks for 32/3 < shiftl < 32/2, which shiftl = 8 does not meet; what the inverse needs is what the assumption states.)
The module continues `SamplingInit`: positions are sampled in the order that its shuffle left, `InitZeropageHashTable` fills the table, `PageHash` hashes any page,
and `Follow` takes the hash through any number of changes of strength.

**DirtyCheck.** The scanner reads one word a step and the owner of the page writes between any two.  A hash is here the sequence of the words it read, an
ideal hash, so that what is shown does not hang on luck.  `PageHash`, `RmapItemHashMax` and `CheckCollision` begin a hash, `Read` reads a word,
`Hashed`, `Cached` and `Verdict` are what the code does with the result; `NextVisit` is the scanner's return to the page at another strength.

**KsmPage.** Every reading of `page->mapping`, of `kpfn` and of the counts is a step of its own, named after its label in the code.
The kernel's side is external and modelled as the comments of the function rely on it: a migration holds the locks of both pages and gives up when somebody
else has a reference; the count of a page in the swap cache is frozen while it is moved, and such a page is then migrated or freed; kpfn is
written before the old mapping is cleared.  Memory is sequentially consistent, which is what `smp_rmb` and its partner are for.
`K == INSTANCE Keyhole` maps a call to one step: it holds the page once it has taken a reference to the page that is the node's.

**WriteProtect.** The page table entry, one processor's TLB entry, a shadow mapping, a pin and the counters, each changed by its own actions;
`write_protect_page` is one access a step (`Look`, `Clear`, `Flush`, `ReadCounter`, `Compare`, `SetPte`, ...).  External, and assumed: an entry is changed under its lock,
except for the dirty bit, which the hardware sets; the caller holds mmap_sem and the page lock, so that the process does not fork during the call and the
swap cache keeps the page.  `ChangePte` and `FlushChange` are the threads whose deferred flush `mm_tlb_flush_pending` announces.  Pages mapped by a huge entry (the
`WARN_ONCE`) are left out.  `unsaved` and `touched` are ghosts: what was written and is not accounted for, and whether the page was written or faulted since the call.

**FastHash, FhTable, HashKernel.** The hash is written as a loop over either length (hashalg.c, hashalg.cu), as an unrolled path for
128 bytes and a loop for 4096 (fast_hash.h); `FastHash` has each of them, a loop as a recursive function, its `^` taken from `Words`.  `HashKernel` runs the threads of a launch in any order and the launches of the stream one after the other, with the
loop, and compares its results with the other two.  Every call of the CUDA runtime inside `CUDA_CHECK` may fail and end the program, and so may a `malloc` whose result is not checked.
A launch (`<<<>>>`) is inside none: `Queue` either queues the kernel or drops it without a trace that the program looks at, and it goes on to synchronize, copy back and print.  `refused` is a ghost that remembers the outputs of the launches that were dropped;
fresh device memory holds any word of `GARBAGE`.
The table's hash is a constant operator, so that collisions are chosen.

## 4. Runs, bounds and what they show

| Run | Module | Shows |
|---|---|---|
| `search` | MCHashStrengthSearch | safety of the state machine for every sequence of measurements; a search settles on the best of its candidates; refines `StrengthSearch`, liveness included |
| `strength_live` | MCHashStrength | exploration returns, drift reaches both ends |
| `benefit` | MCBenefit | charges are conserved through overflow, scaling and wrap |
| `loop` | MCRshash | the whole feedback loop: what is judged is current and in range |
| `stable_tree` | MCStableTree | structure of the tree and published page counts through rebuilds, freed pages, failures and collisions |
| `sampling` | MCSampledHash | the table is a permutation, no division by 0, `delta_hash` is a rehash, zero hashes |
| `dirty_check` | DirtyCheck | what each verdict of `check_collision` means, with a writer between its reads |
| `keyhole` | KsmPage | the reference is to the node's page; refines `Keyhole`; the call returns |
| `keyhole_returns` | KsmPage | expected violation, see section 6 |
| `write_protect` | WriteProtect | no unseen write, no DMA, no lost dirty bit, deferred flushes of every kind included |
| `fh_table` | MCFhTable | lookups of unchanged blocks succeed; no entry leaks |
| `device` | MCHashKernel | each result of a launch that ran is its block's hash, whatever order threads run in and whatever became of the other launch; a flipped bit shows if the second ran |

The type invariants of `HashStrength`, `Benefit`, `SamplingInit`, `KsmPage`, `WriteProtect` and `FhTable` are theorems (section 5) and are not repeated as runs,
nor are the properties that only these theorems state: `TurningPointsImprove`, `SettledPrefixStays`, `PagesGivenBack`, `NothingLeftHeld`, `NothingLeftHalfDone`.

*Bounds.*

* `search`: HASH_STRENGTH_MAX = 4, steps 1 and 2, a period of 2 rounds: a search from either end and from the middle, phases that end at the end of the range or by
  the count of bad rounds, and searches that interrupt one another's aftermath.  Measurements are of each class the code distinguishes: ratios 0, in (0, 90] and above 90; benefits that
  drift by more and by less than 50 %.  The history variables hold every measurement of a search.  What needs longer phases, such as steps that reach their maximum and are
  repeated or two windows of five, is what the theorems `SearchRange`, `SearchBounded` and `BelowCountCurrent` are for: they hold for every size.
* `strength_live`: 7 strengths, steps of 1, 2 and 4, a period of 8.  A search from the lowest strength probes 2, 3 and 5 on its way up; when these measure worse, `below_count` ends it far from the maximum, it settles
  where it began, and under a ratio that is always above 90 the `GO_UP` of the STILL state must climb to the maximum in the rounds left before the next search.  With a period of 7 they are too few, and TLC refutes
  `DriftsUp`: in the run the climb between two searches is what the property hangs on.  Its mutant takes that climb away.  TLC uses no symmetry and no view here.
* `benefit`: U64_MAX = 7 and `BASE_MAX` = 2: every sum overflows, twice, and the page counter wraps.  `BASE_MAX` (63 in
  the code) ends the modelled lifetime when `pages_scanned_base` reaches it, so the behaviour stops there and deadlock
  is not checked.  `TRIAL_PAGES` bounds the pages between two resets.  `EncodeIsSafe` depends on charges per page that are small
  relative to the width: with a page that may charge all of U64_MAX = 7 and three halvings, TLC finds both the old count and the delta scaled to 0.
  In the code a page charges at most about 1034 + `memcmp_cost` per call against 2^64; the theorem `EncodingIsSafe` says how small is enough.
* `loop`: FULL = 4, LOOPBACK = 2, steps 1 and 2, a period of 4, two pages a round, two charging calls a page, two hashes a
  rebuild.  U64_MAX = 10^6 is above 100 times any sum, so this run is about the loop and not about overflow, which is
  `benefit`'s.  `LoopView` drops fields of the state machine that are written before they are next read (each state of the machine names which ones) and
  `pages_scanned`, of which only the difference to `pages_scanned_last` matters below the wrap: two states it identifies have the same futures and the same values of every property.
* `stable_tree`: three nodes, three contents, a low and the full strength, two mappings beyond the first in all: enough for a pair under one hash and a third node that joins,
  splits or doubles it, a rebuild of three iterations and a stale node, shared or not, at any place.  The contents collide at the low strength;
  two of them collide at both levels through the 0-to-1 substitution.  Nodes are interchangeable (they occur only as
  identities in sets, sequences and record fields, and no property names one), so the symmetry is sound; it is a run
  without liveness.
* `sampling`: pages of three words over six values that exercise carries and both ends of the shifts, a loop-back of two, every draw and thus every permutation; a clock of 8 ticks started at any of
  them, so that it wraps in every phase; a measurement spans 3 ticks and the clock moves by up to 2 at a time, less than a turn in all (`ClockAssumption`).  Start-up ends when it fails, so deadlock is not checked.
* `dirty_check`: three words of two values and a loop-back of one: a word that is read, one that is read later, one that is read again, and one that is
  not sampled.  Writes are not bounded.
* `keyhole`: three migrations or reclaims over four pages: the page moves at each of the three readings, and once more during a retry.
  `keyhole_returns` allows a migration back.
* `write_protect`: one sharer, which comes and goes between calls (`SHARING` = FALSE, see section 6); clear_refs, NUMA hints and MADV_FREE, each with its flush deferred; DMA.  Calls, writes and faults are not bounded.
* `fh_table`: three entries over three blocks of two lengths; a hash with a collision of two contents, of two lengths, and in a bucket only; a `size_t` of 3 bits, requests of 0, 1, 3 and 4.
* `device`: three threads a block, so that either grid has threads with no block; 5-bit words, odd constants, three seeds of `fill_pattern`, every bit that can be flipped, blocks of 16 and of
  20 words (four and five rounds of the four lanes).  Fresh device memory holds 0 or 9 in each word, so that after a failed launch two results may be equal or differ.  The program ends, so deadlock is not checked.

*Fairness.* `FairSpec` assumes WF of `ScanRound`: while the scanner runs, rounds that scan some page do not stop coming.  `EmptyRound` has
no fairness.  It is also what separates `Reexplores` from an unconditional claim: a masked round 10 that scans nothing skips
the exploration of its period, and `Reexplores` assumes that from some moment on this does not happen.  `DriftsDown` and `DriftsUp` assume what the
workload measures, not what the code does.
`keyhole` has WF of the steps of
`get_uksm_page` and of the kernel's operation under way, not of beginning one: the kernel finishes what it has begun, and the bound on the operations stands for
a page that is not migrated for ever (`CallReturns`).  `search` has the fairness of `FairSpec` too, and with it
implements the abstract search with WF of `Settle`: every search ends.

*Mutants.* Beside most definitions stands a variant that changes it as a plausible slip would; `PROJECT.json` names for each property one such
variant that breaks it under the run's own configuration.

## 5. Proofs

Each theorem holds for every value of the constants that meets the assumptions of its module.

| Module | Theorem | Statement |
|---|---|---|
| `HashStrengthProofs` | `TypeCorrect` | `Spec => []TypeOK` |
| | `SearchRange` | `Spec => []SearchStaysInRange` |
| | `SearchBounded` | `Spec => []SearchIsBounded` |
| | `BelowCountCurrent` | `Spec => []BelowCountIsCurrent` |
| | `PointsOnlyImprove` | `Spec => TurningPointsImprove` |
| | `SearchWatches` | `SearchSpec => Spec` |
| | `PointsWereMeasured` | `SearchSpec => []TurningPointsMeasured` |
| | `SettlesAtBest` | `SearchSpec => []SettlesAtBestCandidate` |
| | `SearchImplemented` | `SearchSpec => Abstract!Spec` |
| | `LoopRunsTheMachine` | `RshashSpec => Spec` |
| | `CreditsCurrent` | `RshashSpec => []CreditsAreCurrent` |
| | `MeasurementsInRange` | `RshashSpec => []MeasurementInRange` |
| | `FullStrengthStays` | `RshashSpec => FullStrengthHolds` |
| `BenefitProofs` | `BenefitTypeCorrect` | `BenefitSpec => []BenefitTypeOK` |
| | `ChargesConserved` | `BenefitSpec => []ChargesAreConserved` |
| | `ScalingCorrect` | `BenefitSpec => []ScalingNeverOvercounts` |
| | `PagesCountedOnce` | `BenefitSpec => PagesAreCountedOnce` |
| | `EncodingIsSafe` | `CostsAreSmall`: `BenefitSpec => []EncodeIsSafe` |
| `StableTreeProofs` | `RebuildIsSafe` | `StableTreeSpec => []CursorIsAllocated` |
| | `TreeNodesAreCounted` | `StableTreeSpec => []CountsMatch` |
| | `CollisionTreesAreKeyed` | `StableTreeSpec => []SubtreesKeyed` |
| | `NodesAreUnderTheirHash` | `StableTreeSpec => []LinkedUnderTheirHash` |
| | `RebuildKeepsNodes` | `StableTreeSpec => OnlyHiddenNodesUnlinked` |
| | `PagesAreCounted` | `StableTreeSpec => []PagesCounted` |
| `WordHashProofs` | `SamplingTypes` | `Spec => []TypeOK` |
| | `ShuffleKeepsPermutation` | `Spec => []SamplesDistinctWords` |
| | `CostDivisorIsPositive` | `Spec => []DivisorIsPositive` |
| | `CalibrationGivesPagesBack` | `Spec => []PagesGivenBack` |
| | `PrefixIsSettled` | `Spec => SettledPrefixStays` |
| | `DeltaHashIsRehash` | `SampledSpec => []DeltaIsRehash` |
| | `ZeroPagesAreFound` | `SampledSpec => []ZeroPagesFound` |
| | `PrintedAreHashes` | `KernelSpec => []ResultsAreHashes` |
| | `FlipNeverHides` | `KernelSpec => []FlippedBitShows` |
| `DirtyCheckProofs` | `ChangedIsTrue` | `Spec => []ChangedMeansWritten` |
| | `CollisionIsTrue` | `Spec => []CollisionReadTheSame` |
| `KsmPageProofs` | `KeyholeTypes` | `Spec => []TypeOK` |
| | `ReturnsNodesPage` | `Spec => []ReturnedPageIsNodes` |
| | `FailureHoldsNothing` | `Spec => []NothingLeftHeld` |
| | `NodeKept` | `~RETURNS`: `Spec => []NodeKeptWhilePageLives` |
| | `KeyholeImplemented` | `~RETURNS`: `Spec => ImplementsKeyhole` |
| `WriteProtectProofs` | `WpTypes` | `Spec => []TypeOK` |
| | `FaultsFirst` | `Spec => []ProtectedNeedsFault` |
| | `DirtyKept` | `Spec => []DirtyNeverLost` |
| | `ExitsClean` | `Spec => []NothingLeftHalfDone` |
| | `OrigPteTells` | `Spec => []OrigPteShowsWrites` |
| | `DmaIsExcluded` | `SHARING = FALSE`: `Spec => []DmaExcluded` |
| `FhTableProofs` | `TableTypes` | `Spec => []TypeOK` |
| | `TableLeaksNothing` | `Spec => []NothingLeaked` |
| | `UnchangedIsFound` | `Spec => []FoundWhileUnchanged` |

Argument for `HashStrength`.  `SearchStaysInRange` is not inductive: that a downward probe which becomes the turning point lies in 1..stable_point needs the
strength to be below it, and that the strength drops below it needs the step to be at least one, hence the type of
`hash_strength_delta`; `TypeInv` is the conjunction of both.  `SearchIsBounded` needs more: the distance covered after *k* rounds of a phase.  The strengthening
`SearchInv` says that after *k* rounds the step exponent has reached min(k, DELTA_MAX) and that the strength has moved by at
least (k - DELTA_MAX) * MaxStep from the start or stands at the end of the range; the end of the range ends the phase, so *k* is bounded by
DELTA_MAX + MAX div MaxStep + 2.  `BelowCountIsCurrent` is inductive with the bound, which keeps the u8 counters from wrapping.

Argument for `HashStrengthSearch`.  The history variables are written beside `HashStrength!Round` and never read by it (`SearchWatches`), so that `SearchInv` holds here too.
That a search settles at the best of its candidates speaks of the step that ends it; `HistoryInv` says what is known on the way there (`Measured`): both turning points are among the probes,
no worse than the first measurement, and every other probe is no better than one of them, or is a probe on the way down that lay below the old `stable_benefit` (section 6).
The rounds fall into four sorts, one lemma each: outside of a search, one that begins it, one that probes down, one that probes up.  With `HistoryInv` each is a step of `StrengthSearch` under the mapping, or a stutter.

Argument for `Rshash`.  The theorems about the state machine ask that what is measured be a member of `Measurements`; that it is one is what has to be shown of the counters.
`LoopInv` bounds the pages of a round (at most ROUND_PAGES, and as many again carried over by an encoding at the wrap of `pages_scanned`) and what they and the rebuild before them may still charge (`CostsBounded`).
By `ChargesFitAssumption` this stays below the width, so that no sum is scaled in the round (`benefit_base` = 0), the ratio is one of the charges of the round, at most 100, and the benefit is what the pages
saved, each `HASH_STRENGTH_FULL` minus the strength in force (`CreditsAreCurrent`).  Hence every `EndRound` is a `Round` of `HashStrength` or an `EmptyRound`, and every other action a stutter.

Argument for `Benefit`.  `inc_rshash_pos` calls `encode_benefit` before an addition that would wrap and ignores its result, yet an encoding
does nothing when no page is fresh.  `ChargesAreConserved` is therefore not inductive; `ChargesFit` adds what saves the code: when no page is fresh, the running counter and
what the page or rebuild in progress may still charge fit together (a counter was emptied when the pages stopped being fresh, and a page or
rebuild charges less than U64_MAX).  `BenefitInv` is the conjunction.  `ScalingNeverOvercounts` is proved with `NeverMore`, on lemmas about each operator of
`Counters`: halving a sum and its delta and doubling the unit never grows what the two stand for (`ShiftNeverGrows`), and a sum modulo the width is at most the sum.
`PagesAreCountedOnce` is about steps: `EverScanned` is what the wrapping counter and the stored one stand for together, a step of `inc_uksm_pages_scanned` raises it by one, and no other step moves it.  At a wrap of `uksm_pages_scanned` with a stored count that is scaled, or is being scaled, shifts drop something: less than a unit by the first, at most a new unit by the halves, together less than two units (`StorePagesCounts`).

`EncodeIsSafe` is the harder half: the sums are scaled with the count of pages, and an encoding in which an old count of 1 and a fresh delta of 1 are both halved would divide by zero later.  What excludes it is that sums grow only with pages:
in units of the present shift, a sum is at most rate * (3 * scanned + 3 + debt), where the rate is what a page and a rebuild can charge (`SumCovered`), and a running counter with what may still be charged at most rate * (fresh + 1) (`RunCovered`).
The 3 is lost by rounding: a halving rounds the count down and may leave the sum.  The debt is 1 while `pages_scanned_last` is 0, that is since `uksm_pages_scanned` wrapped: the encoding made there may have come with a single page, and rounded it away; every other encoding counts at least one page after its shift (`Pays`), which makes up for what it rounds off.
A sum that overflows is therefore the sum of several pages, so that a half of them is left (`OverflowHasPages`); one that does not overflow leaves the count as it was.  A count that is shifted by the base before it is added comes from an encoding that
a full counter forced, which has at least 2^`BASE_MAX` fresh pages, or from a round after which the base is 0.  `CoverInv` is the conjunction with `BenefitInv`.
`CostsAreSmall` asks that nine charges of a page, and 2^`BASE_MAX` of them, fit a counter.  With the code's rates of about 2^11 and counters of 64 bits it covers every `BASE_MAX` up to 52, and a round that shifts 52 times would have scanned some 2^105 pages;
the small numbers of the run `benefit` do not meet it and have the property all the same, so the bound is sufficient and not necessary, but some bound is: see the run's.

Argument for `StableTree`.  None of the structural properties is inductive.  `Sound(d, T, E)` is what they need together, with the nodes T that the rebuild has still to visit and the hashes E whose tree_node may be
empty for the moment: what is listed is what is allocated and what has still to be visited is listed (`Allocated`); a node that points to a tree_node is in it, under the hash of its page at that tree's strength, and
is in the old tree exactly while it has still to be visited (`Pointed`); a node in the new tree is allocated and points back (`Held`); counts are cardinalities (`Counted`); a cached full hash is the page's (`Hashed`), and nodes that share a tree_node have
different ones (`Apart`).  `TInv` adds roots and types.  The functions of the code (taking a node out, unlinking it, extending its full hash, putting it alone or beside others) each have a lemma that says which parts of `Sound` they keep
and how T and E change, so that the steps of the rebuild are compositions.  `Balanced` relates the published counters to the mappings as a finite set of pairs; a step adds or removes one pair, or all the pairs of a node.

Argument for `DirtyCheck`.  With ghost sets of the words written since the hash was taken (`dirty`) and since the full hash was (`dirty_max`), `DInv` says that every kept or running hash has read each word it should, in the order of the table, and
that it agrees with the page in all the words not written since (`Follows`).  A hash that differs has therefore a word that was written; and a check without a write in between has read what the page holds (`ChecksRead`).

Argument for `SamplingInit`.  A swap within a permutation leaves a permutation, whether or not its two positions differ; the index drawn is in the tail, so that the prefix below
stays.  The divisor is the clock's advance when the timed loop ended; the loop ends only when at least SPAN ticks have passed, and no more than SPAN + LAPSE, which is less than a turn of the clock
(`ClockAssumption`), so the difference modulo the turn is the advance itself, at least SPAN > 0.

Argument for `SampledHash`.  One iteration of the inverse macro undoes one of the forward macro:
* *xor with the right shift.*  The bits tell a word (`Bit`), and any bits make one, so `XorShift` is well defined and its bits are sums modulo 2.  Applying it with n and then with 2n gives the bits j and j + 4n back, and bit j + 4n is 0 because 4 * shiftr reaches the width.
* *adding the left shift.*  With L = 2^shiftl, (1 + L)(1 - L)(1 + L^2) = 1 - L^4, and L^4 is a multiple of 2^WIDTH because 4 * shiftl reaches the width: so the code's subtraction and addition undo the sum, modulo the width.

The macros are recursive functions over the number of iterations, so that induction is needed; the provers cannot instantiate the library's induction rule, and it is done by hand for each statement: the set of the numbers at which it fails has a least element
(`WFMin` of WellFoundedInduction), which is neither 0 nor a successor.  From that the recursive definitions have values, a pass goes on where another stopped (`UpGoesOn`), and the inverse undoes it (`DownUndoes`); the six cases of `delta_hash` combine these.
`HashInv` says that the table of positions is fixed before the first hash is taken, and that the kept hash is the page's.  For the zero table: `Mix` tells words apart for equal hashes and hashes apart for equal words, so that a word
sampled once shows through all the words sampled later (`OneWordShows`); that is why the property excludes words that the loop-back samples again.

Argument for `FastHash` and `HashKernel`.  That the three ways to write the hash agree is an induction over their iterations, made by hand as above: each recursive function is a run of steps (`RecursionIsRun`), runs of equal steps agree, an offset of 32 n bytes is the
word 4 n (`OffsetsAreLoop`), and four STEPs of a row of the unrolled path are one iteration (`RowIsFourWords`, `UnrolledIsLoop`).  That a flipped bit shows needs every step to be one to one: `^` because the bits tell a word (`XorTells`), a multiplication by an odd constant because an odd number times what is not a multiple
of 2^WIDTH is none (`OddMultiple`), `h ^ (h >> s)` because its bits tell those of h from the highest down (`XorHighTells`).  So two blocks that differ in one word leave the lanes equal up to that word's row and one lane different from there on (`LanesDiffer`), joining the lanes keeps the difference (`JoinTells`), and so does `fh_mix`.
For the program, `KernelInv` says of each place of the host what the stream holds and what the threads that are gone have written: a launch has in `todo` every thread whose block has no hash yet (`ShortLeft`, `LongLeft`), the grid covers the blocks whatever the threads in a block are (`GridCovers`), and a kernel that has ended has no thread left.
It also says that the memory of a launch that was dropped is as it was allocated, so that what is printed for it is garbage and what is printed for the other launch is not touched by it.

Argument for `KsmPage`.  `KInv` relates who holds which lock and reference to what the kernel may then do: an operation does not move a page that somebody else holds, a page whose mapping is the node's is the page kpfn names or
one that is about to be given up, and at most one page is alive as the node's.  From it a page returned is the node's.  For the node, `Kept` says what the call knows when it is about to give the node up:
the page it looked at was kpfn's, is not any more the node's, and kpfn has not changed; without migrations back (`~RETURNS`) a kpfn that was given up never returns, so the page is dead.  With them this step fails,
which is the finding of section 6.  The refinement maps `alive`, `listed` and `held`, and every step of the call is a step of `Keyhole` or leaves the three as they are.

Argument for `WriteProtect`.  That a protected page faults is not inductive: it needs to know why a processor may write without looking at the entry.  `Cached` says that a TLB entry that can write means that
the entry can be written, or that a flush is pending, or that the call is between `Clear` and `Flush`; so nothing is cached when the counters are compared (flushed), and nothing when the entry needed no change (no flush pending).
`Dirt` is the like for the dirty bit: a TLB entry that is dirty means that the page is accounted for as written, unless an MADV_FREE is under way.  `Entries` says where the entry is while it is away, and that
an entry that is not present has no rights.  `WInv` is their conjunction with the types and locks.
`OrigPteShowsWrites` adds `Shown`: the entry that is copied out is clean, and what dirties the page after that makes the entry dirty or goes with the mapping; a processor's dirty TLB entry has set the entry's bit before, unless an MADV_FREE has yet to flush it.
`DmaExcluded` adds `Counted`, which says of each counter what it was when read and who can hold a pin since: with both read and no sharer come or gone, equality leaves no reference for a pin, and a new pin needs a writable entry, which is gone.
It is a theorem under `SHARING` = FALSE; with `SHARING` = TRUE it is false (section 6).

Argument for `FhTable`.  The invariant says of each chain that its entries are allocated, occur once in all chains, and lie in the bucket of their hash; while an entry's block is unchanged the hash is the block's. A lookup of an
unchanged block goes to that bucket, and the entry meets the test, so the first entry that does exists.

Assumptions of `HashStrength`: `StrengthAssumption` and `RoundAssumption` are the ranges of the `#define`s; `MeasurementsAssumption` says ratio and
benefit are unsigned; `ShiftAssumption` states the values of 1 << d that the code can form, because the provers do not compute powers;
`WindowAssumption` says a phase is shorter than the range of a u8: for 4 KB pages SearchBound = 5 + 1034 div 32 + 2 = 39 < 255.
Of `Counters` and `Benefit`: `U64Assumption` and `CostAssumption` (a page or a rebuild charges at most U64_MAX in all), and `BaseAssumption`,
the powers of two that shifts divide by.  TLC evaluates all of them in every run that extends the module.

Of `Rshash`: `ChargesFitAssumption` says that what two rounds and a rebuild can charge stays below the width, which 2^64 does for any memory there is, and `MeasuredAssumption` that
`Measurements` has every ratio of 0 .. 100 and every benefit of 0 .. HASH_STRENGTH_FULL.  Of `Words`: `WidthAssumption`, a width is a natural number.  Of `SampledHash`: `ShiftAssumption` (above; 32, 8 and 12 meet it) and `PageAssumption`, which gives the ranges of seed, words and loop-back.
Of `FastHash` and `HashKernel`: `HashAssumption`, odd constants, shifts of 1 .. WIDTH and a long block of whole rows of four words, not shorter than the other; `KernelAssumption`, at least one thread in a block, and seeds and garbage that are words.
Of `StableTree`: `HashAssumption`, a table of naturals for each content and strength.  Of `DirtyCheck`: `PageAssumption`, a page of at least one word and a loop-back no longer than the page.

Of the other modules: `SamplingAssumption`, `ClockAssumption`, `KsmAssumption`, `WriteProtectAssumption` and `TableAssumption` give the ranges of the constants;
beyond that, the second bounds a measurement to less than a turn of the clock.

Not proved, and only model-checked:
* Liveness (`Reexplores`, `DriftsDown`, `DriftsUp`, `CallReturns`, the fair part of `ImplementsSearch`), which needs fairness and ENABLED, out of the provers' reach.

## 6. Findings and remarks

**Finding** (`keyhole_returns`, code bug).  `kpfn` is compared with its earlier value to recognise a migration (1424); a migration away and another back to the same frame leave it equal, and
the node of a live page is removed.  It takes two complete migrations during one call.

The following disagreements were met while modelling.  They are not runs of their own; each can be seen in the module named.

* 1703 against 1636.  The header comment of the state machine says the search finds the strength that maximises the benefit.  A
  downward probe below the old `stable_benefit` only bumps `below_count` and is never a candidate, even when it is
  the best measured in this search: the round that starts the search re-bases `turn_benefit_*` but not `stable_benefit`.
  `SettlesAtBestCandidate` is the claim that does hold (`HashStrengthSearch`).
* 818 and 1113 against 412.  The comment on `rshash_neg` gives one full-hash charge per forced comparison; `check_collision` adds it and
  `page_hash_max` adds it again (`Rshash!CheckCollision`).
* 1152 against 1845.  The table of zero hashes has an entry for "every possible hash_strength value", [0, HASH_STRENGTH_MAX), but the strength reaches HASH_STRENGTH_MAX;
  `ZeroPagesFound` stops at the last entry, and no code in the repository calls `find_zero_page_hash`.
* 1128 against 1100.  `MERGE_ERR_COLLI` is said to mean that the page is unchanged; without a cached full hash only the words that `hash_strength`
  samples are read again, and a page written elsewhere is reported as a collision.  `CollisionReadTheSame` is what holds (`DirtyCheck`).
* 1115 against 1109.  The cached full hash is said to be recomputed; `page_hash_max` extends the hash made earlier, so that both sides hold the
  old values of the sampled words.
* 1415 against 1370.  The page is said to be returned locked; it is referenced and not locked (`KsmPage!LeaveLock`).
* 1004 against 1003.  `page_mapcount` and `page_count` are two readings.  A process that shares the page and exits in between lowers the second by its reference, which makes up for the
  reference of a pin: the page is protected under DMA.  `DmaExcluded` does not hold of `WriteProtect` with `SHARING` = TRUE.
* 988 against 1003.  The counters are compared only if the entry is writable, dirty or awaits a flush.  A page that was pinned, then made clean (MADV_FREE) and read-only (clear_refs), passes
  unchecked; `DmaExcluded` is about the calls that compared them.
* 172 of fast_hash.c.  `init_hash_table` does not return when asked for more buckets than the largest power of two of a `size_t` (`FhTable!Double`).
* 129 and 133 of hashalg.cu against 132.  The comment has the synchronization check for launch errors.  A launch that fails before it runs (no kernel image for the device, no resources) is reported by `cudaGetLastError`
  only, which is never called: `cudaDeviceSynchronize` succeeds, buffers that no kernel wrote are copied back and printed as hashes, and the answer that "should be no" (144) may be yes.  In `HashKernel`, `FlippedBitShows` without its
  condition on `refused` is violated, and so is `ResultsAreHashes`; with it they say what is left: the other launch is right all the same.
* 133.  `is_full_zero` looks at whole words only; its one caller passes PAGE_SIZE.
* 56 of whichPages.c against 25.  1 is said to mean present and dirty; whether the page is present is printed and not used.

## 7. Not modelled

* The memory comparison helpers: single string instructions in assembly, without state; what they decide is an input of the modules that call them.
* `PageTransfer.c`: a straight line around one asynchronous copy, whose hazard lies between the CUDA runtime and the kernel's handling of pinned pages.
* `whichPages.c`: one read of one pagemap entry in a sketch whose first half is a comment.
* The AES-NI branch of `fast_hash_4096`: another hash for the same blocks, chosen at compile time, whose round is the processor's.
* `VCstring.h`: straight-line byte loops; `volatile_memset` is defined twice, so the header cannot be included as it is.
* The exercises (`nodes.c`, `malloc.c`, `realloc.c`, `memset.c`, `memcpy.c`, `memcmp.c`, `free_malloc_memcpy.c`, `advanced pointer shi.c`): one library call each,
  with no state that outlives main.  `notes` and `KPUD` are text.
* Formatting and logging; in `write_protect_page` a page mapped by a huge entry.
* The scanner loop, which is not in the repository: the modules call the functions in every order its comments allow.

The stable tree and the feedback loop are two modules: the rebuild's charges appear in `Rshash` as a number of full hashes, and in `StableTree`
the strength changes arbitrarily, which covers every change the state machine makes.  `StableTree` takes `get_uksm_page` for one step, which `KsmPage` shows it
to be, and hashes for a table, which `SampledHash` shows to be followed exactly by `delta_hash`.

## 8. What could follow

The modules were written in this order: `HashStrength` and its proofs, `StrengthSearch` and the refinement, `Counters`, `Benefit` and its proofs, `Rshash`, `StableTree`; then
`SamplingInit` and `SampledHash`, `DirtyCheck`, `Keyhole` and `KsmPage`, `WriteProtect`, `FastHash` and `FhTable`, `HashKernel`.  The proofs followed them: the structure and the counters of the stable tree, the verdicts of `DirtyCheck`, the search and the feedback loop, `delta_hash`, and last
the encoding of the fraction and the hash of the device.  Every invariant that a run checks is now also a theorem, some under a stated assumption (`CostsAreSmall`, `~RETURNS`, `SHARING` = FALSE).

Not done: that a rebuild leaves every page it keeps findable by the search of the new tree (the search itself is not in the repository), and that `FhTable` implements a set of blocks, stated as an abstract specification.
