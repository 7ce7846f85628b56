------------------------------- MODULE Rshash -------------------------------
(***************************************************************************)
(* The feedback loop of dirtPages.c: the pages of a scan round charge the  *)
(* counters (Counters), and rshash_adjust turns what they measured into    *)
(* the next hash_strength (HashStrength) and rebuilds the stable tree,     *)
(* which charges the counters of the round to come.                        *)
(*                                                                         *)
(* There is one scanner thread, so each call is one step.  Which pages     *)
(* match and which are in the tree is the workload's choice: a page may    *)
(* cause any of the calls that charge, up to CALLS_PER_PAGE of them.       *)
(***************************************************************************)
EXTENDS HashStrength, Counters

CONSTANTS
  MEMCMP_COST,       \* measured at start: a memcmp, in hash positions
  ROUND_PAGES,       \* bound: pages in a round
  CALLS_PER_PAGE,    \* bound: charging calls for one page
  REBUILD_NODES      \* bound: full hashes computed by one rebuild

ASSUME LoopAssumption ==
  /\ MEMCMP_COST \in Nat
  /\ ROUND_PAGES \in Nat \ {0} /\ CALLS_PER_PAGE \in Nat /\ REBUILD_NODES \in Nat

(* The most that one call charges, with a full hash at hand. *)
CallCost == MEMCMP_COST + 2 * HASH_STRENGTH_MAX

(* A round, and the pages a wrap of pages_scanned may add to it, stays far  *)
(* below the width: with 64 bits and 4 KB pages for any memory there is.    *)
ASSUME ChargesFitAssumption ==
  /\ 1000000 <= U64_MAX
  /\ (2 * ROUND_PAGES) * HASH_STRENGTH_FULL <= U64_MAX
  /\ REBUILD_NODES * HASH_STRENGTH_MAX + (2 * ROUND_PAGES) * (CALLS_PER_PAGE * CallCost)
       <= U64_MAX
(* What a round can measure is what rshash_adjust is prepared for. *)
ASSUME MeasuredAssumption ==
  [ratio : 0 .. 100, benefit : 0 .. HASH_STRENGTH_FULL] \subseteq Measurements

VARIABLES
  acct,      \* the counters
  calls,     \* calls still to come for the page being examined
  rebuild    \* full hashes still to come in the rebuild under way

loopVars == <<vars, acct, calls, rebuild>>

(* get_current_neg_ratio; mutant: only a zero divisor is guarded. *)
NegRatioUnclamped(a) ==
  LET big == a.benefit_neg > U64_MAX \div 100
      neg == IF big THEN a.benefit_neg ELSE 100 * a.benefit_neg
      pos == IF big THEN a.benefit_pos \div 100 ELSE a.benefit_pos
  IN IF a.benefit_neg = 0 THEN 0 ELSE IF a.benefit_pos = 0 THEN 100 ELSE neg \div pos

NegRatio(a) ==
  LET big == a.benefit_neg > U64_MAX \div 100
      neg == IF big THEN a.benefit_neg ELSE 100 * a.benefit_neg
      pos == IF big THEN a.benefit_pos \div 100 ELSE a.benefit_pos
  IN IF a.benefit_neg = 0 THEN 0
     ELSE IF a.benefit_pos = 0 \/ a.benefit_neg > a.benefit_pos THEN 100
     ELSE neg \div pos

(* get_current_benefit *)
NetBenefit(a) ==
  IF a.benefit_neg > a.benefit_pos THEN 0
  ELSE (a.benefit_pos - a.benefit_neg) \div a.benefit_scanned

Measure(a) == [ratio |-> NegRatio(a), benefit |-> NetBenefit(a)]

(* What page_hash credits at strength s; mutant: at the first strength.     *)
SavedAtStart(s) == HASH_STRENGTH_FULL - HASH_STRENGTH_START
Saved(s) == IF s < HASH_STRENGTH_FULL THEN HASH_STRENGTH_FULL - s ELSE 0

(* What page_hash_max charges to extend a hash to full strength. *)
Extension == HASH_STRENGTH_MAX - hash_strength

-----------------------------------------------------------------------------
RshashInit ==
  /\ Init
  /\ acct = NoAccounts
  /\ calls = 0
  /\ rebuild = 0

(* The scanner counts a page and hashes it, page_hash with cost accounting. *)
ScanPage ==
  /\ rebuild = 0
  /\ Fresh(acct) < ROUND_PAGES
  /\ acct.pages_scanned_base < BASE_MAX    \* bound: the shift count
  /\ acct' = IncRshashPos(IncPagesScanned(acct), Saved(hash_strength))
  /\ calls' = CALLS_PER_PAGE
  /\ UNCHANGED <<vars, rebuild>>

Call(a) ==
  /\ calls > 0
  /\ acct' = a
  /\ calls' = calls - 1
  /\ UNCHANGED <<vars, rebuild>>

(* memcmp_pages_with_cost *)
ComparePages == Call(IncRshashNeg(acct, MEMCMP_COST))

(* page_hash_max, through rmap_item_hash_max when nothing is cached *)
HashMax == Call(IncRshashNeg(acct, Extension))

(* check_collision: with a full hash at hand it computes the page's again,  *)
(* which charges Extension a second time; otherwise the page is rehashed.   *)
CheckCollision ==
  \/ Call(IncRshashNeg(IncRshashNeg(IncRshashNeg(acct, MEMCMP_COST), Extension),
                       Extension))
  \/ Call(IncRshashNeg(acct, MEMCMP_COST + hash_strength))

(* rshash_adjust at the end of a round that scanned pages.  Mutant: the     *)
(* counters of the round are kept.                                          *)
EndRoundKeepsBenefit ==
  LET a == EncodeBenefit(acct)
  IN /\ rebuild = 0 /\ Encodes(acct)
     /\ Round(Measure(a))
     /\ acct' = a
     /\ calls' = 0
     /\ rebuild' \in IF hash_strength' = hash_strength THEN {0} ELSE 0 .. REBUILD_NODES
EndRound ==
  LET a == EncodeBenefit(acct)
  IN /\ rebuild = 0 /\ Encodes(acct)
     /\ Round(Measure(a))
     /\ acct' = ResetBenefit(a)
     /\ calls' = 0
     /\ rebuild' \in IF hash_strength' = hash_strength THEN {0} ELSE 0 .. REBUILD_NODES

(* A round that scanned nothing: rshash_adjust returns at once. *)
EndEmptyRound ==
  /\ rebuild = 0 /\ ~Encodes(acct)
  /\ EmptyRound
  /\ calls' = 0
  /\ UNCHANGED <<acct, rebuild>>

(* stable_tree_delta_hash, called by rshash_adjust: stable_node_hash_max    *)
(* computes the full hash of nodes that collide.                            *)
RebuildHash ==
  /\ rebuild > 0
  /\ acct' = IncRshashNeg(acct, Extension)
  /\ rebuild' = rebuild - 1
  /\ UNCHANGED <<vars, calls>>

RshashNext ==
  \/ ScanPage
  \/ ComparePages
  \/ HashMax
  \/ CheckCollision
  \/ EndRound
  \/ EndEmptyRound
  \/ RebuildHash

RshashSpec == RshashInit /\ [][RshashNext]_loopVars

-----------------------------------------------------------------------------
(* Properties. *)

(* A measurement is about the strength in force: everything that has been   *)
(* saved since the last adjustment was saved at this hash_strength, page by *)
(* page.  A strength that changed without the counters being encoded and    *)
(* reset would be judged by what another strength did.                      *)
CreditsAreCurrent ==
  acct.benefit_pos + acct.rshash_pos =
    (acct.benefit_scanned + Fresh(acct)) * Saved(hash_strength)

(* What rshash_adjust is given to judge makes sense: the ratio is a         *)
(* percentage and the net benefit per page is at most what the present      *)
(* strength saves on a page, whatever rebuilds and collisions charged.      *)
MeasurementInRange ==
  Encodes(acct) =>
    Measure(EncodeBenefit(acct)) \in
      [ratio : 0 .. 100, benefit : 0 .. Saved(hash_strength)]

(* With HASH_STRENGTH_FULL positions or more nothing is saved, so any       *)
(* charge reads as a ratio of 100 and pushes the strength further up: a     *)
(* strength that high comes down only in a search, in the masked round that *)
(* starts one, or after three rounds without a single charge.               *)
FullStrengthHolds ==
  [][/\ rshash_state.state = "STILL"
     /\ hash_strength >= HASH_STRENGTH_FULL
     /\ hash_strength' < hash_strength
     => \/ ExploreNow
        \/ rshash_neg_cont_zero >= 2 /\ acct.rshash_neg = 0]_loopVars
=============================================================================
