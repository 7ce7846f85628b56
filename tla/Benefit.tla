------------------------------- MODULE Benefit -------------------------------
(***************************************************************************)
(* The counters under the calls the scanner makes.  The scanner is not in  *)
(* the repository; by the header of section 13 it counts a page, charges   *)
(* it, and adjusts at the end of a round, and an adjustment that changes   *)
(* the strength rebuilds the stable tree, which charges again.  pos_left   *)
(* and neg_left are what may still be charged for the page or the rebuild  *)
(* in progress.                                                            *)
(***************************************************************************)
EXTENDS Counters

CONSTANTS
  POS_PER_PAGE,      \* most one page can add to rshash_pos
  NEG_PER_PAGE,      \* most one page can add to rshash_neg
  NEG_PER_REBUILD,   \* most one rebuild can add to rshash_neg
  TRIAL_PAGES        \* bound: pages scanned between two adjustments

ASSUME CostAssumption ==
  /\ POS_PER_PAGE \in 0 .. U64_MAX
  /\ NEG_PER_PAGE \in 0 .. U64_MAX
  /\ NEG_PER_REBUILD \in 0 .. U64_MAX
  /\ TRIAL_PAGES \in Nat

VARIABLES
  acct,                  \* the counters
  pos_left, neg_left,    \* what may still be charged
  total                  \* history: exact sums since the last reset_benefit

benefitVars == <<acct, pos_left, neg_left, total>>

BenefitTypeOK ==
  /\ acct \in Accounts
  /\ pos_left \in 0 .. POS_PER_PAGE
  /\ neg_left \in 0 .. U64_MAX
  /\ total \in [pos : Nat, neg : Nat, pages : Nat]

NoCharge == [pos |-> 0, neg |-> 0, pages |-> 0]

BenefitInit ==
  /\ acct = NoAccounts
  /\ pos_left = 0 /\ neg_left = 0
  /\ total = NoCharge

-----------------------------------------------------------------------------
(* The calls of the scanner. *)

(* Bound: the shift counts. *)
ShiftsLeft == acct.benefit_base < BASE_MAX /\ acct.pages_scanned_base < BASE_MAX

ScanPage ==
  /\ ShiftsLeft /\ total.pages < TRIAL_PAGES
  /\ acct' = IncPagesScanned(acct)
  /\ pos_left' = POS_PER_PAGE /\ neg_left' = NEG_PER_PAGE
  /\ total' = [total EXCEPT !.pages = @ + 1]

Credit(delta) ==
  /\ acct.benefit_base < BASE_MAX
  /\ acct' = IncRshashPos(acct, delta)
  /\ pos_left' = pos_left - delta
  /\ total' = [total EXCEPT !.pos = @ + delta]
  /\ UNCHANGED neg_left

Charge(delta) ==
  /\ acct.benefit_base < BASE_MAX
  /\ acct' = IncRshashNeg(acct, delta)
  /\ neg_left' = neg_left - delta
  /\ total' = [total EXCEPT !.neg = @ + delta]
  /\ UNCHANGED pos_left

(* rshash_adjust, as far as the counters go; nothing happens when           *)
(* encode_benefit returns 0.                                                *)
EndRound ==
  /\ Encodes(acct)
  /\ acct' = ResetBenefit(EncodeBenefit(acct))
  /\ pos_left' = 0
  /\ neg_left' \in {0, NEG_PER_REBUILD}
  /\ total' = NoCharge

BenefitNext ==
  \/ ScanPage
  \/ \E d \in 1 .. pos_left : Credit(d)
  \/ \E d \in 1 .. neg_left : Charge(d)
  \/ EndRound

BenefitSpec == BenefitInit /\ [][BenefitNext]_benefitVars

-----------------------------------------------------------------------------
(* Properties. *)

(* BUG_ON(!benefit.scanned) in encode_benefit never fires, although scaling *)
(* can take both the old count and the new delta to zero; for the same      *)
(* reason get_current_benefit never divides by zero.                        *)
EncodeIsSafe == Encodes(acct) => EncodeBenefit(acct).benefit_scanned > 0

(* Until a counter is first scaled, benefit and the running counters say    *)
(* together exactly what was charged and scanned since the last reset: the  *)
(* encodings that an overflow forces in mid-round lose nothing, and no      *)
(* charge wraps around u64.                                                 *)
ChargesAreConserved ==
  acct.benefit_base = 0 =>
    /\ acct.benefit_pos + acct.rshash_pos = total.pos
    /\ acct.benefit_neg + acct.rshash_neg = total.neg
    /\ acct.benefit_scanned + Fresh(acct) = total.pages

(* Once scaled, the counters never claim more than was charged or scanned.  *)
ScalingNeverOvercounts ==
  LET unit == 2 ^ acct.benefit_base
  IN /\ unit * acct.benefit_pos + acct.rshash_pos <= total.pos
     /\ unit * acct.benefit_neg + acct.rshash_neg <= total.neg
     /\ unit * acct.benefit_scanned + Fresh(acct) <= total.pages

(* The number of pages scanned since startup is pages_scanned_stored and    *)
(* uksm_pages_scanned together.  A page scanned is counted once, through    *)
(* the wrap of the second as well, no other call changes the number, and a  *)
(* wrap that finds the first one scaled, or scales it, misses no more than  *)
(* the shifts drop: less than two of its units.                             *)
PagesScanned ==
  2 ^ acct.pages_scanned_base * acct.pages_scanned_stored + acct.pages_scanned
MayMiss ==
  IF acct.pages_scanned < U64_MAX \/ acct'.pages_scanned_base = 0
    THEN {0}
    ELSE 0 .. 2 * 2 ^ acct'.pages_scanned_base - 1
PagesAreCountedOnce ==
  [][IF total'.pages > total.pages
       THEN PagesScanned + 1 - PagesScanned' \in MayMiss
       ELSE PagesScanned' = PagesScanned
    ]_benefitVars
=============================================================================
