------------------------------ MODULE Counters ------------------------------
(***************************************************************************)
(* The cost counters of dirtPages.c, as functions of one record that holds *)
(* them: rshash_pos and rshash_neg, the scaled struct benefit they are     *)
(* encoded into, and the pages-scanned counters.  There are no variables   *)
(* here: Benefit calls these functions in every order, Rshash in the order *)
(* of a scan round.                                                        *)
(***************************************************************************)
EXTENDS Integers

CONSTANTS
  U64_MAX,    \* largest u64
  BASE_MAX    \* shift counts stay at most this (63 in the code)

ASSUME U64Assumption == U64_MAX \in Nat \ {0}
(* The powers of two that shifts divide by. *)
ASSUME BaseAssumption ==
  /\ BASE_MAX \in Nat
  /\ 2 ^ 0 = 1
  /\ \A b \in 0 .. BASE_MAX : 2 ^ b \in Nat \ {0} /\ 2 ^ (b + 1) = 2 * 2 ^ b

U64 == 0 .. U64_MAX
Add(x, y) == (x + y) % (U64_MAX + 1)
Sub(x, y) == (x - y) % (U64_MAX + 1)
Shr(x, n) == x \div 2 ^ n
CanOverflow(x, delta) == U64_MAX - x < delta

Accounts ==
  [rshash_pos : U64, rshash_neg : U64,
   benefit_pos : U64, benefit_neg : U64, benefit_scanned : U64,
   benefit_base : 0 .. BASE_MAX,
   pages_scanned : U64, pages_scanned_last : U64,
   pages_scanned_stored : U64, pages_scanned_base : 0 .. BASE_MAX]

NoAccounts ==
  [rshash_pos |-> 0, rshash_neg |-> 0,
   benefit_pos |-> 0, benefit_neg |-> 0, benefit_scanned |-> 0,
   benefit_base |-> 0,
   pages_scanned |-> 0, pages_scanned_last |-> 0,
   pages_scanned_stored |-> 0, pages_scanned_base |-> 0]

-----------------------------------------------------------------------------
(* encode_benefit.  Pages counted since the last call: *)
Fresh(a) == Sub(a.pages_scanned, a.pages_scanned_last)

(* Mutant: a scaled encoding forgets to scale the deltas once more. *)
ScaledSumsOnly(a, h) ==
  LET n == a.benefit_base
  IN [a EXCEPT
        !.benefit_pos = Add(Shr(@, h), Shr(a.rshash_pos, n)),
        !.benefit_neg = Add(Shr(@, h), Shr(a.rshash_neg, n)),
        !.benefit_scanned = Add(Shr(@, h), Shr(Fresh(a), n)),
        !.benefit_base = n + h,
        !.rshash_pos = 0,
        !.rshash_neg = 0,
        !.pages_scanned_last = a.pages_scanned]

(* With shift h the deltas are scaled once more and so are the sums. *)
Scaled(a, h) ==
  LET n == a.benefit_base + h
  IN [a EXCEPT
        !.benefit_pos = Add(Shr(@, h), Shr(a.rshash_pos, n)),
        !.benefit_neg = Add(Shr(@, h), Shr(a.rshash_neg, n)),
        !.benefit_scanned = Add(Shr(@, h), Shr(Fresh(a), n)),
        !.benefit_base = n,
        !.rshash_pos = 0,
        !.rshash_neg = 0,
        !.pages_scanned_last = a.pages_scanned]

Overflows(a) ==
  \/ CanOverflow(a.benefit_pos, Shr(a.rshash_pos, a.benefit_base))
  \/ CanOverflow(a.benefit_neg, Shr(a.rshash_neg, a.benefit_base))
  \/ CanOverflow(a.benefit_scanned, Shr(Fresh(a), a.benefit_base))

(* The value returned, and the counters after the call. *)
Encodes(a) == Fresh(a) # 0
EncodeBenefit(a) ==
  IF ~Encodes(a) THEN a ELSE Scaled(a, IF Overflows(a) THEN 1 ELSE 0)

(* Mutant: base survives the reset. *)
ResetBenefitKeepsBase(a) ==
  [a EXCEPT !.benefit_pos = 0, !.benefit_neg = 0, !.benefit_scanned = 0]

ResetBenefit(a) ==
  [a EXCEPT !.benefit_pos = 0, !.benefit_neg = 0,
            !.benefit_base = 0, !.benefit_scanned = 0]

EncodeIf(cond, a) == IF cond THEN EncodeBenefit(a) ELSE a

IncRshashPos(a, delta) ==
  [EncodeIf(CanOverflow(a.rshash_pos, delta), a)
     EXCEPT !.rshash_pos = Add(@, delta)]

(* Mutant: no encoding before an overflow. *)
IncRshashNegUnguarded(a, delta) == [a EXCEPT !.rshash_neg = Add(@, delta)]

IncRshashNeg(a, delta) ==
  [EncodeIf(CanOverflow(a.rshash_neg, delta), a)
     EXCEPT !.rshash_neg = Add(@, delta)]

(* What a wrap of pages_scanned adds to the counter that outlives it. *)
(* Mutant: a full counter is scaled, but not what is added.               *)
StorePagesUnscaled(a) ==
  LET delta == Shr(a.pages_scanned, a.pages_scanned_base)
      full  == CanOverflow(a.pages_scanned_stored, delta)
  IN [a EXCEPT
        !.pages_scanned_stored = Add(IF full THEN Shr(@, 1) ELSE @, delta),
        !.pages_scanned_base = IF full THEN @ + 1 ELSE @]

StorePages(a) ==
  LET delta == Shr(a.pages_scanned, a.pages_scanned_base)
      full  == CanOverflow(a.pages_scanned_stored, delta)
  IN [a EXCEPT
        !.pages_scanned_stored =
           IF full THEN Add(Shr(@, 1), Shr(delta, 1)) ELSE Add(@, delta),
        !.pages_scanned_base = IF full THEN @ + 1 ELSE @]

IncPagesScanned(a) ==
  IF a.pages_scanned = U64_MAX
    THEN [StorePages(EncodeBenefit(a)) EXCEPT !.pages_scanned = 1,
                                              !.pages_scanned_last = 0]
    ELSE [a EXCEPT !.pages_scanned = @ + 1]
=============================================================================
