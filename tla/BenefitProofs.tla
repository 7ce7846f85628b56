---------------------------- MODULE BenefitProofs ----------------------------
(***************************************************************************)
(* Theorems about Benefit, for every width of the counters and every cost  *)
(* of a page or a rebuild.                                                 *)
(***************************************************************************)
EXTENDS Benefit, WellFoundedInduction, TLAPS

(* A charge that would wrap forces an encoding, which empties the counter   *)
(* only if some page is fresh.  When none is, the rest of what the page or  *)
(* the rebuild in progress may charge fits without.                         *)
ChargesFit ==
  /\ acct.pages_scanned_last <= acct.pages_scanned
  /\ acct.pages_scanned_last = acct.pages_scanned =>
       /\ acct.rshash_pos + pos_left <= U64_MAX
       /\ acct.rshash_neg + neg_left <= U64_MAX

BenefitInv == BenefitTypeOK /\ ChargesFit /\ ChargesAreConserved

(* What the counters of a stand for. *)
PosOf(a) == 2 ^ a.benefit_base * a.benefit_pos + a.rshash_pos
NegOf(a) == 2 ^ a.benefit_base * a.benefit_neg + a.rshash_neg
PagesOf(a) == 2 ^ a.benefit_base * a.benefit_scanned + Fresh(a)

-----------------------------------------------------------------------------
(* The operators. *)

(* A sum modulo the width is a u64. *)
LEMMA AddIsU64 ==
  ASSUME NEW x \in Nat, NEW y \in Nat
  PROVE  Add(x, y) \in U64 /\ Add(x, y) \in Nat /\ Add(x, y) <= x + y
BY U64Assumption DEF Add, U64

(* A sum that does not overflow is exact. *)
LEMMA AddIsExact ==
  ASSUME NEW x \in Nat, NEW y \in Nat, x + y <= U64_MAX
  PROVE  Add(x, y) = x + y
BY U64Assumption DEF Add

(* Powers of two up to the largest shift are positive. *)
LEMMA PowerPositive ==
  ASSUME NEW n \in 0 .. BASE_MAX + 1
  PROVE  2 ^ n \in Nat \ {0}
<1>1. CASE n <= BASE_MAX
  BY <1>1, BaseAssumption
<1>2. CASE n = BASE_MAX + 1
  BY <1>2, BaseAssumption
<1> QED
  BY <1>1, <1>2, BaseAssumption

(* Division by a positive number does not increase. *)
LEMMA DivBounds ==
  ASSUME NEW x \in Nat, NEW d \in Nat \ {0}
  PROVE  x \div d \in Nat /\ x \div d <= x /\ d * (x \div d) <= x
OBVIOUS

(* A shift of a u64 is a u64. *)
LEMMA ShrIsU64 ==
  ASSUME NEW x \in U64, NEW n \in 0 .. BASE_MAX + 1
  PROVE  Shr(x, n) \in U64
BY PowerPositive, DivBounds, U64Assumption DEF Shr, U64

(* A shift by nothing changes nothing. *)
LEMMA ShrZero ==
  ASSUME NEW x \in Nat
  PROVE  Shr(x, 0) = x
BY BaseAssumption DEF Shr

(* The fresh pages are the difference of two counters that do not wrap      *)
(* between them.                                                            *)
LEMMA FreshIsDifference ==
  ASSUME NEW a \in Accounts, a.pages_scanned_last <= a.pages_scanned
  PROVE  Fresh(a) = a.pages_scanned - a.pages_scanned_last /\ Fresh(a) \in U64
BY U64Assumption DEF Fresh, Sub, Accounts, U64

-----------------------------------------------------------------------------
(* encode_benefit. *)

(* Scaled, field by field. *)
LEMMA ScaledFields ==
  ASSUME NEW a \in Accounts, NEW h \in {0, 1}
  PROVE  LET n == a.benefit_base + h
             b == Scaled(a, h)
         IN /\ b.rshash_pos = 0 /\ b.rshash_neg = 0
            /\ b.benefit_pos = Add(Shr(a.benefit_pos, h), Shr(a.rshash_pos, n))
            /\ b.benefit_neg = Add(Shr(a.benefit_neg, h), Shr(a.rshash_neg, n))
            /\ b.benefit_scanned = Add(Shr(a.benefit_scanned, h), Shr(Fresh(a), n))
            /\ b.benefit_base = n
            /\ b.pages_scanned = a.pages_scanned
            /\ b.pages_scanned_last = a.pages_scanned
            /\ b.pages_scanned_stored = a.pages_scanned_stored
            /\ b.pages_scanned_base = a.pages_scanned_base
            /\ DOMAIN b = DOMAIN a
BY DEF Accounts, Scaled

(* The counters an encoding leaves are counters, unless the shift is at its *)
(* bound.                                                                   *)
LEMMA ScaledType ==
  ASSUME NEW a \in Accounts, a.pages_scanned_last <= a.pages_scanned,
         NEW h \in {0, 1}, a.benefit_base + h <= BASE_MAX
  PROVE  Scaled(a, h) \in Accounts
<1> DEFINE n == a.benefit_base + h
<1>1. n \in 0 .. BASE_MAX /\ n \in 0 .. BASE_MAX + 1 /\ h \in 0 .. BASE_MAX + 1
  BY BaseAssumption DEF Accounts
<1>2. Fresh(a) \in U64
  BY FreshIsDifference
<1>3. /\ a.benefit_pos \in U64 /\ a.benefit_neg \in U64 /\ a.benefit_scanned \in U64
      /\ a.rshash_pos \in U64 /\ a.rshash_neg \in U64
  BY DEF Accounts
<1>4. /\ Shr(a.benefit_pos, h) \in Nat /\ Shr(a.rshash_pos, n) \in Nat
      /\ Shr(a.benefit_neg, h) \in Nat /\ Shr(a.rshash_neg, n) \in Nat
      /\ Shr(a.benefit_scanned, h) \in Nat /\ Shr(Fresh(a), n) \in Nat
  BY <1>1, <1>2, <1>3, ShrIsU64, U64Assumption DEF U64
<1>5. /\ Add(Shr(a.benefit_pos, h), Shr(a.rshash_pos, n)) \in U64
      /\ Add(Shr(a.benefit_neg, h), Shr(a.rshash_neg, n)) \in U64
      /\ Add(Shr(a.benefit_scanned, h), Shr(Fresh(a), n)) \in U64
  BY <1>4, AddIsU64
<1>6. 0 \in U64 /\ a.pages_scanned \in U64
  BY U64Assumption DEF U64, Accounts
<1> QED
  BY <1>1, <1>5, <1>6 DEF Scaled, Accounts

(* An unscaled encoding of unscaled counters, when none of the sums can     *)
(* overflow, moves what was charged and scanned from the running counters   *)
(* to the sums.                                                             *)
LEMMA UnscaledIsExact ==
  ASSUME NEW a \in Accounts, a.pages_scanned_last <= a.pages_scanned,
         a.benefit_base = 0, ~Overflows(a)
  PROVE  LET b == Scaled(a, 0)
         IN /\ b.benefit_pos = a.benefit_pos + a.rshash_pos
            /\ b.benefit_neg = a.benefit_neg + a.rshash_neg
            /\ b.benefit_scanned = a.benefit_scanned + Fresh(a)
<1>1. Fresh(a) \in U64
  BY FreshIsDifference
<1>2. /\ a.benefit_pos \in U64 /\ a.benefit_neg \in U64 /\ a.benefit_scanned \in U64
      /\ a.rshash_pos \in U64 /\ a.rshash_neg \in U64
  BY DEF Accounts
<1>3. \A x \in U64 : Shr(x, 0) = x
  BY ShrZero, U64Assumption DEF U64
<1>4. /\ a.benefit_pos + a.rshash_pos <= U64_MAX
      /\ a.benefit_neg + a.rshash_neg <= U64_MAX
      /\ a.benefit_scanned + Fresh(a) <= U64_MAX
  BY <1>1, <1>2, <1>3, U64Assumption DEF Overflows, CanOverflow, U64
<1>5. /\ Add(a.benefit_pos, a.rshash_pos) = a.benefit_pos + a.rshash_pos
      /\ Add(a.benefit_neg, a.rshash_neg) = a.benefit_neg + a.rshash_neg
      /\ Add(a.benefit_scanned, Fresh(a)) = a.benefit_scanned + Fresh(a)
  BY <1>1, <1>2, <1>4, AddIsExact DEF U64
<1>6. a.benefit_base + 0 = 0
  BY DEF Accounts
<1> QED
  BY <1>1, <1>2, <1>3, <1>5, <1>6, ScaledFields

(* encode_benefit as the callers see it. *)
LEMMA EncodeFacts ==
  ASSUME NEW a \in Accounts, a.pages_scanned_last <= a.pages_scanned
  PROVE  LET b == EncodeBenefit(a)
         IN /\ b.pages_scanned = a.pages_scanned
            /\ b.pages_scanned_last = b.pages_scanned
            /\ b.pages_scanned_stored = a.pages_scanned_stored
            /\ b.pages_scanned_base = a.pages_scanned_base
            /\ a.benefit_base < BASE_MAX => b \in Accounts
            /\ IF Encodes(a) THEN b.rshash_pos = 0 /\ b.rshash_neg = 0 ELSE b = a
            /\ b.benefit_base = 0 =>
                 /\ a.benefit_base = 0
                 /\ b.benefit_pos + b.rshash_pos = a.benefit_pos + a.rshash_pos
                 /\ b.benefit_neg + b.rshash_neg = a.benefit_neg + a.rshash_neg
                 /\ b.benefit_scanned = a.benefit_scanned + Fresh(a)
<1>1. Fresh(a) = a.pages_scanned - a.pages_scanned_last
  BY FreshIsDifference
<1>2. CASE ~Encodes(a)
  <2>1. Fresh(a) = 0 /\ EncodeBenefit(a) = a
    BY <1>2 DEF EncodeBenefit, Encodes
  <2> QED
    BY <1>1, <1>2, <2>1 DEF Accounts, U64
<1>3. CASE Encodes(a) /\ Overflows(a)
  <2>1. EncodeBenefit(a) = Scaled(a, 1)
    BY <1>3 DEF EncodeBenefit
  <2>2. a.benefit_base < BASE_MAX => Scaled(a, 1) \in Accounts
    BY ScaledType, BaseAssumption DEF Accounts
  <2>3. a.benefit_base + 1 # 0
    BY DEF Accounts
  <2> QED
    BY <1>3, <2>1, <2>2, <2>3, ScaledFields
<1>4. CASE Encodes(a) /\ ~Overflows(a)
  <2>1. EncodeBenefit(a) = Scaled(a, 0)
    BY <1>4 DEF EncodeBenefit
  <2>2. Scaled(a, 0) \in Accounts
    BY ScaledType, BaseAssumption DEF Accounts
  <2>3. a.benefit_base + 0 = a.benefit_base
    BY DEF Accounts
  <2>4. a.benefit_base = 0 =>
          /\ Scaled(a, 0).benefit_pos = a.benefit_pos + a.rshash_pos
          /\ Scaled(a, 0).benefit_neg = a.benefit_neg + a.rshash_neg
          /\ Scaled(a, 0).benefit_scanned = a.benefit_scanned + Fresh(a)
    BY <1>4, UnscaledIsExact
  <2>5. a.benefit_pos + a.rshash_pos + 0 = a.benefit_pos + a.rshash_pos
        /\ a.benefit_neg + a.rshash_neg + 0 = a.benefit_neg + a.rshash_neg
        /\ (a.benefit_pos + a.rshash_pos) \in Nat /\ (a.benefit_neg + a.rshash_neg) \in Nat
    BY U64Assumption DEF Accounts, U64
  <2> QED
    BY <1>4, <2>1, <2>2, <2>3, <2>4, <2>5, ScaledFields
<1> QED
  BY <1>2, <1>3, <1>4

(* IncRshashPos: the charge is added without a wrap, whether or not it forces an *)
(* encoding, and everything else is kept or encoded.                        *)
LEMMA IncRshashPosFacts ==
  ASSUME NEW a \in Accounts, a.pages_scanned_last <= a.pages_scanned,
         a.benefit_base < BASE_MAX,
         NEW delta \in U64,
         a.pages_scanned_last = a.pages_scanned => a.rshash_pos + delta <= U64_MAX
  PROVE  LET b == IncRshashPos(a, delta)
         IN /\ b \in Accounts
            /\ b.pages_scanned_last <= b.pages_scanned
            /\ b.pages_scanned_last = b.pages_scanned =>
                 \/ b.rshash_pos = delta /\ b.rshash_neg = 0
                 \/ /\ a.pages_scanned_last = a.pages_scanned
                    /\ b.rshash_pos = a.rshash_pos + delta /\ b.rshash_neg = a.rshash_neg
            /\ b.benefit_base = 0 =>
                 /\ a.benefit_base = 0
                 /\ b.benefit_pos + b.rshash_pos = a.benefit_pos + a.rshash_pos + delta
                 /\ b.benefit_neg + b.rshash_neg = a.benefit_neg + a.rshash_neg
                 /\ b.benefit_scanned + Fresh(b) = a.benefit_scanned + Fresh(a)
<1> DEFINE e == EncodeIf(CanOverflow(a.rshash_pos, delta), a)
           b == IncRshashPos(a, delta)
<1>1. /\ e \in Accounts /\ e.pages_scanned_last <= e.pages_scanned
      /\ e.rshash_pos + delta <= U64_MAX
      /\ e.pages_scanned_last = e.pages_scanned =>
           \/ e.rshash_pos = 0 /\ e.rshash_neg = 0
           \/ /\ a.pages_scanned_last = a.pages_scanned
              /\ e.rshash_pos = a.rshash_pos /\ e.rshash_neg = a.rshash_neg
      /\ e.benefit_base = 0 =>
           /\ a.benefit_base = 0
           /\ e.benefit_pos + e.rshash_pos = a.benefit_pos + a.rshash_pos
           /\ e.benefit_neg + e.rshash_neg = a.benefit_neg + a.rshash_neg
           /\ e.benefit_scanned + Fresh(e) = a.benefit_scanned + Fresh(a)
  <2>1. CASE ~CanOverflow(a.rshash_pos, delta)
    <3>1. e = a
      BY <2>1 DEF EncodeIf
    <3>2. a.rshash_pos + delta <= U64_MAX
      BY <2>1, U64Assumption DEF CanOverflow, Accounts, U64
    <3> QED
      BY <3>1, <3>2
  <2>2. CASE CanOverflow(a.rshash_pos, delta)
    <3>1. e = EncodeBenefit(a)
      BY <2>2 DEF EncodeIf
    <3>2. a.pages_scanned_last # a.pages_scanned
      BY <2>2, U64Assumption DEF CanOverflow, Accounts, U64
    <3>3. Encodes(a)
      BY <3>2, FreshIsDifference DEF Encodes, Accounts, U64
    <3>4. e \in Accounts /\ e.pages_scanned_last = e.pages_scanned
          /\ e.rshash_pos = 0 /\ e.rshash_neg = 0
      BY <3>1, <3>3, EncodeFacts
    <3>5. Fresh(e) = 0
      BY <3>4, FreshIsDifference DEF Accounts, U64
    <3>6. e.pages_scanned_last <= e.pages_scanned /\ 0 + delta <= U64_MAX
          /\ e.benefit_scanned + 0 = e.benefit_scanned
      BY <3>4, U64Assumption DEF Accounts, U64
    <3>7. e.benefit_base = 0 =>
           /\ a.benefit_base = 0
           /\ e.benefit_pos + e.rshash_pos = a.benefit_pos + a.rshash_pos
           /\ e.benefit_neg + e.rshash_neg = a.benefit_neg + a.rshash_neg
           /\ e.benefit_scanned = a.benefit_scanned + Fresh(a)
      BY <3>1, EncodeFacts
    <3> QED
      BY <3>4, <3>5, <3>6, <3>7
  <2> QED
    BY <2>1, <2>2
<1>2. b = [e EXCEPT !.rshash_pos = Add(e.rshash_pos, delta)]
  BY DEF IncRshashPos
<1>3. Add(e.rshash_pos, delta) = e.rshash_pos + delta /\ e.rshash_pos + delta \in U64
  BY <1>1, AddIsExact, U64Assumption DEF Accounts, U64
<1>4. b = [e EXCEPT !.rshash_pos = e.rshash_pos + delta]
  BY <1>2, <1>3
<1> HIDE DEF e, b
<1>5. /\ b \in Accounts
      /\ b.rshash_pos = e.rshash_pos + delta /\ b.rshash_neg = e.rshash_neg
      /\ b.benefit_pos = e.benefit_pos /\ b.benefit_neg = e.benefit_neg
      /\ b.benefit_scanned = e.benefit_scanned /\ b.benefit_base = e.benefit_base
      /\ b.pages_scanned = e.pages_scanned
      /\ b.pages_scanned_last = e.pages_scanned_last
  BY <1>1, <1>3, <1>4 DEF Accounts
<1>6. Fresh(b) = Fresh(e)
  BY <1>5 DEF Fresh
<1>7. /\ e.rshash_pos \in Nat /\ e.benefit_pos \in Nat
      /\ a.rshash_pos \in Nat /\ a.benefit_pos \in Nat
      /\ delta \in Nat
  BY <1>1, U64Assumption DEF Accounts, U64
<1>8. b.pages_scanned_last = b.pages_scanned =>
                 \/ b.rshash_pos = delta /\ b.rshash_neg = 0
                 \/ /\ a.pages_scanned_last = a.pages_scanned
                    /\ b.rshash_pos = a.rshash_pos + delta /\ b.rshash_neg = a.rshash_neg
  BY <1>1, <1>5, <1>7
<1>9. b.benefit_base = 0 =>
                 /\ a.benefit_base = 0
                 /\ b.benefit_pos + b.rshash_pos = a.benefit_pos + a.rshash_pos + delta
                 /\ b.benefit_neg + b.rshash_neg = a.benefit_neg + a.rshash_neg
                 /\ b.benefit_scanned + Fresh(b) = a.benefit_scanned + Fresh(a)
  BY <1>1, <1>5, <1>6, <1>7
<1> QED
  BY <1>1, <1>5, <1>8, <1>9 DEF b

(* IncRshashNeg: the charge is added without a wrap, whether or not it forces an *)
(* encoding, and everything else is kept or encoded.                        *)
LEMMA IncRshashNegFacts ==
  ASSUME NEW a \in Accounts, a.pages_scanned_last <= a.pages_scanned,
         a.benefit_base < BASE_MAX,
         NEW delta \in U64,
         a.pages_scanned_last = a.pages_scanned => a.rshash_neg + delta <= U64_MAX
  PROVE  LET b == IncRshashNeg(a, delta)
         IN /\ b \in Accounts
            /\ b.pages_scanned_last <= b.pages_scanned
            /\ b.pages_scanned_last = b.pages_scanned =>
                 \/ b.rshash_neg = delta /\ b.rshash_pos = 0
                 \/ /\ a.pages_scanned_last = a.pages_scanned
                    /\ b.rshash_neg = a.rshash_neg + delta /\ b.rshash_pos = a.rshash_pos
            /\ b.benefit_base = 0 =>
                 /\ a.benefit_base = 0
                 /\ b.benefit_neg + b.rshash_neg = a.benefit_neg + a.rshash_neg + delta
                 /\ b.benefit_pos + b.rshash_pos = a.benefit_pos + a.rshash_pos
                 /\ b.benefit_scanned + Fresh(b) = a.benefit_scanned + Fresh(a)
<1> DEFINE e == EncodeIf(CanOverflow(a.rshash_neg, delta), a)
           b == IncRshashNeg(a, delta)
<1>1. /\ e \in Accounts /\ e.pages_scanned_last <= e.pages_scanned
      /\ e.rshash_neg + delta <= U64_MAX
      /\ e.pages_scanned_last = e.pages_scanned =>
           \/ e.rshash_neg = 0 /\ e.rshash_pos = 0
           \/ /\ a.pages_scanned_last = a.pages_scanned
              /\ e.rshash_neg = a.rshash_neg /\ e.rshash_pos = a.rshash_pos
      /\ e.benefit_base = 0 =>
           /\ a.benefit_base = 0
           /\ e.benefit_pos + e.rshash_pos = a.benefit_pos + a.rshash_pos
           /\ e.benefit_neg + e.rshash_neg = a.benefit_neg + a.rshash_neg
           /\ e.benefit_scanned + Fresh(e) = a.benefit_scanned + Fresh(a)
  <2>1. CASE ~CanOverflow(a.rshash_neg, delta)
    <3>1. e = a
      BY <2>1 DEF EncodeIf
    <3>2. a.rshash_neg + delta <= U64_MAX
      BY <2>1, U64Assumption DEF CanOverflow, Accounts, U64
    <3> QED
      BY <3>1, <3>2
  <2>2. CASE CanOverflow(a.rshash_neg, delta)
    <3>1. e = EncodeBenefit(a)
      BY <2>2 DEF EncodeIf
    <3>2. a.pages_scanned_last # a.pages_scanned
      BY <2>2, U64Assumption DEF CanOverflow, Accounts, U64
    <3>3. Encodes(a)
      BY <3>2, FreshIsDifference DEF Encodes, Accounts, U64
    <3>4. e \in Accounts /\ e.pages_scanned_last = e.pages_scanned
          /\ e.rshash_pos = 0 /\ e.rshash_neg = 0
      BY <3>1, <3>3, EncodeFacts
    <3>5. Fresh(e) = 0
      BY <3>4, FreshIsDifference DEF Accounts, U64
    <3>6. e.pages_scanned_last <= e.pages_scanned /\ 0 + delta <= U64_MAX
          /\ e.benefit_scanned + 0 = e.benefit_scanned
      BY <3>4, U64Assumption DEF Accounts, U64
    <3>7. e.benefit_base = 0 =>
           /\ a.benefit_base = 0
           /\ e.benefit_pos + e.rshash_pos = a.benefit_pos + a.rshash_pos
           /\ e.benefit_neg + e.rshash_neg = a.benefit_neg + a.rshash_neg
           /\ e.benefit_scanned = a.benefit_scanned + Fresh(a)
      BY <3>1, EncodeFacts
    <3> QED
      BY <3>4, <3>5, <3>6, <3>7
  <2> QED
    BY <2>1, <2>2
<1>2. b = [e EXCEPT !.rshash_neg = Add(e.rshash_neg, delta)]
  BY DEF IncRshashNeg
<1>3. Add(e.rshash_neg, delta) = e.rshash_neg + delta /\ e.rshash_neg + delta \in U64
  BY <1>1, AddIsExact, U64Assumption DEF Accounts, U64
<1>4. b = [e EXCEPT !.rshash_neg = e.rshash_neg + delta]
  BY <1>2, <1>3
<1> HIDE DEF e, b
<1>5. /\ b \in Accounts
      /\ b.rshash_neg = e.rshash_neg + delta /\ b.rshash_pos = e.rshash_pos
      /\ b.benefit_pos = e.benefit_pos /\ b.benefit_neg = e.benefit_neg
      /\ b.benefit_scanned = e.benefit_scanned /\ b.benefit_base = e.benefit_base
      /\ b.pages_scanned = e.pages_scanned
      /\ b.pages_scanned_last = e.pages_scanned_last
  BY <1>1, <1>3, <1>4 DEF Accounts
<1>6. Fresh(b) = Fresh(e)
  BY <1>5 DEF Fresh
<1>7. /\ e.rshash_neg \in Nat /\ e.benefit_neg \in Nat
      /\ a.rshash_neg \in Nat /\ a.benefit_neg \in Nat
      /\ delta \in Nat
  BY <1>1, U64Assumption DEF Accounts, U64
<1>8. b.pages_scanned_last = b.pages_scanned =>
                 \/ b.rshash_neg = delta /\ b.rshash_pos = 0
                 \/ /\ a.pages_scanned_last = a.pages_scanned
                    /\ b.rshash_neg = a.rshash_neg + delta /\ b.rshash_pos = a.rshash_pos
  BY <1>1, <1>5, <1>7
<1>9. b.benefit_base = 0 =>
                 /\ a.benefit_base = 0
                 /\ b.benefit_neg + b.rshash_neg = a.benefit_neg + a.rshash_neg + delta
                 /\ b.benefit_pos + b.rshash_pos = a.benefit_pos + a.rshash_pos
                 /\ b.benefit_scanned + Fresh(b) = a.benefit_scanned + Fresh(a)
  BY <1>1, <1>5, <1>6, <1>7
<1> QED
  BY <1>1, <1>5, <1>8, <1>9 DEF b

(* The encoding and the reset at the end of a round leave nothing behind,   *)
(* the shift included, even one past its bound.                             *)
LEMMA ResetFacts ==
  ASSUME NEW a \in Accounts, Encodes(a)
  PROVE  LET b == ResetBenefit(EncodeBenefit(a))
         IN /\ b \in Accounts
            /\ b.pages_scanned_last = b.pages_scanned
            /\ b.rshash_pos = 0 /\ b.rshash_neg = 0
            /\ b.benefit_pos = 0 /\ b.benefit_neg = 0 /\ b.benefit_scanned = 0
            /\ b.benefit_base = 0
<1>1. PICK h \in {0, 1} : EncodeBenefit(a) = Scaled(a, h)
  BY DEF EncodeBenefit
<1>2. 0 \in U64 /\ 0 \in 0 .. BASE_MAX
  BY U64Assumption, BaseAssumption DEF U64
<1>3. ResetBenefit(Scaled(a, h)) =
        [a EXCEPT !.benefit_pos = 0, !.benefit_neg = 0, !.benefit_scanned = 0,
                  !.benefit_base = 0, !.rshash_pos = 0, !.rshash_neg = 0,
                  !.pages_scanned_last = a.pages_scanned]
  BY DEF ResetBenefit, Scaled, Accounts
<1>4. a.pages_scanned \in U64
  BY DEF Accounts
<1> DEFINE b == [a EXCEPT !.benefit_pos = 0, !.benefit_neg = 0, !.benefit_scanned = 0,
                          !.benefit_base = 0, !.rshash_pos = 0, !.rshash_neg = 0,
                          !.pages_scanned_last = a.pages_scanned]
<1>5. b \in Accounts
  BY <1>2, <1>4 DEF Accounts
<1>6. /\ b.pages_scanned_last = b.pages_scanned
      /\ b.rshash_pos = 0 /\ b.rshash_neg = 0
      /\ b.benefit_pos = 0 /\ b.benefit_neg = 0 /\ b.benefit_scanned = 0
      /\ b.benefit_base = 0
  BY DEF Accounts
<1>7. ResetBenefit(EncodeBenefit(a)) = b
  BY <1>1, <1>3
<1> HIDE DEF b
<1> QED
  BY <1>5, <1>6, <1>7

-----------------------------------------------------------------------------
(* inc_uksm_pages_scanned. *)

(* What a wrap stores touches pages_scanned_stored and its shift only. *)
LEMMA StorePagesFacts ==
  ASSUME NEW a \in Accounts, a.pages_scanned_base < BASE_MAX
  PROVE  LET b == StorePages(a)
         IN /\ b \in Accounts
            /\ b.rshash_pos = a.rshash_pos /\ b.rshash_neg = a.rshash_neg
            /\ b.benefit_pos = a.benefit_pos /\ b.benefit_neg = a.benefit_neg
            /\ b.benefit_scanned = a.benefit_scanned /\ b.benefit_base = a.benefit_base
<1> DEFINE delta == Shr(a.pages_scanned, a.pages_scanned_base)
           full == CanOverflow(a.pages_scanned_stored, delta)
           stored == IF full THEN Add(Shr(a.pages_scanned_stored, 1), Shr(delta, 1))
                     ELSE Add(a.pages_scanned_stored, delta)
           base == IF full THEN a.pages_scanned_base + 1 ELSE a.pages_scanned_base
<1>1. /\ a.pages_scanned \in U64 /\ a.pages_scanned_stored \in U64
      /\ a.pages_scanned_base \in 0 .. BASE_MAX + 1 /\ 1 \in 0 .. BASE_MAX + 1
  BY BaseAssumption DEF Accounts
<1>2. delta \in U64
  BY <1>1, ShrIsU64
<1>3. Shr(a.pages_scanned_stored, 1) \in U64 /\ Shr(delta, 1) \in U64
  BY <1>1, <1>2, ShrIsU64
<1>4. stored \in U64
  <2> HIDE DEF delta, full
  <2>1. U64 \subseteq Nat
    BY U64Assumption DEF U64
  <2>2. /\ Add(Shr(a.pages_scanned_stored, 1), Shr(delta, 1)) \in U64
        /\ Add(a.pages_scanned_stored, delta) \in U64
    BY <1>1, <1>2, <1>3, <2>1, AddIsU64
  <2> QED
    BY <2>2
<1>5. base \in 0 .. BASE_MAX
  BY BaseAssumption DEF Accounts
<1>6. StorePages(a) =
        [a EXCEPT !.pages_scanned_stored = stored, !.pages_scanned_base = base]
  <2>1. CASE full
    BY <2>1 DEF StorePages
  <2>2. CASE ~full
    BY <2>2 DEF StorePages
  <2> QED
    BY <2>1, <2>2
<1> HIDE DEF stored, base, full, delta
<1> QED
  BY <1>4, <1>5, <1>6 DEF Accounts

(* A page is counted once, whether or not the counter wraps on it: it is    *)
(* fresh afterwards, and nothing that was charged is lost.                  *)
LEMMA IncPagesScannedFacts ==
  ASSUME NEW a \in Accounts, a.pages_scanned_last <= a.pages_scanned,
         a.benefit_base < BASE_MAX, a.pages_scanned_base < BASE_MAX
  PROVE  LET b == IncPagesScanned(a)
         IN /\ b \in Accounts
            /\ b.pages_scanned_last < b.pages_scanned
            /\ b.benefit_base = 0 =>
                 /\ a.benefit_base = 0
                 /\ b.benefit_pos + b.rshash_pos = a.benefit_pos + a.rshash_pos
                 /\ b.benefit_neg + b.rshash_neg = a.benefit_neg + a.rshash_neg
                 /\ b.benefit_scanned + Fresh(b) = a.benefit_scanned + Fresh(a) + 1
<1> DEFINE b == IncPagesScanned(a)
<1>1. CASE a.pages_scanned # U64_MAX
  <2>1. b = [a EXCEPT !.pages_scanned = a.pages_scanned + 1]
    BY <1>1 DEF IncPagesScanned
  <2> HIDE DEF b
  <2>2. a.pages_scanned + 1 \in U64
    BY <1>1, U64Assumption DEF Accounts, U64
  <2>3. /\ b \in Accounts
        /\ b.pages_scanned = a.pages_scanned + 1
        /\ b.pages_scanned_last = a.pages_scanned_last
        /\ b.rshash_pos = a.rshash_pos /\ b.rshash_neg = a.rshash_neg
        /\ b.benefit_pos = a.benefit_pos /\ b.benefit_neg = a.benefit_neg
        /\ b.benefit_scanned = a.benefit_scanned /\ b.benefit_base = a.benefit_base
    BY <2>1, <2>2 DEF Accounts
  <2>4. b.pages_scanned_last < b.pages_scanned
    BY <2>3, U64Assumption DEF Accounts, U64
  <2>5. Fresh(b) = b.pages_scanned - b.pages_scanned_last
        /\ Fresh(a) = a.pages_scanned - a.pages_scanned_last
    BY <2>3, <2>4, FreshIsDifference, U64Assumption DEF Accounts, U64
  <2>6. b.benefit_scanned + Fresh(b) = a.benefit_scanned + Fresh(a) + 1
    BY <2>3, <2>5, U64Assumption DEF Accounts, U64
  <2> QED
    BY <2>3, <2>4, <2>6 DEF b
<1>2. CASE a.pages_scanned = U64_MAX
  <2> DEFINE e == EncodeBenefit(a)
             s == StorePages(e)
  <2>1. b = [s EXCEPT !.pages_scanned = 1, !.pages_scanned_last = 0]
    BY <1>2 DEF IncPagesScanned
  <2>2. /\ e \in Accounts /\ e.pages_scanned_base < BASE_MAX
        /\ e.benefit_base = 0 =>
             /\ a.benefit_base = 0
             /\ e.benefit_pos + e.rshash_pos = a.benefit_pos + a.rshash_pos
             /\ e.benefit_neg + e.rshash_neg = a.benefit_neg + a.rshash_neg
             /\ e.benefit_scanned = a.benefit_scanned + Fresh(a)
    BY EncodeFacts
  <2> HIDE DEF b, e
  <2>3. /\ s \in Accounts
        /\ s.rshash_pos = e.rshash_pos /\ s.rshash_neg = e.rshash_neg
        /\ s.benefit_pos = e.benefit_pos /\ s.benefit_neg = e.benefit_neg
        /\ s.benefit_scanned = e.benefit_scanned /\ s.benefit_base = e.benefit_base
    BY <2>2, StorePagesFacts
  <2> HIDE DEF s
  <2>4. 0 \in U64 /\ 1 \in U64
    BY U64Assumption DEF U64
  <2>5. /\ b \in Accounts
        /\ b.pages_scanned = 1 /\ b.pages_scanned_last = 0
        /\ b.rshash_pos = s.rshash_pos /\ b.rshash_neg = s.rshash_neg
        /\ b.benefit_pos = s.benefit_pos /\ b.benefit_neg = s.benefit_neg
        /\ b.benefit_scanned = s.benefit_scanned /\ b.benefit_base = s.benefit_base
    BY <2>1, <2>3, <2>4 DEF Accounts
  <2>6. Fresh(b) = 1
    BY <2>5, FreshIsDifference
  <2> QED
    BY <2>2, <2>3, <2>5, <2>6 DEF b
<1> QED
  BY <1>1, <1>2

-----------------------------------------------------------------------------
(* The invariant. *)

LEMMA BenefitInvInit == BenefitInit => BenefitInv
<1> SUFFICES ASSUME BenefitInit PROVE BenefitInv
  OBVIOUS
<1>1. BenefitTypeOK
  BY U64Assumption, BaseAssumption, CostAssumption
     DEF BenefitInit, NoAccounts, NoCharge, BenefitTypeOK, Accounts, U64
<1>2. acct \in Accounts /\ acct.pages_scanned_last <= acct.pages_scanned
      /\ acct.pages_scanned = 0 /\ acct.pages_scanned_last = 0
  BY <1>1 DEF BenefitTypeOK, BenefitInit, NoAccounts
<1>3. Fresh(acct) = 0
  BY <1>2, FreshIsDifference
<1> QED
  BY <1>1, <1>3, U64Assumption
     DEF BenefitInit, NoAccounts, NoCharge, BenefitInv, ChargesFit, ChargesAreConserved

LEMMA BenefitInvStep == BenefitInv /\ [BenefitNext]_benefitVars => BenefitInv'
<1> SUFFICES ASSUME BenefitInv, [BenefitNext]_benefitVars PROVE BenefitInv'
  OBVIOUS
<1> USE DEF BenefitInv
<1>0. /\ acct \in Accounts /\ acct.pages_scanned_last <= acct.pages_scanned
      /\ pos_left \in U64 /\ neg_left \in U64
      /\ total \in [pos : Nat, neg : Nat, pages : Nat]
  BY CostAssumption, U64Assumption DEF BenefitTypeOK, ChargesFit, U64
<1>1. CASE ScanPage
  <2>1. /\ acct' \in Accounts /\ acct'.pages_scanned_last < acct'.pages_scanned
        /\ acct'.benefit_base = 0 =>
             /\ acct.benefit_base = 0
             /\ acct'.benefit_pos + acct'.rshash_pos = acct.benefit_pos + acct.rshash_pos
             /\ acct'.benefit_neg + acct'.rshash_neg = acct.benefit_neg + acct.rshash_neg
             /\ acct'.benefit_scanned + Fresh(acct') = acct.benefit_scanned + Fresh(acct) + 1
    BY <1>0, <1>1, IncPagesScannedFacts DEF ScanPage, ShiftsLeft
  <2>2. BenefitTypeOK'
    BY <1>0, <1>1, <2>1, CostAssumption DEF ScanPage, BenefitTypeOK
  <2>3. ChargesFit'
    BY <2>1, U64Assumption DEF ChargesFit, Accounts, U64
  <2>4. ChargesAreConserved'
    BY <1>0, <1>1, <2>1 DEF ScanPage, ChargesAreConserved
  <2> QED
    BY <2>2, <2>3, <2>4
<1>2. ASSUME NEW d \in 1 .. pos_left, Credit(d) PROVE BenefitInv'
  <2>0. /\ d \in U64 /\ d \in Nat /\ pos_left - d \in 0 .. POS_PER_PAGE
        /\ acct.pages_scanned_last = acct.pages_scanned => acct.rshash_pos + d <= U64_MAX
    BY <1>0, U64Assumption, CostAssumption
       DEF BenefitTypeOK, ChargesFit, Accounts, U64
  <2>1. /\ acct' \in Accounts /\ acct'.pages_scanned_last <= acct'.pages_scanned
        /\ acct'.pages_scanned_last = acct'.pages_scanned =>
             \/ acct'.rshash_pos = d /\ acct'.rshash_neg = 0
             \/ /\ acct.pages_scanned_last = acct.pages_scanned
                /\ acct'.rshash_pos = acct.rshash_pos + d
                /\ acct'.rshash_neg = acct.rshash_neg
        /\ acct'.benefit_base = 0 =>
             /\ acct.benefit_base = 0
             /\ acct'.benefit_pos + acct'.rshash_pos = acct.benefit_pos + acct.rshash_pos + d
             /\ acct'.benefit_neg + acct'.rshash_neg = acct.benefit_neg + acct.rshash_neg
             /\ acct'.benefit_scanned + Fresh(acct') = acct.benefit_scanned + Fresh(acct)
    BY <1>0, <1>2, <2>0, IncRshashPosFacts DEF Credit
  <2>2. BenefitTypeOK'
    BY <1>0, <1>2, <2>0, <2>1 DEF Credit, BenefitTypeOK
  <2>3. ChargesFit'
    BY <1>0, <1>2, <2>0, <2>1, U64Assumption DEF Credit, ChargesFit, Accounts, U64
  <2>4. ChargesAreConserved'
    BY <1>0, <1>2, <2>1 DEF Credit, ChargesAreConserved
  <2> QED
    BY <2>2, <2>3, <2>4
<1>3. ASSUME NEW d \in 1 .. neg_left, Charge(d) PROVE BenefitInv'
  <2>0. /\ d \in U64 /\ d \in Nat /\ neg_left - d \in 0 .. U64_MAX
        /\ acct.pages_scanned_last = acct.pages_scanned => acct.rshash_neg + d <= U64_MAX
    BY <1>0, U64Assumption DEF ChargesFit, Accounts, U64
  <2>1. /\ acct' \in Accounts /\ acct'.pages_scanned_last <= acct'.pages_scanned
        /\ acct'.pages_scanned_last = acct'.pages_scanned =>
             \/ acct'.rshash_neg = d /\ acct'.rshash_pos = 0
             \/ /\ acct.pages_scanned_last = acct.pages_scanned
                /\ acct'.rshash_neg = acct.rshash_neg + d
                /\ acct'.rshash_pos = acct.rshash_pos
        /\ acct'.benefit_base = 0 =>
             /\ acct.benefit_base = 0
             /\ acct'.benefit_neg + acct'.rshash_neg = acct.benefit_neg + acct.rshash_neg + d
             /\ acct'.benefit_pos + acct'.rshash_pos = acct.benefit_pos + acct.rshash_pos
             /\ acct'.benefit_scanned + Fresh(acct') = acct.benefit_scanned + Fresh(acct)
    BY <1>0, <1>3, <2>0, IncRshashNegFacts DEF Charge
  <2>2. BenefitTypeOK'
    BY <1>0, <1>3, <2>0, <2>1 DEF Charge, BenefitTypeOK
  <2>3. ChargesFit'
    BY <1>0, <1>3, <2>0, <2>1, U64Assumption DEF Charge, ChargesFit, Accounts, U64
  <2>4. ChargesAreConserved'
    BY <1>0, <1>3, <2>1 DEF Charge, ChargesAreConserved
  <2> QED
    BY <2>2, <2>3, <2>4
<1>4. CASE EndRound
  <2>1. /\ acct' \in Accounts
        /\ acct'.pages_scanned_last = acct'.pages_scanned
        /\ acct'.rshash_pos = 0 /\ acct'.rshash_neg = 0
        /\ acct'.benefit_pos = 0 /\ acct'.benefit_neg = 0 /\ acct'.benefit_scanned = 0
    BY <1>0, <1>4, ResetFacts DEF EndRound
  <2>2. /\ pos_left' = 0 /\ neg_left' \in U64
        /\ total' = [pos |-> 0, neg |-> 0, pages |-> 0]
    BY <1>4, CostAssumption, U64Assumption DEF EndRound, NoCharge, U64
  <2>3. BenefitTypeOK'
    BY <2>1, <2>2, CostAssumption DEF BenefitTypeOK, U64
  <2>4. ChargesFit'
    <3>1. acct'.pages_scanned \in Nat
      BY <2>1, U64Assumption DEF Accounts, U64
    <3>2. acct'.pages_scanned_last <= acct'.pages_scanned
      BY <2>1, <3>1
    <3>3. neg_left' \in Nat /\ neg_left' <= U64_MAX
      BY <2>2, U64Assumption DEF U64
    <3>4. acct'.rshash_pos + pos_left' = 0 /\ 0 <= U64_MAX
      BY <2>1, <2>2, U64Assumption
    <3>5. acct'.rshash_neg + neg_left' = neg_left'
      <4>1. \A x \in Nat : 0 + x = x
        OBVIOUS
      <4> QED
        BY <2>1, <3>3, <4>1
    <3> QED
      BY <3>2, <3>3, <3>4, <3>5 DEF ChargesFit
  <2>5. Fresh(acct)' = 0
    <3>1. acct'.pages_scanned_last <= acct'.pages_scanned
          /\ acct'.pages_scanned - acct'.pages_scanned_last = 0
      BY <2>1 DEF Accounts, U64
    <3> QED
      BY <2>1, <3>1, FreshIsDifference
  <2>6. ChargesAreConserved'
    BY <2>1, <2>2, <2>5 DEF ChargesAreConserved
  <2> QED
    BY <2>3, <2>4, <2>6
<1>5. CASE UNCHANGED benefitVars
  BY <1>5 DEF benefitVars, BenefitTypeOK, ChargesFit, ChargesAreConserved, Fresh, Sub
<1> QED
  BY <1>1, <1>2, <1>3, <1>4, <1>5 DEF BenefitNext

(* Every counter keeps its width, and the shifts stay below their bound,    *)
(* whatever the scanner calls and in whatever order: encode_benefit,        *)
(* inc_rshash_pos, inc_rshash_neg, inc_uksm_pages_scanned, reset_benefit.   *)
THEOREM BenefitTypeCorrect == BenefitSpec => []BenefitTypeOK
<1>1. BenefitInv => BenefitTypeOK
  BY DEF BenefitInv
<1> QED
  BY <1>1, BenefitInvInit, BenefitInvStep, PTL DEF BenefitSpec

(* Nothing that inc_rshash_pos, inc_rshash_neg or inc_uksm_pages_scanned    *)
(* were given is lost or counted twice until the counters are first scaled, *)
(* and no charge wraps: the calls of one page, or of one rebuild, never     *)
(* need two encodings without a fresh page between them.                    *)
THEOREM ChargesConserved == BenefitSpec => []ChargesAreConserved
<1>1. BenefitInv => ChargesAreConserved
  BY DEF BenefitInv
<1> QED
  BY <1>1, BenefitInvInit, BenefitInvStep, PTL DEF BenefitSpec

-----------------------------------------------------------------------------
(* Scaling. *)

(* What one field of benefit and its running counter stand for, at unit u,  *)
(* does not grow when both are shifted: the unit doubles with h = 1.        *)
LEMMA ShiftNeverGrows ==
  ASSUME NEW x \in Nat, NEW r \in Nat, NEW n \in 0 .. BASE_MAX, NEW h \in {0, 1}
  PROVE  2 ^ (n + h) * Add(Shr(x, h), Shr(r, n + h)) <= 2 ^ n * x + r
<1> DEFINE u == 2 ^ n
           v == 2 ^ (n + h)
           y == Shr(x, h)
           d == Shr(r, n + h)
<1>1. n + h \in 0 .. BASE_MAX + 1 /\ n \in 0 .. BASE_MAX + 1
  BY BaseAssumption
<1>2. u \in Nat \ {0} /\ v \in Nat \ {0}
  BY <1>1, PowerPositive
<1>3. d \in Nat /\ v * d <= r
  BY <1>2, DivBounds DEF Shr
<1>4. y \in Nat /\ v * y <= u * x
  <2>1. CASE h = 0
    <3>1. y = x
      BY <2>1, ShrZero
    <3>2. v = u
      BY <2>1
    <3> HIDE DEF u, v, y
    <3> QED
      BY <1>2, <3>1, <3>2
  <2>2. CASE h = 1
    <3>1. v = 2 * u
      BY <2>2, BaseAssumption
    <3>2. 2 ^ 1 = 2
      <4>1. 0 \in 0 .. BASE_MAX /\ 0 + 1 = 1
        BY BaseAssumption
      <4>2. 2 ^ (0 + 1) = 2 * 2 ^ 0
        BY <4>1, BaseAssumption
      <4> QED
        BY <4>1, <4>2, BaseAssumption
    <3>3. y = x \div 2
      BY <2>2, <3>2 DEF Shr
    <3> HIDE DEF u, v, y
    <3>4. y \in Nat /\ 2 * y <= x
      BY <3>3
    <3>5. u * (2 * y) <= u * x
      BY <1>2, <3>4
    <3> QED
      BY <1>2, <3>1, <3>4, <3>5
  <2> QED
    BY <2>1, <2>2
<1>5. Add(y, d) \in Nat /\ Add(y, d) <= y + d
  BY <1>3, <1>4, AddIsU64, U64Assumption DEF U64
<1> DEFINE s == Add(y, d)
<1> HIDE DEF u, v, y, d, s
<1>6. v * s <= v * (y + d)
  BY <1>2, <1>3, <1>4, <1>5 DEF s
<1>7. v * (y + d) = v * y + v * d
  BY <1>2, <1>3, <1>4
<1>8. v * s <= u * x + r
  BY <1>2, <1>3, <1>4, <1>5, <1>6, <1>7 DEF s
<1> QED
  BY <1>8 DEF u, v, y, d, s

(* encode_benefit never makes the counters stand for more. *)
LEMMA EncodeNeverGrows ==
  ASSUME NEW a \in Accounts, a.pages_scanned_last <= a.pages_scanned
  PROVE  LET b == EncodeBenefit(a)
         IN PosOf(b) <= PosOf(a) /\ NegOf(b) <= NegOf(a) /\ PagesOf(b) <= PagesOf(a)
<1>1. /\ a.benefit_pos \in Nat /\ a.rshash_pos \in Nat
      /\ a.benefit_neg \in Nat /\ a.rshash_neg \in Nat
      /\ a.benefit_scanned \in Nat /\ Fresh(a) \in Nat
      /\ a.benefit_base \in 0 .. BASE_MAX
  BY FreshIsDifference, U64Assumption DEF Accounts, U64
<1>2. CASE ~Encodes(a)
  <2>1. EncodeBenefit(a) = a
    BY <1>2 DEF EncodeBenefit
  <2>2. 2 ^ a.benefit_base \in Nat
    BY <1>1, BaseAssumption
  <2>3. PosOf(a) \in Nat /\ NegOf(a) \in Nat /\ PagesOf(a) \in Nat
    BY <1>1, <2>2 DEF PosOf, NegOf, PagesOf
  <2> QED
    BY <2>1, <2>3
<1>3. CASE Encodes(a)
  <2>1. PICK h \in {0, 1} : EncodeBenefit(a) = Scaled(a, h)
    BY <1>3 DEF EncodeBenefit
  <2> DEFINE b == Scaled(a, h)
  <2>2. /\ b.rshash_pos = 0 /\ b.rshash_neg = 0
        /\ b.benefit_pos = Add(Shr(a.benefit_pos, h), Shr(a.rshash_pos, a.benefit_base + h))
        /\ b.benefit_neg = Add(Shr(a.benefit_neg, h), Shr(a.rshash_neg, a.benefit_base + h))
        /\ b.benefit_scanned = Add(Shr(a.benefit_scanned, h), Shr(Fresh(a), a.benefit_base + h))
        /\ b.benefit_base = a.benefit_base + h
        /\ b.pages_scanned = b.pages_scanned_last
        /\ b.pages_scanned \in Nat
    BY ScaledFields, U64Assumption DEF Accounts, U64
  <2> HIDE DEF b
  <2>3. Fresh(b) = 0
    BY <2>2, U64Assumption DEF Fresh, Sub
  <2>4. a.benefit_base + h \in 0 .. BASE_MAX + 1
    BY <1>1, BaseAssumption
  <2>5. 2 ^ b.benefit_base \in Nat
    BY <2>2, <2>4, PowerPositive
  <2>6. /\ Shr(a.benefit_pos, h) \in Nat /\ Shr(a.rshash_pos, a.benefit_base + h) \in Nat
        /\ Shr(a.benefit_neg, h) \in Nat /\ Shr(a.rshash_neg, a.benefit_base + h) \in Nat
        /\ Shr(a.benefit_scanned, h) \in Nat /\ Shr(Fresh(a), a.benefit_base + h) \in Nat
    <3>1. h \in 0 .. BASE_MAX + 1
      BY BaseAssumption
    <3> QED
      BY <1>1, <2>4, <3>1, PowerPositive, DivBounds DEF Shr
  <2>7. b.benefit_pos \in Nat /\ b.benefit_neg \in Nat /\ b.benefit_scanned \in Nat
    BY <2>2, <2>6, AddIsU64, U64Assumption DEF U64
  <2>8. /\ PosOf(b) = 2 ^ b.benefit_base * b.benefit_pos
        /\ NegOf(b) = 2 ^ b.benefit_base * b.benefit_neg
        /\ PagesOf(b) = 2 ^ b.benefit_base * b.benefit_scanned
    BY <2>2, <2>3, <2>5, <2>7 DEF PosOf, NegOf, PagesOf
  <2>9. /\ 2 ^ b.benefit_base * b.benefit_pos <= PosOf(a)
        /\ 2 ^ b.benefit_base * b.benefit_neg <= NegOf(a)
        /\ 2 ^ b.benefit_base * b.benefit_scanned <= PagesOf(a)
    BY <1>1, <2>2, ShiftNeverGrows DEF PosOf, NegOf, PagesOf
  <2> QED
    BY <2>1, <2>8, <2>9 DEF b
<1> QED
  BY <1>2, <1>3

(* The counters of an account stand for natural numbers. *)
LEMMA StandForNat ==
  ASSUME NEW a \in Accounts, a.pages_scanned_last <= a.pages_scanned
  PROVE  PosOf(a) \in Nat /\ NegOf(a) \in Nat /\ PagesOf(a) \in Nat
<1>1. /\ a.benefit_pos \in Nat /\ a.rshash_pos \in Nat
      /\ a.benefit_neg \in Nat /\ a.rshash_neg \in Nat
      /\ a.benefit_scanned \in Nat /\ Fresh(a) \in Nat
      /\ a.benefit_base \in 0 .. BASE_MAX
  BY FreshIsDifference, U64Assumption DEF Accounts, U64
<1>2. 2 ^ a.benefit_base \in Nat
  BY <1>1, BaseAssumption
<1> QED
  BY <1>1, <1>2 DEF PosOf, NegOf, PagesOf

(* A charge makes them stand for at most as much more. *)
LEMMA IncRshashPosGrows ==
  ASSUME NEW a \in Accounts, a.pages_scanned_last <= a.pages_scanned,
         a.benefit_base < BASE_MAX, NEW delta \in Nat
  PROVE  LET b == IncRshashPos(a, delta)
         IN PosOf(b) <= PosOf(a) + delta /\ NegOf(b) <= NegOf(a) /\ PagesOf(b) <= PagesOf(a)
<1> DEFINE e == EncodeIf(CanOverflow(a.rshash_pos, delta), a)
           b == IncRshashPos(a, delta)
<1>1. /\ e \in Accounts /\ e.pages_scanned_last <= e.pages_scanned
      /\ PosOf(e) <= PosOf(a) /\ NegOf(e) <= NegOf(a) /\ PagesOf(e) <= PagesOf(a)
  <2>1. CASE CanOverflow(a.rshash_pos, delta)
    <3>1. e = EncodeBenefit(a)
      BY <2>1 DEF EncodeIf
    <3>2. /\ e \in Accounts /\ e.pages_scanned_last = e.pages_scanned
      BY <3>1, EncodeFacts
    <3>3. e.pages_scanned_last <= e.pages_scanned
      BY <3>2, U64Assumption DEF Accounts, U64
    <3> QED
      BY <3>1, <3>2, <3>3, EncodeNeverGrows
  <2>2. CASE ~CanOverflow(a.rshash_pos, delta)
    <3>1. e = a
      BY <2>2 DEF EncodeIf
    <3> QED
      BY <3>1, StandForNat
  <2> QED
    BY <2>1, <2>2
<1>2. b = [e EXCEPT !.rshash_pos = Add(e.rshash_pos, delta)]
  BY DEF IncRshashPos
<1> HIDE DEF e, b
<1>3. e.rshash_pos \in Nat
  BY <1>1, U64Assumption DEF Accounts, U64
<1>4. Add(e.rshash_pos, delta) \in Nat /\ Add(e.rshash_pos, delta) <= e.rshash_pos + delta
  BY <1>3, AddIsU64
<1>5. /\ b.rshash_pos = Add(e.rshash_pos, delta)
      /\ b.rshash_neg = e.rshash_neg
      /\ b.benefit_pos = e.benefit_pos /\ b.benefit_neg = e.benefit_neg
      /\ b.benefit_scanned = e.benefit_scanned /\ b.benefit_base = e.benefit_base
      /\ b.pages_scanned = e.pages_scanned
      /\ b.pages_scanned_last = e.pages_scanned_last
  BY <1>1, <1>2 DEF Accounts
<1>6. PagesOf(b) = PagesOf(e) /\ NegOf(b) = NegOf(e)
  BY <1>5 DEF PagesOf, Fresh, NegOf
<1>7. 2 ^ e.benefit_base * e.benefit_pos \in Nat
  <2>1. 2 ^ e.benefit_base \in Nat /\ e.benefit_pos \in Nat
    BY <1>1, BaseAssumption, U64Assumption DEF Accounts, U64
  <2> QED
    BY <2>1
<1>8. PosOf(b) <= PosOf(e) + delta
  BY <1>3, <1>4, <1>5, <1>7 DEF PosOf
<1>9. PosOf(a) \in Nat /\ PosOf(e) \in Nat /\ PosOf(b) \in Nat
  BY <1>1, <1>3, <1>4, <1>5, <1>7, StandForNat DEF PosOf
<1>10. PosOf(b) <= PosOf(a) + delta
  BY <1>1, <1>8, <1>9
<1> QED
  BY <1>1, <1>6, <1>10 DEF b

(* The same for a cost. *)
LEMMA IncRshashNegGrows ==
  ASSUME NEW a \in Accounts, a.pages_scanned_last <= a.pages_scanned,
         a.benefit_base < BASE_MAX, NEW delta \in Nat
  PROVE  LET b == IncRshashNeg(a, delta)
         IN NegOf(b) <= NegOf(a) + delta /\ PosOf(b) <= PosOf(a) /\ PagesOf(b) <= PagesOf(a)
<1> DEFINE e == EncodeIf(CanOverflow(a.rshash_neg, delta), a)
           b == IncRshashNeg(a, delta)
<1>1. /\ e \in Accounts /\ e.pages_scanned_last <= e.pages_scanned
      /\ NegOf(e) <= NegOf(a) /\ PosOf(e) <= PosOf(a) /\ PagesOf(e) <= PagesOf(a)
  <2>1. CASE CanOverflow(a.rshash_neg, delta)
    <3>1. e = EncodeBenefit(a)
      BY <2>1 DEF EncodeIf
    <3>2. /\ e \in Accounts /\ e.pages_scanned_last = e.pages_scanned
      BY <3>1, EncodeFacts
    <3>3. e.pages_scanned_last <= e.pages_scanned
      BY <3>2, U64Assumption DEF Accounts, U64
    <3> QED
      BY <3>1, <3>2, <3>3, EncodeNeverGrows
  <2>2. CASE ~CanOverflow(a.rshash_neg, delta)
    <3>1. e = a
      BY <2>2 DEF EncodeIf
    <3> QED
      BY <3>1, StandForNat
  <2> QED
    BY <2>1, <2>2
<1>2. b = [e EXCEPT !.rshash_neg = Add(e.rshash_neg, delta)]
  BY DEF IncRshashNeg
<1> HIDE DEF e, b
<1>3. e.rshash_neg \in Nat
  BY <1>1, U64Assumption DEF Accounts, U64
<1>4. Add(e.rshash_neg, delta) \in Nat /\ Add(e.rshash_neg, delta) <= e.rshash_neg + delta
  BY <1>3, AddIsU64
<1>5. /\ b.rshash_neg = Add(e.rshash_neg, delta)
      /\ b.rshash_pos = e.rshash_pos
      /\ b.benefit_pos = e.benefit_pos /\ b.benefit_neg = e.benefit_neg
      /\ b.benefit_scanned = e.benefit_scanned /\ b.benefit_base = e.benefit_base
      /\ b.pages_scanned = e.pages_scanned
      /\ b.pages_scanned_last = e.pages_scanned_last
  BY <1>1, <1>2 DEF Accounts
<1>6. PagesOf(b) = PagesOf(e) /\ PosOf(b) = PosOf(e)
  BY <1>5 DEF PagesOf, Fresh, PosOf
<1>7. 2 ^ e.benefit_base * e.benefit_neg \in Nat
  <2>1. 2 ^ e.benefit_base \in Nat /\ e.benefit_neg \in Nat
    BY <1>1, BaseAssumption, U64Assumption DEF Accounts, U64
  <2> QED
    BY <2>1
<1>8. NegOf(b) <= NegOf(e) + delta
  BY <1>3, <1>4, <1>5, <1>7 DEF NegOf
<1>9. NegOf(a) \in Nat /\ NegOf(e) \in Nat /\ NegOf(b) \in Nat
  BY <1>1, <1>3, <1>4, <1>5, <1>7, StandForNat DEF NegOf
<1>10. NegOf(b) <= NegOf(a) + delta
  BY <1>1, <1>8, <1>9
<1> QED
  BY <1>1, <1>6, <1>10 DEF b

(* Counting a page makes them stand for at most one page more. *)
LEMMA IncPagesScannedGrows ==
  ASSUME NEW a \in Accounts, a.pages_scanned_last <= a.pages_scanned,
         a.benefit_base < BASE_MAX, a.pages_scanned_base < BASE_MAX
  PROVE  LET b == IncPagesScanned(a)
         IN PosOf(b) <= PosOf(a) /\ NegOf(b) <= NegOf(a) /\ PagesOf(b) <= PagesOf(a) + 1
<1> DEFINE b == IncPagesScanned(a)
<1>0. PosOf(a) \in Nat /\ NegOf(a) \in Nat /\ PagesOf(a) \in Nat
  BY StandForNat
<1>1. CASE a.pages_scanned # U64_MAX
  <2>1. b = [a EXCEPT !.pages_scanned = a.pages_scanned + 1]
    BY <1>1 DEF IncPagesScanned
  <2>2. b \in Accounts /\ b.pages_scanned_last < b.pages_scanned
    BY IncPagesScannedFacts
  <2> HIDE DEF b
  <2>3. /\ b.pages_scanned = a.pages_scanned + 1
        /\ b.pages_scanned_last = a.pages_scanned_last
        /\ b.rshash_pos = a.rshash_pos /\ b.rshash_neg = a.rshash_neg
        /\ b.benefit_pos = a.benefit_pos /\ b.benefit_neg = a.benefit_neg
        /\ b.benefit_scanned = a.benefit_scanned /\ b.benefit_base = a.benefit_base
    BY <2>1 DEF Accounts
  <2>4. b.pages_scanned_last <= b.pages_scanned
    BY <2>2, U64Assumption DEF Accounts, U64
  <2>5. Fresh(a) \in Nat /\ Fresh(b) = Fresh(a) + 1
    <3>1. Fresh(b) = b.pages_scanned - b.pages_scanned_last
      BY <2>2, <2>4, FreshIsDifference
    <3>2. Fresh(a) = a.pages_scanned - a.pages_scanned_last /\ Fresh(a) \in U64
      BY FreshIsDifference
    <3> QED
      BY <2>3, <3>1, <3>2, U64Assumption DEF Accounts, U64
  <2>6. PosOf(b) = PosOf(a) /\ NegOf(b) = NegOf(a)
    BY <2>3 DEF PosOf, NegOf
  <2>7. 2 ^ a.benefit_base * a.benefit_scanned \in Nat
    <3>1. 2 ^ a.benefit_base \in Nat /\ a.benefit_scanned \in Nat
      BY BaseAssumption, U64Assumption DEF Accounts, U64
    <3> QED
      BY <3>1
  <2>8. PagesOf(b) = PagesOf(a) + 1
    BY <2>3, <2>5, <2>7 DEF PagesOf
  <2> QED
    BY <1>0, <2>6, <2>8 DEF b
<1>2. CASE a.pages_scanned = U64_MAX
  <2> DEFINE e == EncodeBenefit(a)
             s == StorePages(e)
  <2>1. b = [s EXCEPT !.pages_scanned = 1, !.pages_scanned_last = 0]
    BY <1>2 DEF IncPagesScanned
  <2>2. /\ e \in Accounts /\ e.pages_scanned_base < BASE_MAX
        /\ e.pages_scanned_last = e.pages_scanned
        /\ PosOf(e) <= PosOf(a) /\ NegOf(e) <= NegOf(a) /\ PagesOf(e) <= PagesOf(a)
    BY EncodeFacts, EncodeNeverGrows
  <2>3. b \in Accounts /\ b.pages_scanned_last < b.pages_scanned
    BY IncPagesScannedFacts
  <2> HIDE DEF b, e
  <2>4. /\ s \in Accounts
        /\ s.rshash_pos = e.rshash_pos /\ s.rshash_neg = e.rshash_neg
        /\ s.benefit_pos = e.benefit_pos /\ s.benefit_neg = e.benefit_neg
        /\ s.benefit_scanned = e.benefit_scanned /\ s.benefit_base = e.benefit_base
    BY <2>2, StorePagesFacts
  <2> HIDE DEF s
  <2>5. /\ b.pages_scanned = 1 /\ b.pages_scanned_last = 0
        /\ b.rshash_pos = e.rshash_pos /\ b.rshash_neg = e.rshash_neg
        /\ b.benefit_pos = e.benefit_pos /\ b.benefit_neg = e.benefit_neg
        /\ b.benefit_scanned = e.benefit_scanned /\ b.benefit_base = e.benefit_base
    BY <2>1, <2>4 DEF Accounts
  <2>6. e.pages_scanned_last <= e.pages_scanned
    BY <2>2, U64Assumption DEF Accounts, U64
  <2>7. Fresh(b) = 1 /\ Fresh(e) = 0
    <3>1. Fresh(b) = b.pages_scanned - b.pages_scanned_last
      BY <2>3, <2>5, FreshIsDifference
    <3>2. Fresh(e) = e.pages_scanned - e.pages_scanned_last
      BY <2>2, <2>6, FreshIsDifference
    <3>3. e.pages_scanned \in Nat
      BY <2>2, U64Assumption DEF Accounts, U64
    <3> QED
      BY <2>2, <2>5, <3>1, <3>2, <3>3
  <2>8. PosOf(b) = PosOf(e) /\ NegOf(b) = NegOf(e)
    BY <2>5 DEF PosOf, NegOf
  <2>9. 2 ^ e.benefit_base * e.benefit_scanned \in Nat
    <3>1. 2 ^ e.benefit_base \in Nat /\ e.benefit_scanned \in Nat
      BY <2>2, BaseAssumption, U64Assumption DEF Accounts, U64
    <3> QED
      BY <3>1
  <2>10. PagesOf(b) = PagesOf(e) + 1 /\ PagesOf(e) \in Nat
    BY <2>5, <2>7, <2>9 DEF PagesOf
  <2> QED
    BY <1>0, <2>2, <2>8, <2>10 DEF b
<1> QED
  BY <1>1, <1>2

(* The invariant: no counter stands for more than was charged. *)
NeverMore ==
  PosOf(acct) <= total.pos /\ NegOf(acct) <= total.neg /\ PagesOf(acct) <= total.pages

LEMMA NeverMoreInit == BenefitInit => NeverMore
<1> SUFFICES ASSUME BenefitInit PROVE NeverMore
  OBVIOUS
<1>1. acct \in Accounts /\ acct.pages_scanned_last = 0 /\ acct.pages_scanned = 0
  BY BenefitInvInit DEF BenefitInv, BenefitTypeOK, BenefitInit, NoAccounts
<1>2. Fresh(acct) = 0
  BY <1>1, FreshIsDifference
<1> QED
  BY <1>2, BaseAssumption
     DEF NeverMore, PosOf, NegOf, PagesOf, BenefitInit, NoAccounts, NoCharge

LEMMA NeverMoreStep ==
  BenefitInv /\ NeverMore /\ [BenefitNext]_benefitVars => NeverMore'
<1> SUFFICES ASSUME BenefitInv, NeverMore, [BenefitNext]_benefitVars PROVE NeverMore'
  OBVIOUS
<1>0. /\ acct \in Accounts /\ acct.pages_scanned_last <= acct.pages_scanned
      /\ total \in [pos : Nat, neg : Nat, pages : Nat]
  BY DEF BenefitInv, BenefitTypeOK, ChargesFit
<1>1. /\ BenefitInv'
      /\ acct' \in Accounts /\ acct'.pages_scanned_last <= acct'.pages_scanned
  BY BenefitInvStep DEF BenefitInv, BenefitTypeOK, ChargesFit
<1>2. /\ PosOf(acct) \in Nat /\ NegOf(acct) \in Nat /\ PagesOf(acct) \in Nat
      /\ total.pos \in Nat /\ total.neg \in Nat /\ total.pages \in Nat
  BY <1>0, StandForNat
<1>3. PosOf(acct') \in Nat /\ NegOf(acct') \in Nat /\ PagesOf(acct') \in Nat
  BY <1>1, StandForNat
<1>4. SUFFICES /\ PosOf(acct') <= total'.pos
               /\ NegOf(acct') <= total'.neg
               /\ PagesOf(acct') <= total'.pages
  BY DEF NeverMore, PosOf, NegOf, PagesOf, Fresh, Sub
<1>5. CASE ScanPage
  <2>1. /\ PosOf(acct') <= PosOf(acct) /\ NegOf(acct') <= NegOf(acct)
        /\ PagesOf(acct') <= PagesOf(acct) + 1
    BY <1>0, <1>5, IncPagesScannedGrows DEF ScanPage, ShiftsLeft
  <2>2. /\ total'.pos = total.pos /\ total'.neg = total.neg
        /\ total'.pages = total.pages + 1
    BY <1>0, <1>5 DEF ScanPage
  <2> QED
    BY <1>2, <1>3, <2>1, <2>2 DEF NeverMore
<1>6. ASSUME NEW d \in 1 .. pos_left, Credit(d)
      PROVE  /\ PosOf(acct') <= total'.pos /\ NegOf(acct') <= total'.neg
             /\ PagesOf(acct') <= total'.pages
  <2>0. d \in Nat
    BY CostAssumption DEF BenefitInv, BenefitTypeOK
  <2>1. /\ PosOf(acct') <= PosOf(acct) + d /\ NegOf(acct') <= NegOf(acct)
        /\ PagesOf(acct') <= PagesOf(acct)
    BY <1>0, <1>6, <2>0, IncRshashPosGrows DEF Credit
  <2>2. /\ total'.pos = total.pos + d /\ total'.neg = total.neg
        /\ total'.pages = total.pages
    BY <1>0, <1>6 DEF Credit
  <2> QED
    BY <1>2, <1>3, <2>0, <2>1, <2>2 DEF NeverMore
<1>7. ASSUME NEW d \in 1 .. neg_left, Charge(d)
      PROVE  /\ PosOf(acct') <= total'.pos /\ NegOf(acct') <= total'.neg
             /\ PagesOf(acct') <= total'.pages
  <2>0. d \in Nat
    BY U64Assumption DEF BenefitInv, BenefitTypeOK
  <2>1. /\ NegOf(acct') <= NegOf(acct) + d /\ PosOf(acct') <= PosOf(acct)
        /\ PagesOf(acct') <= PagesOf(acct)
    BY <1>0, <1>7, <2>0, IncRshashNegGrows DEF Charge
  <2>2. /\ total'.neg = total.neg + d /\ total'.pos = total.pos
        /\ total'.pages = total.pages
    BY <1>0, <1>7 DEF Charge
  <2> QED
    BY <1>2, <1>3, <2>0, <2>1, <2>2 DEF NeverMore
<1>8. CASE EndRound
  <2>1. /\ acct'.pages_scanned_last = acct'.pages_scanned
        /\ acct'.rshash_pos = 0 /\ acct'.rshash_neg = 0
        /\ acct'.benefit_pos = 0 /\ acct'.benefit_neg = 0 /\ acct'.benefit_scanned = 0
    BY <1>0, <1>8, ResetFacts DEF EndRound
  <2>2. Fresh(acct') = 0
    <3>1. acct'.pages_scanned - acct'.pages_scanned_last = 0
      BY <1>1, <2>1, U64Assumption DEF Accounts, U64
    <3> QED
      BY <1>1, <3>1, FreshIsDifference
  <2>3. 2 ^ acct'.benefit_base \in Nat
    BY <1>1, BaseAssumption DEF Accounts
  <2>4. PosOf(acct') = 0 /\ NegOf(acct') = 0 /\ PagesOf(acct') = 0
    BY <2>1, <2>2, <2>3 DEF PosOf, NegOf, PagesOf
  <2>5. total'.pos = 0 /\ total'.neg = 0 /\ total'.pages = 0
    BY <1>8 DEF EndRound, NoCharge
  <2> QED
    BY <2>4, <2>5
<1>9. CASE UNCHANGED benefitVars
  BY <1>9 DEF benefitVars, NeverMore
<1> QED
  BY <1>5, <1>6, <1>7, <1>8, <1>9 DEF BenefitNext

(* Halving sums and deltas in encode_benefit never makes the counters claim *)
(* more than was charged or scanned, however often it happens.              *)
THEOREM ScalingCorrect == BenefitSpec => []ScalingNeverOvercounts
<1>1. NeverMore => ScalingNeverOvercounts
  BY DEF NeverMore, ScalingNeverOvercounts, PosOf, NegOf, PagesOf
<1> QED
  BY <1>1, BenefitInvInit, BenefitInvStep, NeverMoreInit, NeverMoreStep, PTL DEF BenefitSpec

-----------------------------------------------------------------------------
(* The pages counted since startup. *)

(* What the counter that wraps and the one that outlives it stand for. *)
EverScanned(a) == 2 ^ a.pages_scanned_base * a.pages_scanned_stored + a.pages_scanned

LEMMA EverScannedIsNat ==
  ASSUME NEW a \in Accounts
  PROVE  /\ a.pages_scanned \in Nat /\ a.pages_scanned_stored \in Nat
         /\ 2 ^ a.pages_scanned_base \in Nat \ {0} /\ EverScanned(a) \in Nat
<1>1. a.pages_scanned \in Nat /\ a.pages_scanned_stored \in Nat
  BY U64Assumption DEF Accounts, U64
<1>2. 2 ^ a.pages_scanned_base \in Nat \ {0}
  BY BaseAssumption DEF Accounts
<1> QED
  BY <1>1, <1>2 DEF EverScanned

(* Halving what is stored and what is added, at twice the unit, never grows, *)
(* and drops no more than one of the new units.                             *)
LEMMA HalvesNeverGrow ==
  ASSUME NEW u \in Nat \ {0}, NEW x \in Nat, NEW d \in Nat,
         NEW s \in Nat, s = x \div 2 + d \div 2
  PROVE  (2 * u) * s <= u * x + u * d /\ u * x + u * d <= (2 * u) * s + 2 * u
<1>1. 2 * s <= x + d /\ x + d <= 2 * s + 2
  OBVIOUS
<1>2. u * (2 * s) <= u * (x + d) /\ u * (x + d) <= u * (2 * s + 2)
  BY <1>1
<1>3. /\ u * (2 * s) = (2 * u) * s /\ u * (x + d) = u * x + u * d
      /\ u * (2 * s + 2) = (2 * u) * s + 2 * u
  OBVIOUS
<1> QED
  BY <1>2, <1>3

(* What a shift drops is less than its unit. *)
LEMMA ShiftDrops ==
  ASSUME NEW x \in Nat, NEW d \in Nat \ {0} PROVE x < d * (x \div d) + d
OBVIOUS

(* A wrap stores at most what was counted, all of it while the stored       *)
(* counter is not scaled, and otherwise less than two units short of it.    *)
LEMMA StorePagesCounts ==
  ASSUME NEW a \in Accounts, a.pages_scanned_base < BASE_MAX
  PROVE  LET b == StorePages(a)
             kept == 2 ^ b.pages_scanned_base * b.pages_scanned_stored
         IN /\ kept \in Nat
            /\ kept <= EverScanned(a) /\ EverScanned(a) < kept + 2 * 2 ^ b.pages_scanned_base
            /\ b.pages_scanned_base = 0 => kept = EverScanned(a)
<1> DEFINE x == a.pages_scanned_stored
           n == a.pages_scanned_base
           u == 2 ^ n
           delta == Shr(a.pages_scanned, n)
           b == StorePages(a)
<1>1. /\ x \in Nat /\ x <= U64_MAX /\ a.pages_scanned \in Nat /\ u \in Nat \ {0}
      /\ n \in 0 .. BASE_MAX
  BY EverScannedIsNat, U64Assumption DEF Accounts, U64
<1>2. delta \in Nat /\ u * delta <= a.pages_scanned /\ a.pages_scanned < u * delta + u
  BY <1>1, DivBounds, ShiftDrops DEF Shr
<1>3. CASE ~CanOverflow(x, delta)
  <2>1. b = [a EXCEPT !.pages_scanned_stored = Add(x, delta), !.pages_scanned_base = n]
    BY <1>3 DEF StorePages
  <2>2. b.pages_scanned_stored = Add(x, delta) /\ b.pages_scanned_base = n
    BY <2>1 DEF Accounts
  <2>3. x + delta <= U64_MAX
    <3> HIDE DEF x, delta
    <3> QED
      BY <1>1, <1>2, <1>3, U64Assumption DEF CanOverflow
  <2>4. Add(x, delta) = x + delta
    BY <1>1, <1>2, <2>3, AddIsExact
  <2>5. n = 0 => u = 1 /\ delta = a.pages_scanned
    BY <1>1, ShrZero, BaseAssumption
  <2>6. EverScanned(a) = u * x + a.pages_scanned
    BY DEF EverScanned
  <2> HIDE DEF x, n, u, delta, b
  <2>7. u * (x + delta) = u * x + u * delta
    BY <1>1, <1>2
  <2>8. /\ 2 ^ b.pages_scanned_base * b.pages_scanned_stored = u * (x + delta)
        /\ 2 ^ b.pages_scanned_base = u
    BY <2>2, <2>4 DEF u
  <2>9. u * x \in Nat /\ u * delta \in Nat
    BY <1>1, <1>2
  <2>10. n = 0 => u * x = x /\ u * delta = a.pages_scanned
    BY <1>1, <1>2, <2>5
  <2> QED
    BY <1>1, <1>2, <2>2, <2>6, <2>7, <2>8, <2>9, <2>10 DEF b
<1>4. CASE CanOverflow(x, delta)
  <2> DEFINE s == Add(Shr(x, 1), Shr(delta, 1))
  <2>1. b = [a EXCEPT !.pages_scanned_stored = s, !.pages_scanned_base = n + 1]
    BY <1>4 DEF StorePages
  <2>2. b.pages_scanned_stored = s /\ b.pages_scanned_base = n + 1
    BY <2>1 DEF Accounts
  <2>3. 2 ^ 1 = 2
    <3>1. 0 \in 0 .. BASE_MAX /\ 0 + 1 = 1
      BY BaseAssumption
    <3>2. 2 ^ (0 + 1) = 2 * 2 ^ 0
      BY <3>1, BaseAssumption
    <3> QED
      BY <3>1, <3>2, BaseAssumption
  <2>4. Shr(x, 1) = x \div 2 /\ Shr(delta, 1) = delta \div 2
    BY <2>3 DEF Shr
  <2>5. x \div 2 \in Nat /\ delta \div 2 \in Nat
    <3> HIDE DEF x, delta
    <3> QED
      BY <1>1, <1>2
  <2>6. s \in Nat /\ s = x \div 2 + delta \div 2
    <3>1. x \div 2 + delta \div 2 <= U64_MAX
      <4>1. delta <= U64_MAX
        BY <1>1, DivBounds, U64Assumption DEF Shr, Accounts, U64
      <4> HIDE DEF x, delta
      <4> QED
        BY <1>1, <1>2, <4>1, U64Assumption
    <3> QED
      BY <2>4, <2>5, <3>1, AddIsExact
  <2>7. 2 ^ (n + 1) = 2 * u
    BY <1>1, BaseAssumption
  <2>8. EverScanned(a) = u * x + a.pages_scanned
    BY DEF EverScanned
  <2>9. n + 1 # 0
    BY <1>1
  <2> HIDE DEF x, n, u, delta, b, s
  <2>10. (2 * u) * s <= u * x + u * delta /\ u * x + u * delta <= (2 * u) * s + 2 * u
    BY <1>1, <1>2, <2>6, HalvesNeverGrow
  <2>11. /\ 2 ^ b.pages_scanned_base * b.pages_scanned_stored = (2 * u) * s
         /\ 2 ^ b.pages_scanned_base = 2 * u
    BY <2>2, <2>7
  <2>12. u * x \in Nat /\ u * delta \in Nat /\ (2 * u) * s \in Nat
    BY <1>1, <1>2, <2>6
  <2> QED
    BY <1>1, <1>2, <2>2, <2>8, <2>9, <2>10, <2>11, <2>12 DEF b
<1> QED
  BY <1>3, <1>4

(* Counting a page counts one page; at a wrap that scales, or finds the     *)
(* stored counter scaled, no more than one, and less than two units fewer.  *)
LEMMA IncPagesScannedCounts ==
  ASSUME NEW a \in Accounts, a.pages_scanned_last <= a.pages_scanned,
         a.benefit_base < BASE_MAX, a.pages_scanned_base < BASE_MAX
  PROVE  LET b == IncPagesScanned(a)
         IN /\ EverScanned(b) <= EverScanned(a) + 1
            /\ EverScanned(a) + 1 < EverScanned(b) + 2 * 2 ^ b.pages_scanned_base
            /\ b.pages_scanned_base = 0 => EverScanned(b) = EverScanned(a) + 1
            /\ a.pages_scanned < U64_MAX => EverScanned(b) = EverScanned(a) + 1
            /\ EverScanned(b) \in Nat /\ 2 ^ b.pages_scanned_base \in Nat \ {0}
<1> DEFINE b == IncPagesScanned(a)
<1>0. EverScanned(a) \in Nat
  BY EverScannedIsNat
<1>1. CASE a.pages_scanned # U64_MAX
  <2>1. b = [a EXCEPT !.pages_scanned = a.pages_scanned + 1]
    BY <1>1 DEF IncPagesScanned
  <2> HIDE DEF b
  <2>2. /\ b.pages_scanned = a.pages_scanned + 1
        /\ b.pages_scanned_stored = a.pages_scanned_stored
        /\ b.pages_scanned_base = a.pages_scanned_base
    BY <2>1 DEF Accounts
  <2>3. /\ 2 ^ a.pages_scanned_base * a.pages_scanned_stored \in Nat /\ a.pages_scanned \in Nat
        /\ 2 ^ b.pages_scanned_base \in Nat \ {0}
    BY <2>2, EverScannedIsNat
  <2>4. EverScanned(b) = EverScanned(a) + 1
    BY <2>2, <2>3 DEF EverScanned
  <2> QED
    BY <1>0, <2>3, <2>4 DEF b
<1>2. CASE a.pages_scanned = U64_MAX
  <2> DEFINE e == EncodeBenefit(a)
             s == StorePages(e)
             kept == 2 ^ s.pages_scanned_base * s.pages_scanned_stored
  <2>1. b = [s EXCEPT !.pages_scanned = 1, !.pages_scanned_last = 0]
    BY <1>2 DEF IncPagesScanned
  <2>2. /\ e \in Accounts /\ e.pages_scanned = a.pages_scanned
        /\ e.pages_scanned_stored = a.pages_scanned_stored
        /\ e.pages_scanned_base = a.pages_scanned_base
    BY EncodeFacts
  <2>3. EverScanned(e) = EverScanned(a)
    BY <2>2 DEF EverScanned
  <2> HIDE DEF b, e
  <2>4. s \in Accounts
    BY <2>2, StorePagesFacts
  <2>5. /\ kept \in Nat /\ kept <= EverScanned(e)
        /\ EverScanned(e) < kept + 2 * 2 ^ s.pages_scanned_base
        /\ s.pages_scanned_base = 0 => kept = EverScanned(e)
    BY <2>2, StorePagesCounts
  <2> HIDE DEF s
  <2>6. /\ b.pages_scanned = 1 /\ b.pages_scanned_stored = s.pages_scanned_stored
        /\ b.pages_scanned_base = s.pages_scanned_base
        /\ 2 ^ b.pages_scanned_base \in Nat \ {0}
    BY <2>1, <2>4, EverScannedIsNat DEF Accounts
  <2>7. EverScanned(b) = kept + 1
    BY <2>6 DEF EverScanned
  <2> HIDE DEF kept
  <2> QED
    BY <1>0, <1>2, U64Assumption, <2>3, <2>5, <2>6, <2>7 DEF b
<1> QED
  BY <1>1, <1>2

(* No other call touches what was counted. *)
LEMMA ChargesKeepCount ==
  ASSUME NEW a \in Accounts, a.pages_scanned_last <= a.pages_scanned,
         a.benefit_base < BASE_MAX, NEW delta \in Nat
  PROVE  /\ EverScanned(IncRshashPos(a, delta)) = EverScanned(a)
         /\ EverScanned(IncRshashNeg(a, delta)) = EverScanned(a)
<1>1. ASSUME NEW c \in BOOLEAN
      PROVE  /\ EncodeIf(c, a) \in Accounts
             /\ EverScanned(EncodeIf(c, a)) = EverScanned(a)
  <2>1. CASE c
    <3>1. EncodeIf(c, a) = EncodeBenefit(a)
      BY <2>1 DEF EncodeIf
    <3> QED
      BY <3>1, EncodeFacts DEF EverScanned
  <2>2. CASE ~c
    BY <2>2 DEF EncodeIf
  <2> QED
    BY <2>1, <2>2
<1>2. CanOverflow(a.rshash_pos, delta) \in BOOLEAN /\ CanOverflow(a.rshash_neg, delta) \in BOOLEAN
  BY DEF CanOverflow
<1>3. EverScanned(IncRshashPos(a, delta)) = EverScanned(a)
  <2> DEFINE e == EncodeIf(CanOverflow(a.rshash_pos, delta), a)
  <2>1. e \in Accounts /\ EverScanned(e) = EverScanned(a)
    BY <1>1, <1>2
  <2> DEFINE b == [e EXCEPT !.rshash_pos = Add(e.rshash_pos, delta)]
  <2>2. IncRshashPos(a, delta) = b
    BY DEF IncRshashPos
  <2> HIDE DEF e
  <2>3. EverScanned(b) = EverScanned(e)
    BY <2>1 DEF EverScanned, Accounts
  <2> HIDE DEF b
  <2> QED
    BY <2>1, <2>2, <2>3
<1>4. EverScanned(IncRshashNeg(a, delta)) = EverScanned(a)
  <2> DEFINE e == EncodeIf(CanOverflow(a.rshash_neg, delta), a)
  <2>1. e \in Accounts /\ EverScanned(e) = EverScanned(a)
    BY <1>1, <1>2
  <2> DEFINE b == [e EXCEPT !.rshash_neg = Add(e.rshash_neg, delta)]
  <2>2. IncRshashNeg(a, delta) = b
    BY DEF IncRshashNeg
  <2> HIDE DEF e
  <2>3. EverScanned(b) = EverScanned(e)
    BY <2>1 DEF EverScanned, Accounts
  <2> HIDE DEF b
  <2> QED
    BY <2>1, <2>2, <2>3
<1> QED
  BY <1>3, <1>4

(* ... the end of a round included, also when it scales past the bound. *)
LEMMA ResetKeepsCount ==
  ASSUME NEW a \in Accounts, a.pages_scanned_last <= a.pages_scanned, Encodes(a)
  PROVE  EverScanned(ResetBenefit(EncodeBenefit(a))) = EverScanned(a)
<1>1. PICK h \in {0, 1} : EncodeBenefit(a) = Scaled(a, h)
  BY DEF EncodeBenefit
<1>2. ResetBenefit(Scaled(a, h)) =
        [a EXCEPT !.benefit_pos = 0, !.benefit_neg = 0, !.benefit_scanned = 0,
                  !.benefit_base = 0, !.rshash_pos = 0, !.rshash_neg = 0,
                  !.pages_scanned_last = a.pages_scanned]
  BY DEF ResetBenefit, Scaled, Accounts
<1> QED
  BY <1>1, <1>2 DEF EverScanned, Accounts

(* A step counts the page it scans, if it scans one. *)
LEMMA CountStep ==
  ASSUME BenefitInv, [BenefitNext]_benefitVars
  PROVE  IF total'.pages > total.pages
           THEN PagesScanned + 1 - PagesScanned' \in MayMiss
           ELSE PagesScanned' = PagesScanned
<1>0. /\ acct \in Accounts /\ acct.pages_scanned_last <= acct.pages_scanned
      /\ total \in [pos : Nat, neg : Nat, pages : Nat]
  BY DEF BenefitInv, BenefitTypeOK, ChargesFit
<1>1. /\ PagesScanned = EverScanned(acct) /\ PagesScanned' = EverScanned(acct')
      /\ EverScanned(acct) \in Nat
  BY <1>0, EverScannedIsNat DEF PagesScanned, EverScanned
<1>2. CASE ScanPage
  <2>1. total'.pages = total.pages + 1 /\ total.pages \in Nat
    BY <1>0, <1>2 DEF ScanPage
  <2> DEFINE u == 2 ^ acct'.pages_scanned_base
  <2>2. /\ EverScanned(acct') <= EverScanned(acct) + 1
        /\ EverScanned(acct) + 1 < EverScanned(acct') + 2 * u
        /\ acct'.pages_scanned_base = 0 => EverScanned(acct') = EverScanned(acct) + 1
        /\ acct.pages_scanned < U64_MAX => EverScanned(acct') = EverScanned(acct) + 1
        /\ EverScanned(acct') \in Nat /\ u \in Nat \ {0}
    BY <1>0, <1>2, IncPagesScannedCounts DEF ScanPage, ShiftsLeft
  <2>3. MayMiss = IF acct.pages_scanned < U64_MAX \/ acct'.pages_scanned_base = 0
                    THEN {0} ELSE 0 .. 2 * u - 1
    BY DEF MayMiss
  <2> HIDE DEF u
  <2>4. EverScanned(acct) + 1 - EverScanned(acct') \in MayMiss
    BY <1>1, <2>2, <2>3
  <2> QED
    BY <1>1, <2>1, <2>4
<1>3. ASSUME NEW d \in 1 .. pos_left, Credit(d)
      PROVE  EverScanned(acct') = EverScanned(acct) /\ total'.pages = total.pages
  <2>1. d \in Nat
    BY CostAssumption DEF BenefitInv, BenefitTypeOK
  <2> QED
    BY <1>0, <1>3, <2>1, ChargesKeepCount DEF Credit
<1>4. ASSUME NEW d \in 1 .. neg_left, Charge(d)
      PROVE  EverScanned(acct') = EverScanned(acct) /\ total'.pages = total.pages
  <2>1. d \in Nat
    BY U64Assumption DEF BenefitInv, BenefitTypeOK
  <2> QED
    BY <1>0, <1>4, <2>1, ChargesKeepCount DEF Charge
<1>5. ASSUME EndRound PROVE EverScanned(acct') = EverScanned(acct) /\ total'.pages = 0
  BY <1>0, <1>5, ResetKeepsCount DEF EndRound, NoCharge
<1>6. ASSUME UNCHANGED benefitVars
      PROVE  EverScanned(acct') = EverScanned(acct) /\ total'.pages = total.pages
  BY <1>6 DEF benefitVars
<1>7. ASSUME EverScanned(acct') = EverScanned(acct), total'.pages \in {0, total.pages}
      PROVE  PagesScanned' = PagesScanned /\ ~(total'.pages > total.pages)
  BY <1>0, <1>1, <1>7
<1> QED
  BY <1>2, <1>3, <1>4, <1>5, <1>6, <1>7 DEF BenefitNext

(* A page is counted once: through the wrap of uksm_pages_scanned no call    *)
(* makes the total jump ahead or back, and what the scaling of              *)
(* pages_scanned_stored drops at a wrap stays below two units.              *)
THEOREM PagesCountedOnce == BenefitSpec => PagesAreCountedOnce
<1>1. BenefitInv /\ [BenefitNext]_benefitVars =>
        [IF total'.pages > total.pages
           THEN PagesScanned + 1 - PagesScanned' \in MayMiss
           ELSE PagesScanned' = PagesScanned
        ]_benefitVars
  BY CountStep
<1> QED
  BY <1>1, BenefitInvInit, BenefitInvStep, PTL DEF BenefitSpec, PagesAreCountedOnce
-----------------------------------------------------------------------------
(* BUG_ON(!benefit.scanned).                                                *)
(*                                                                          *)
(* A count of pages that is halved to nothing would need sums that overflow *)
(* although few pages are counted.  What rules this out is that a sum is    *)
(* never more than so much for each page counted.  Each encoding may lose   *)
(* the remainder of a shift on the side of the pages, but one that a full   *)
(* counter forces comes with so many pages that it makes up for that, and   *)
(* the one at the wrap of uksm_pages_scanned, which may come with a single  *)
(* page, is followed by such an encoding, or by a full turn of the counter. *)

RatePos == POS_PER_PAGE
RateNeg == NEG_PER_PAGE + NEG_PER_REBUILD

(* What a page charges is little against the width, even after as many      *)
(* halvings as a round may see.                                             *)
CostsAreSmall ==
  /\ 3 <= U64_MAX /\ 2 ^ BASE_MAX <= U64_MAX
  /\ 9 * RatePos <= U64_MAX /\ RatePos * 2 ^ BASE_MAX <= U64_MAX
  /\ 9 * RateNeg <= U64_MAX /\ RateNeg * 2 ^ BASE_MAX <= U64_MAX

(* Since a wrap of uksm_pages_scanned nothing has been encoded. *)
Debt(a) == IF a.pages_scanned_last = 0 THEN 1 ELSE 0
SumCovered(r, sum, s, e) == sum <= r * (3 * s + 3 + e)
RunCovered(r, run, left, fresh) == run + left <= r * (fresh + 1)
Bounded(r, run, fresh) == run <= r * (fresh + 1)
(* What an encoding keeps of a count that is already scaled. *)
Halved(s, h) == IF h = 0 THEN s ELSE s \div 2
(* The encoding counts a page, or there was no debt and one may begin. *)
Pays(q, e, f) == e <= 1 /\ (q >= 1 \/ (e = 0 /\ f = 1))

SumsCovered(a) ==
  /\ SumCovered(RatePos, a.benefit_pos, a.benefit_scanned, Debt(a))
  /\ SumCovered(RateNeg, a.benefit_neg, a.benefit_scanned, Debt(a))
RunsCovered(a, p, n) ==
  /\ RunCovered(RatePos, a.rshash_pos, p, Fresh(a))
  /\ RunCovered(RateNeg, a.rshash_neg, n, Fresh(a))
Counts(a) == a.benefit_base > 0 => a.benefit_scanned > 0

(* What is still to be charged for the page or the rebuild in progress. *)
LeftsAreSmall == pos_left <= RatePos /\ neg_left <= RateNeg

CoverInv ==
  /\ BenefitInv /\ LeftsAreSmall
  /\ SumsCovered(acct) /\ RunsCovered(acct, pos_left, neg_left) /\ Counts(acct)

(* Arithmetic. *)
LEMMA ProductGrows ==
  ASSUME NEW r \in Nat, NEW x \in Nat, NEW y \in Nat, x <= y
  PROVE  r * x \in Nat /\ r * y \in Nat /\ r * x <= r * y
OBVIOUS

LEMMA ProductReflects ==
  ASSUME NEW d \in Nat \ {0}, NEW x \in Nat, NEW y \in Nat, d * x <= d * y
  PROVE  x <= y
<1>1. CASE x > y
  <2>1. d * (y + 1) <= d * x
    BY <1>1, ProductGrows
  <2>2. d * (y + 1) = d * y + d /\ d * y \in Nat
    OBVIOUS
  <2> QED
    BY <2>1, <2>2
<1> QED
  BY <1>1

LEMMA QuotientIs ==
  ASSUME NEW x \in Nat, NEW d \in Nat \ {0}
  PROVE  /\ x \div d \in Nat
         /\ d * (x \div d) <= x /\ x + 1 <= d * (x \div d + 1)
OBVIOUS

LEMMA QuotientAtLeast ==
  ASSUME NEW x \in Nat, NEW d \in Nat \ {0}, NEW k \in Nat, k * d <= x
  PROVE  x \div d >= k
<1> DEFINE q == x \div d
<1>1. q \in Nat /\ x + 1 <= d * (q + 1)
  BY QuotientIs
<1> HIDE DEF q
<1>2. d * k <= d * (q + 1) /\ d * k # d * (q + 1)
  BY <1>1
<1>3. k <= q + 1 /\ k # q + 1
  BY <1>1, <1>2, ProductReflects
<1> QED
  BY <1>1, <1>3 DEF q

(* A division keeps the relation between charges and pages. *)
LEMMA QuotientCovered ==
  ASSUME NEW r \in Nat, NEW x \in Nat, NEW y \in Nat, NEW d \in Nat \ {0}, x <= r * (y + 1)
  PROVE  x \div d <= r * (y \div d + 1)
<1> DEFINE p == x \div d
           q == y \div d
<1>1. p \in Nat /\ d * p <= x
  BY QuotientIs
<1>2. q \in Nat /\ y + 1 <= d * (q + 1)
  BY QuotientIs
<1> HIDE DEF p, q
<1>3. r * (y + 1) <= r * (d * (q + 1)) /\ r * (y + 1) \in Nat /\ r * (q + 1) \in Nat
  BY <1>2, ProductGrows
<1>4. r * (d * (q + 1)) = d * (r * (q + 1))
  BY <1>2
<1>5. d * p <= d * (r * (q + 1))
  BY <1>1, <1>2, <1>3, <1>4
<1>6. p <= r * (q + 1)
  BY <1>1, <1>3, <1>5, ProductReflects
<1> QED
  BY <1>6 DEF p, q

(* The sum after an encoding that keeps what was there.                     *)
LEMMA KeptSumCovered ==
  ASSUME NEW r \in Nat, NEW sum \in Nat, NEW s \in Nat, NEW p \in Nat, NEW q \in Nat,
         NEW t \in Nat, NEW w \in Nat, NEW e \in Nat, NEW f \in Nat,
         SumCovered(r, sum, s, e), Bounded(r, p, q), Pays(q, e, f),
         t <= sum + p, s + q <= w
  PROVE  SumCovered(r, t, w, f)
<1>1. p <= r * (q + 1)
  BY DEF Bounded
<1>2. e <= 1 /\ (q >= 1 \/ (e = 0 /\ f = 1))
  BY DEF Pays
<1>3. sum <= r * (3 * s + 3 + e)
  BY DEF SumCovered
<1>4. r * (3 * s + 3 + e) + r * (q + 1) = r * ((3 * s + 3 + e) + (q + 1))
  BY <1>1
<1>5. (3 * s + 3 + e) + (q + 1) <= 3 * w + 3 + f
  BY <1>2
<1>6. r * ((3 * s + 3 + e) + (q + 1)) <= r * (3 * w + 3 + f)
  BY <1>5, ProductGrows
<1>7. r * (3 * s + 3 + e) \in Nat /\ r * (q + 1) \in Nat /\ r * (3 * w + 3 + f) \in Nat
  OBVIOUS
<1>8. t <= r * (3 * w + 3 + f)
  BY <1>1, <1>3, <1>4, <1>6, <1>7
<1> QED
  BY <1>8 DEF SumCovered

(* The sum after an encoding that halves it.                                *)
LEMMA HalvedSumCovered ==
  ASSUME NEW r \in Nat, NEW sum \in Nat, NEW s \in Nat, NEW p \in Nat, NEW q \in Nat,
         NEW t \in Nat, NEW w \in Nat, NEW e \in Nat, NEW f \in Nat,
         SumCovered(r, sum, s, e), Bounded(r, p, q), Pays(q, e, f),
         t <= sum \div 2 + p, s \div 2 + q <= w
  PROVE  SumCovered(r, t, w, f)
<1>1. p <= r * (q + 1)
  BY DEF Bounded
<1>2. e <= 1 /\ (q >= 1 \/ (e = 0 /\ f = 1))
  BY DEF Pays
<1>3. sum <= r * (3 * s + 3 + e)
  BY DEF SumCovered
<1> DEFINE x == 3 * w + 3 + f
<1>4. x \in Nat
  OBVIOUS
<1>5. r * (3 * s + 3 + e) + 2 * (r * (q + 1)) = r * ((3 * s + 3 + e) + 2 * (q + 1))
  OBVIOUS
<1>6. (3 * s + 3 + e) + 2 * (q + 1) <= 2 * x
  BY <1>2
<1>7. r * ((3 * s + 3 + e) + 2 * (q + 1)) <= r * (2 * x)
  BY <1>4, <1>6, ProductGrows
<1>8. r * (3 * s + 3 + e) \in Nat /\ r * (q + 1) \in Nat /\ r * x \in Nat /\ r * (2 * x) = 2 * (r * x)
  BY <1>4
<1>9. sum + 2 * p <= 2 * (r * x)
  BY <1>1, <1>3, <1>5, <1>7, <1>8
<1> HIDE DEF x
<1>10. t <= r * x
  BY <1>8, <1>9
<1> QED
  BY <1>10 DEF x, SumCovered

(* Sums that overflow come with pages that a halving leaves. *)
LEMMA OverflowHasPages ==
  ASSUME NEW r \in Nat, NEW sum \in Nat, NEW s \in Nat, NEW p \in Nat, NEW q \in Nat,
         NEW e \in 0 .. 1, NEW m \in Nat,
         SumCovered(r, sum, s, e), Bounded(r, p, q), 9 * r <= m, m < sum + p
  PROVE  s >= 2 \/ q >= 2
<1>1. p <= r * (q + 1)
  BY DEF Bounded
<1>2. sum <= r * (3 * s + 3 + e)
  BY DEF SumCovered
<1>3. ASSUME s <= 1, q <= 1 PROVE FALSE
  <2>1. r * (3 * s + 3 + e) <= r * 7 /\ r * (3 * s + 3 + e) \in Nat
    BY <1>3, ProductGrows
  <2>2. r * (q + 1) <= r * 2 /\ r * (q + 1) \in Nat
    BY <1>3, ProductGrows
  <2> QED
    BY <1>1, <1>2, <2>1, <2>2
<1> QED
  BY <1>3

(* A set of numbers that is not empty has a least one. *)
LEMMA LeastNumber ==
  ASSUME NEW T \in SUBSET Nat, T # {}
  PROVE  \E x \in T : \A y \in T : x <= y
<1> DEFINE R == {ss \in Nat \X Nat : ss[1] < ss[2]}
<1>1. IsWellFoundedOn(R, Nat)
  BY NatLessThanWellFounded DEF OpToRel
<1>2. \A x, y \in Nat : x < y => <<x, y>> \in R
  OBVIOUS
<1> HIDE DEF R
<1>3. PICK x \in T : \A y \in T : ~(<<y, x>> \in R)
  BY <1>1, WFMin
<1>4. \A y \in T : x <= y
  <2> TAKE y \in T
  <2>1. ~(y < x) /\ x \in Nat /\ y \in Nat
    BY <1>2, <1>3
  <2> QED BY <2>1
<1> QED BY <1>4

(* Powers of two grow with the exponent. *)
LEMMA PowersGrow ==
  ASSUME NEW k \in 0 .. BASE_MAX
  PROVE  2 ^ k <= 2 ^ BASE_MAX
<1> DEFINE Bad == {j \in Nat : j <= BASE_MAX /\ 2 ^ (BASE_MAX - j) > 2 ^ BASE_MAX}
<1>1. ASSUME Bad # {} PROVE FALSE
  <2>1. PICK j \in Bad : \A i \in Bad : j <= i
    BY <1>1, LeastNumber
  <2>2. j # 0
    BY BaseAssumption
  <2>3. j - 1 \in Nat /\ j - 1 \notin Bad /\ j <= BASE_MAX
    BY <2>1, <2>2
  <2>4. BASE_MAX - j \in 0 .. BASE_MAX /\ BASE_MAX - j + 1 = BASE_MAX - (j - 1)
    BY <2>3, BaseAssumption
  <2>5. 2 ^ (BASE_MAX - (j - 1)) = 2 * 2 ^ (BASE_MAX - j) /\ 2 ^ (BASE_MAX - j) \in Nat
    BY <2>4, BaseAssumption
  <2>6. BASE_MAX \in 0 .. BASE_MAX /\ 2 ^ BASE_MAX \in Nat
    BY BaseAssumption
  <2>7. 2 ^ (BASE_MAX - (j - 1)) <= 2 ^ BASE_MAX
    BY <2>3, <2>5, <2>6, BaseAssumption
  <2> QED
    BY <2>1, <2>5, <2>6, <2>7
<1>2. BASE_MAX - k \in Nat /\ BASE_MAX - k <= BASE_MAX /\ BASE_MAX - (BASE_MAX - k) = k
  BY BaseAssumption
<1>3. ~(2 ^ k > 2 ^ BASE_MAX)
  BY <1>1, <1>2
<1>4. 2 ^ k \in Nat /\ 2 ^ BASE_MAX \in Nat
  BY BaseAssumption
<1> QED
  BY <1>3, <1>4

-----------------------------------------------------------------------------
(* Encoding, with its counts of pages. *)

(* The count of pages is exact but for the remainders: the sum fits, since  *)
(* it is scaled when it would not.                                          *)
LEMMA ScannedIsExact ==
  ASSUME NEW a \in Accounts, a.pages_scanned_last <= a.pages_scanned,
         NEW h \in {0, 1}, a.benefit_base + h <= BASE_MAX + 1,
         h = 0 => ~Overflows(a)
  PROVE  /\ Scaled(a, 0).benefit_scanned = a.benefit_scanned + Shr(Fresh(a), a.benefit_base) \/ h = 1
         /\ h = 1 => Scaled(a, 1).benefit_scanned =
                       a.benefit_scanned \div 2 + Shr(Fresh(a), a.benefit_base + 1)
<1>1. Fresh(a) \in U64 /\ a.benefit_scanned \in U64 /\ a.benefit_base \in Nat
  BY FreshIsDifference DEF Accounts
<1>2. CASE h = 0
  <2>1. a.benefit_base \in 0 .. BASE_MAX + 1 /\ a.benefit_base + 0 = a.benefit_base
    BY <1>1, <1>2
  <2>2. Shr(Fresh(a), a.benefit_base) \in U64
    BY <1>1, <2>1, ShrIsU64
  <2>3. Shr(a.benefit_scanned, 0) = a.benefit_scanned
    BY <1>1, ShrZero DEF U64
  <2>4. a.benefit_scanned + Shr(Fresh(a), a.benefit_base) <= U64_MAX
    BY <1>1, <1>2, <2>2, U64Assumption DEF Overflows, CanOverflow, U64
  <2>5. Scaled(a, 0).benefit_scanned
          = Add(Shr(a.benefit_scanned, 0), Shr(Fresh(a), a.benefit_base + 0))
    BY ScaledFields
  <2> QED
    BY <1>1, <1>2, <2>1, <2>2, <2>3, <2>4, <2>5, AddIsExact DEF U64
<1>3. CASE h = 1
  <2>1. a.benefit_base + 1 \in 0 .. BASE_MAX + 1
    BY <1>1, <1>3
  <2>2. 2 ^ 1 = 2
    <3>1. 0 \in 0 .. BASE_MAX /\ 0 + 1 = 1
      BY BaseAssumption
    <3>2. 2 ^ (0 + 1) = 2 * 2 ^ 0
      BY <3>1, BaseAssumption
    <3> QED
      BY <3>1, <3>2, BaseAssumption
  <2>3. Shr(a.benefit_scanned, 1) = a.benefit_scanned \div 2
    BY <2>2 DEF Shr
  <2>4. \E b \in 0 .. BASE_MAX : a.benefit_base + 1 = b + 1
    BY <1>1, <1>3, BaseAssumption
  <2>5. PICK u \in Nat \ {0} : 2 ^ (a.benefit_base + 1) = 2 * u
    BY <2>4, BaseAssumption
  <2>6. Shr(Fresh(a), a.benefit_base + 1) = Fresh(a) \div (2 * u)
    BY <2>5 DEF Shr
  <2>7. 2 * (Fresh(a) \div (2 * u)) <= U64_MAX /\ Fresh(a) \div (2 * u) \in Nat
    <3>1. Fresh(a) \in Nat /\ Fresh(a) <= U64_MAX
      BY <1>1, U64Assumption DEF U64
    <3> DEFINE q == Fresh(a) \div (2 * u)
               x == Fresh(a)
    <3>0. 2 * u \in Nat \ {0}
      OBVIOUS
    <3>2. q \in Nat /\ (2 * u) * q <= x
      BY <3>0, <3>1, QuotientIs
    <3> HIDE DEF q, x
    <3>3. q * 2 <= q * (2 * u) /\ q * (2 * u) = (2 * u) * q
      BY <3>2, ProductGrows
    <3> QED
      BY <3>1, <3>2, <3>3, U64Assumption DEF q, x
  <2>8. a.benefit_scanned \div 2 \in Nat /\ 2 * (a.benefit_scanned \div 2) <= U64_MAX
    BY <1>1, U64Assumption DEF U64
  <2>9. Scaled(a, 1).benefit_scanned
          = Add(Shr(a.benefit_scanned, 1), Shr(Fresh(a), a.benefit_base + 1))
    BY ScaledFields
  <2>10. Add(a.benefit_scanned \div 2, Fresh(a) \div (2 * u))
           = a.benefit_scanned \div 2 + Fresh(a) \div (2 * u)
    BY <2>7, <2>8, AddIsExact, U64Assumption
  <2> QED
    BY <1>3, <2>3, <2>6, <2>9, <2>10
<1> QED
  BY <1>2, <1>3

(* One field of benefit, encoded. *)
LEMMA FieldCovered ==
  ASSUME NEW r \in Nat, NEW sum \in Nat, NEW run \in Nat, NEW s \in Nat,
         NEW fresh \in Nat, NEW w \in Nat, NEW e \in Nat, NEW f \in Nat,
         NEW h \in Nat, h <= 1, NEW k \in 0 .. BASE_MAX, NEW p, NEW q, NEW t,
         SumCovered(r, sum, s, e), Bounded(r, run, fresh),
         p = Shr(run, k), q = Shr(fresh, k), Pays(q, e, f),
         t = Add(Shr(sum, h), p), Halved(s, h) + q <= w
  PROVE  SumCovered(r, t, w, f)
<1>1. p \in Nat /\ q \in Nat /\ Bounded(r, p, q)
  <2>1. 2 ^ k \in Nat \ {0}
    BY PowerPositive, BaseAssumption
  <2> QED
    BY <2>1, QuotientIs, QuotientCovered DEF Shr, Bounded
<1>3. CASE h = 0
  <2>0. Shr(sum, 0) = sum
    BY ShrZero
  <2>1. t = Add(sum, p)
    BY <1>3, <2>0
  <2>2. t \in Nat /\ t <= sum + p
    BY <1>1, <2>1, AddIsU64
  <2>3. s + q <= w
    BY <1>3 DEF Halved
  <2> QED
    BY <1>1, <2>2, <2>3, KeptSumCovered
<1>4. CASE h = 1
  <2>1. Shr(sum, h) = sum \div 2
    <3>1. 0 \in 0 .. BASE_MAX /\ 0 + 1 = 1
      BY BaseAssumption
    <3>2. 2 ^ (0 + 1) = 2 * 2 ^ 0
      BY <3>1, BaseAssumption
    <3>3. 2 ^ 1 = 2
      BY <3>1, <3>2, BaseAssumption
    <3> QED
      BY <1>4, <3>3 DEF Shr
  <2>2. sum \div 2 \in Nat
    OBVIOUS
  <2>3. t = Add(sum \div 2, p)
    BY <2>1
  <2>4. t \in Nat /\ t <= sum \div 2 + p
    BY <1>1, <2>2, <2>3, AddIsU64
  <2>5. s \div 2 + q <= w
    BY <1>4 DEF Halved
  <2> QED
    BY <1>1, <2>4, <2>5, HalvedSumCovered
<1> QED
  BY <1>3, <1>4

(* An encoding of which a page is counted, or that begins a debt. *)
LEMMA EncodeCovers ==
  ASSUME NEW a \in Accounts, a.pages_scanned_last <= a.pages_scanned, a.benefit_base < BASE_MAX,
         NEW p \in Nat, NEW n \in Nat, SumsCovered(a), RunsCovered(a, p, n),
         Encodes(a), NEW f \in Nat,
         \/ Fresh(a) >= 2 ^ BASE_MAX
         \/ Debt(a) = 0 /\ f = 1
  PROVE  LET b == EncodeBenefit(a)
         IN /\ SumCovered(RatePos, b.benefit_pos, b.benefit_scanned, f)
            /\ SumCovered(RateNeg, b.benefit_neg, b.benefit_scanned, f)
<1>1. PICK h \in {0, 1} : EncodeBenefit(a) = Scaled(a, h) /\ (h = 1 <=> Overflows(a))
  BY DEF EncodeBenefit
<1> DEFINE k == a.benefit_base + h
           u == 2 ^ k
           b == Scaled(a, h)
<1>2. /\ k \in 0 .. BASE_MAX /\ k \in 0 .. BASE_MAX + 1 /\ BASE_MAX \in Nat
      /\ a.benefit_base \in Nat /\ k \in Nat
  BY BaseAssumption DEF Accounts
<1>3. u \in Nat \ {0}
  BY <1>2, PowerPositive
<1>4. /\ a.benefit_pos \in Nat /\ a.benefit_neg \in Nat /\ a.benefit_scanned \in Nat
      /\ a.rshash_pos \in Nat /\ a.rshash_neg \in Nat /\ Fresh(a) \in Nat
  BY FreshIsDifference, U64Assumption DEF Accounts, U64
<1>5. Debt(a) \in 0 .. 1 /\ RatePos \in Nat /\ RateNeg \in Nat
  BY CostAssumption, U64Assumption DEF Debt, RatePos, RateNeg
<1>6. /\ Bounded(RatePos, a.rshash_pos, Fresh(a))
      /\ Bounded(RateNeg, a.rshash_neg, Fresh(a))
  <2>1. RatePos * (Fresh(a) + 1) \in Nat /\ RateNeg * (Fresh(a) + 1) \in Nat
    BY <1>4, <1>5
  <2> QED
    BY <1>4, <2>1 DEF RunsCovered, RunCovered, Bounded
<1>7. Fresh(a) \div u >= 1 \/ (Debt(a) = 0 /\ f = 1)
  <2>1. CASE Fresh(a) >= 2 ^ BASE_MAX
    <3>1. u <= 2 ^ BASE_MAX
      BY <1>2, PowersGrow
    <3>2. 1 * u <= Fresh(a)
      BY <1>2, <1>3, <1>4, <2>1, <3>1, PowerPositive
    <3> QED
      BY <1>3, <1>4, <3>2, QuotientAtLeast
  <2> QED
    BY <2>1
<1>8. /\ b.benefit_pos = Add(Shr(a.benefit_pos, h), Shr(a.rshash_pos, k))
      /\ b.benefit_neg = Add(Shr(a.benefit_neg, h), Shr(a.rshash_neg, k))
      /\ b.benefit_scanned = Add(Shr(a.benefit_scanned, h), Shr(Fresh(a), k))
  BY ScaledFields
<1>9. b.benefit_scanned = Halved(a.benefit_scanned, h) + Shr(Fresh(a), k)
  <2>1. a.benefit_base + h <= BASE_MAX + 1 /\ (h = 0 => ~Overflows(a))
    BY <1>1, <1>2
  <2>2. /\ Scaled(a, 0).benefit_scanned = a.benefit_scanned + Shr(Fresh(a), a.benefit_base) \/ h = 1
        /\ h = 1 => Scaled(a, 1).benefit_scanned =
                       a.benefit_scanned \div 2 + Shr(Fresh(a), a.benefit_base + 1)
    BY <2>1, ScannedIsExact
  <2>3. h = 0 => k = a.benefit_base
    BY <1>2
  <2> QED
    BY <2>2, <2>3 DEF Halved
<1>10. b.benefit_scanned \in Nat
  <2>1. Shr(Fresh(a), k) \in Nat
    BY <1>3, <1>4, QuotientIs DEF Shr
  <2>2. a.benefit_scanned \div 2 \in Nat
    BY <1>4
  <2> HIDE DEF b, k
  <2> QED
    BY <1>4, <1>9, <2>1, <2>2 DEF Halved
<1>12. SumCovered(RatePos, a.benefit_pos, a.benefit_scanned, Debt(a))
       /\ SumCovered(RateNeg, a.benefit_neg, a.benefit_scanned, Debt(a))
  BY DEF SumsCovered
<1>14. Pays(Shr(Fresh(a), k), Debt(a), f)
  BY <1>5, <1>7 DEF Pays, Shr
<1> HIDE DEF b, k, u
<1>17. h \in Nat /\ h <= 1 /\ f \in Nat /\ Debt(a) \in Nat
  BY <1>5
<1>11. Halved(a.benefit_scanned, h) + Shr(Fresh(a), k) <= b.benefit_scanned
  BY <1>9, <1>10
<1>15. SumCovered(RatePos, b.benefit_pos, b.benefit_scanned, f)
  <2> DEFINE sum == a.benefit_pos
             run == a.rshash_pos
             s == a.benefit_scanned
             fresh == Fresh(a)
             e == Debt(a)
             dp == Shr(run, k)
             q == Shr(fresh, k)
             t == b.benefit_pos
             w == b.benefit_scanned
             r == RatePos
  <2>1. /\ r \in Nat /\ sum \in Nat /\ run \in Nat /\ s \in Nat /\ fresh \in Nat
        /\ w \in Nat /\ e \in Nat /\ f \in Nat /\ h \in Nat /\ k \in 0 .. BASE_MAX
    BY <1>2, <1>4, <1>5, <1>10, <1>17
  <2>2. /\ SumCovered(r, sum, s, e) /\ Bounded(r, run, fresh) /\ Pays(q, e, f)
    BY <1>6, <1>12, <1>14
  <2>3. /\ dp = Shr(run, k) /\ q = Shr(fresh, k) /\ t = Add(Shr(sum, h), dp)
    BY <1>8
  <2>4. h <= 1
    BY <1>17
  <2>5. Halved(s, h) + q <= w
    BY <1>11
  <2> HIDE DEF r, sum, run, s, fresh, e, dp, q, t, w
  <2>6. SumCovered(r, t, w, f)
    BY <2>1, <2>2, <2>3, <2>4, <2>5, FieldCovered
  <2> QED
    BY <2>6 DEF r, t, w
<1>16. SumCovered(RateNeg, b.benefit_neg, b.benefit_scanned, f)
  <2> DEFINE sum == a.benefit_neg
             run == a.rshash_neg
             s == a.benefit_scanned
             fresh == Fresh(a)
             e == Debt(a)
             dp == Shr(run, k)
             q == Shr(fresh, k)
             t == b.benefit_neg
             w == b.benefit_scanned
             r == RateNeg
  <2>1. /\ r \in Nat /\ sum \in Nat /\ run \in Nat /\ s \in Nat /\ fresh \in Nat
        /\ w \in Nat /\ e \in Nat /\ f \in Nat /\ h \in Nat /\ k \in 0 .. BASE_MAX
    BY <1>2, <1>4, <1>5, <1>10, <1>17
  <2>2. /\ SumCovered(r, sum, s, e) /\ Bounded(r, run, fresh) /\ Pays(q, e, f)
    BY <1>6, <1>12, <1>14
  <2>3. /\ dp = Shr(run, k) /\ q = Shr(fresh, k) /\ t = Add(Shr(sum, h), dp)
    BY <1>8
  <2>4. h <= 1
    BY <1>17
  <2>5. Halved(s, h) + q <= w
    BY <1>11
  <2> HIDE DEF r, sum, run, s, fresh, e, dp, q, t, w
  <2>6. SumCovered(r, t, w, f)
    BY <2>1, <2>2, <2>3, <2>4, <2>5, FieldCovered
  <2> QED
    BY <2>6 DEF r, t, w
<1> QED
  BY <1>1, <1>15, <1>16 DEF b

(* No encoding leaves the count of pages at zero. *)
LEMMA EncodeCounts ==
  ASSUME CostsAreSmall,
         NEW a \in Accounts, a.pages_scanned_last <= a.pages_scanned,
         NEW p \in Nat, NEW n \in Nat, SumsCovered(a), RunsCovered(a, p, n), Counts(a),
         Encodes(a)
  PROVE  EncodeBenefit(a).benefit_scanned > 0
<1> DEFINE k == a.benefit_base
           u == 2 ^ k
           s == a.benefit_scanned
<1>1. /\ k \in 0 .. BASE_MAX /\ k \in 0 .. BASE_MAX + 1 /\ BASE_MAX \in Nat /\ k + 1 <= BASE_MAX + 1
      /\ k + 0 = k /\ k \in Nat
  BY BaseAssumption DEF Accounts
<1>2. u \in Nat \ {0} /\ 2 ^ (k + 1) = 2 * u
  BY <1>1, BaseAssumption
<1>3. /\ a.benefit_pos \in Nat /\ a.benefit_neg \in Nat /\ s \in Nat
      /\ a.rshash_pos \in Nat /\ a.rshash_neg \in Nat /\ Fresh(a) \in Nat
      /\ Fresh(a) # 0
  BY FreshIsDifference, U64Assumption DEF Accounts, U64, Encodes
<1>4. Debt(a) \in 0 .. 1 /\ RatePos \in Nat /\ RateNeg \in Nat
  BY CostAssumption, U64Assumption DEF Debt, RatePos, RateNeg
<1>5. /\ Bounded(RatePos, a.rshash_pos, Fresh(a))
      /\ Bounded(RateNeg, a.rshash_neg, Fresh(a))
  <2>1. RatePos * (Fresh(a) + 1) \in Nat /\ RateNeg * (Fresh(a) + 1) \in Nat
    BY <1>3, <1>4
  <2> QED
    BY <1>3, <2>1 DEF RunsCovered, RunCovered, Bounded
<1>6. \A x \in Nat : Shr(x, k) = x \div u /\ Shr(x, k) \in Nat
  BY <1>2, QuotientIs DEF Shr
<1>7. CASE ~Overflows(a)
  <2>1. EncodeBenefit(a) = Scaled(a, 0)
    BY <1>7 DEF EncodeBenefit
  <2>2. Scaled(a, 0).benefit_scanned = s + Shr(Fresh(a), k)
    <3>1. k + 0 <= BASE_MAX + 1
      BY <1>1
    <3> QED
      BY <1>7, <3>1, ScannedIsExact
  <2>3. CASE k = 0
    <3>1. Shr(Fresh(a), k) = Fresh(a)
      BY <1>3, <2>3, ShrZero
    <3> QED
      BY <1>3, <2>1, <2>2, <3>1
  <2>4. CASE k # 0
    <3>1. s > 0
      BY <1>1, <2>4 DEF Counts
    <3> QED
      BY <1>3, <1>6, <2>1, <2>2, <3>1
  <2> QED
    BY <2>3, <2>4
<1>8. CASE Overflows(a)
  <2>1. EncodeBenefit(a) = Scaled(a, 1)
    BY <1>8 DEF EncodeBenefit
  <2>2. Scaled(a, 1).benefit_scanned = s \div 2 + Shr(Fresh(a), k + 1)
    BY <1>1, ScannedIsExact
  <2> DEFINE q == Fresh(a) \div u
  <2>3. q \in Nat /\ u * q <= Fresh(a)
    BY <1>2, <1>3, QuotientIs
  <2>4. s >= 2 \/ q >= 2
    <3>1. CASE CanOverflow(a.benefit_pos, Shr(a.rshash_pos, k))
      <4> DEFINE p2 == a.rshash_pos \div u
      <4>0. p2 \in Nat /\ Bounded(RatePos, p2, q)
        BY <1>2, <1>3, <1>4, <1>5, QuotientIs, QuotientCovered DEF Bounded
      <4>1. U64_MAX < a.benefit_pos + p2
        BY <1>3, <1>6, <3>1, U64Assumption DEF CanOverflow
      <4>2. 9 * RatePos <= U64_MAX /\ U64_MAX \in Nat
        BY U64Assumption DEF CostsAreSmall
      <4>3. SumCovered(RatePos, a.benefit_pos, s, Debt(a))
        BY DEF SumsCovered
      <4> HIDE DEF u, s, p2, q
      <4> QED
        BY <1>3, <1>4, <2>3, <4>0, <4>1, <4>2, <4>3, OverflowHasPages
    <3>2. CASE CanOverflow(a.benefit_neg, Shr(a.rshash_neg, k))
      <4> DEFINE p2 == a.rshash_neg \div u
      <4>0. p2 \in Nat /\ Bounded(RateNeg, p2, q)
        BY <1>2, <1>3, <1>4, <1>5, QuotientIs, QuotientCovered DEF Bounded
      <4>1. U64_MAX < a.benefit_neg + p2
        BY <1>3, <1>6, <3>2, U64Assumption DEF CanOverflow
      <4>2. 9 * RateNeg <= U64_MAX /\ U64_MAX \in Nat
        BY U64Assumption DEF CostsAreSmall
      <4>3. SumCovered(RateNeg, a.benefit_neg, s, Debt(a))
        BY DEF SumsCovered
      <4> HIDE DEF u, s, p2, q
      <4> QED
        BY <1>3, <1>4, <2>3, <4>0, <4>1, <4>2, <4>3, OverflowHasPages
    <3>3. CASE CanOverflow(s, Shr(Fresh(a), k))
      <4>1. U64_MAX < s + q /\ 3 <= U64_MAX
        BY <1>3, <1>6, <3>3, U64Assumption DEF CanOverflow, CostsAreSmall
      <4> HIDE DEF q, s
      <4> QED
        BY <1>3, <2>3, <4>1, U64Assumption
    <3> QED
      BY <1>8, <3>1, <3>2, <3>3 DEF Overflows
  <2>5. Shr(Fresh(a), k + 1) = Fresh(a) \div (2 * u) /\ Fresh(a) \div (2 * u) \in Nat
    <3>1. 2 * u \in Nat \ {0}
      BY <1>2
    <3> QED
      BY <1>2, <1>3, <3>1, QuotientIs DEF Shr
  <2>6. CASE s >= 2
    <3>1. s \div 2 >= 1
      BY <1>3, <2>6
    <3> QED
      BY <1>3, <2>1, <2>2, <2>5, <3>1
  <2>7. CASE q >= 2
    <3>1. u * 2 <= u * q
      BY <1>2, <2>3, <2>7, ProductGrows
    <3>2. 1 * (2 * u) <= Fresh(a) /\ 2 * u \in Nat \ {0}
      <4> HIDE DEF q, u
      <4> QED
        BY <1>2, <1>3, <2>3, <3>1
    <3>3. Fresh(a) \div (2 * u) >= 1
      BY <1>3, <3>2, QuotientAtLeast
    <3>4. s \div 2 \in Nat
      BY <1>3
    <3> QED
      BY <2>1, <2>2, <2>5, <3>3, <3>4
  <2> QED
    BY <2>4, <2>6, <2>7
<1> QED
  BY <1>7, <1>8

(* A charge forces an encoding only once there are pages for any shift. *)
LEMMA ForcedHasPages ==
  ASSUME NEW r \in Nat, NEW run \in Nat, NEW left \in Nat, NEW fresh \in Nat,
         NEW u \in Nat, NEW m \in Nat,
         RunCovered(r, run, left, fresh), r * u <= m, m < run + left
  PROVE  fresh >= u
<1>1. run + left <= r * (fresh + 1)
  BY DEF RunCovered
<1>2. CASE fresh < u
  <2>1. r * (fresh + 1) <= r * u /\ r * (fresh + 1) \in Nat /\ r * u \in Nat
    BY <1>2, ProductGrows
  <2> QED
    BY <1>1, <2>1
<1> QED
  BY <1>2

(* A weaker bound on the sum. *)
LEMMA SumCoveredGrows ==
  ASSUME NEW r \in Nat, NEW sum \in Nat, NEW s \in Nat, NEW e \in Nat, NEW f \in Nat,
         SumCovered(r, sum, s, e), e <= f
  PROVE  SumCovered(r, sum, s, f)
<1>1. r * (3 * s + 3 + e) <= r * (3 * s + 3 + f)
      /\ r * (3 * s + 3 + e) \in Nat /\ r * (3 * s + 3 + f) \in Nat
  BY ProductGrows
<1> QED
  BY <1>1 DEF SumCovered

(* The rates are numbers. *)
LEMMA RatesAreNat == RatePos \in Nat /\ RateNeg \in Nat
BY CostAssumption, U64Assumption DEF RatePos, RateNeg

(* The fields as numbers. *)
LEMMA FieldsAreNat ==
  ASSUME NEW a \in Accounts, a.pages_scanned_last <= a.pages_scanned
  PROVE  /\ a.rshash_pos \in Nat /\ a.rshash_neg \in Nat
         /\ a.benefit_pos \in Nat /\ a.benefit_neg \in Nat /\ a.benefit_scanned \in Nat
         /\ a.pages_scanned \in Nat /\ a.pages_scanned_last \in Nat
         /\ Fresh(a) \in Nat /\ Fresh(a) = a.pages_scanned - a.pages_scanned_last
         /\ Debt(a) \in Nat /\ Debt(a) <= 1
BY FreshIsDifference, U64Assumption DEF Accounts, U64, Debt

(* The relation between charges and pages survives an encoding that a       *)
(* charge forces.                                                           *)
LEMMA ForcedEncodingCovers ==
  ASSUME CostsAreSmall,
         NEW a \in Accounts, a.pages_scanned_last <= a.pages_scanned, a.benefit_base < BASE_MAX,
         NEW p \in Nat, NEW n \in Nat, p <= RatePos, n <= RateNeg,
         SumsCovered(a), RunsCovered(a, p, n), Counts(a),
         Encodes(a), Fresh(a) >= 2 ^ BASE_MAX
  PROVE  LET b == EncodeBenefit(a)
         IN SumsCovered(b) /\ RunsCovered(b, p, n) /\ Counts(b)
<1> DEFINE b == EncodeBenefit(a)
<1>1. /\ b \in Accounts /\ b.pages_scanned_last = b.pages_scanned
      /\ b.rshash_pos = 0 /\ b.rshash_neg = 0
  BY EncodeFacts
<1>2. b.benefit_scanned > 0
  BY EncodeCounts
<1>3. 0 \in {0, 1}
  OBVIOUS
<1>4. /\ SumCovered(RatePos, b.benefit_pos, b.benefit_scanned, 0)
      /\ SumCovered(RateNeg, b.benefit_neg, b.benefit_scanned, 0)
  BY <1>3, EncodeCovers
<1> HIDE DEF b
<1>5. b.pages_scanned_last <= b.pages_scanned
  BY <1>1, U64Assumption DEF Accounts, U64
<1>6. /\ b.benefit_pos \in Nat /\ b.benefit_neg \in Nat /\ b.benefit_scanned \in Nat
      /\ Fresh(b) \in Nat /\ Fresh(b) = b.pages_scanned - b.pages_scanned_last
      /\ b.pages_scanned \in Nat /\ Debt(b) \in Nat /\ 0 <= Debt(b)
  BY <1>1, <1>5, FieldsAreNat
<1>7. Fresh(b) = 0
  BY <1>1, <1>6
<1>8. SumsCovered(b)
  BY <1>4, <1>6, RatesAreNat, SumCoveredGrows DEF SumsCovered
<1>9. RunsCovered(b, p, n)
  BY <1>1, <1>7, RatesAreNat DEF RunsCovered, RunCovered
<1>10. Counts(b)
  BY <1>2 DEF Counts
<1> QED
  BY <1>8, <1>9, <1>10 DEF b

(* inc_rshash_pos. *)
LEMMA IncRshashPosCovers ==
  ASSUME CostsAreSmall,
         NEW a \in Accounts, a.pages_scanned_last <= a.pages_scanned, a.benefit_base < BASE_MAX,
         NEW p \in Nat, NEW n \in Nat, p <= RatePos, n <= RateNeg,
         SumsCovered(a), RunsCovered(a, p, n), Counts(a),
         NEW d \in Nat, d <= p, NEW q \in Nat, q = p - d
  PROVE  LET b == IncRshashPos(a, d)
         IN SumsCovered(b) /\ RunsCovered(b, q, n) /\ Counts(b)
<1> DEFINE full == CanOverflow(a.rshash_pos, d)
           e == EncodeIf(full, a)
           b == IncRshashPos(a, d)
<1>1. e \in Accounts /\ SumsCovered(e) /\ RunsCovered(e, p, n) /\ Counts(e)
  <2>1. CASE full /\ Encodes(a)
    <3>1. U64_MAX \in Nat /\ U64_MAX < a.rshash_pos + p
      BY <2>1, FieldsAreNat, U64Assumption DEF CanOverflow
    <3>2. 2 ^ BASE_MAX \in Nat /\ RatePos * 2 ^ BASE_MAX <= U64_MAX
      BY BaseAssumption DEF CostsAreSmall
    <3>3. RunCovered(RatePos, a.rshash_pos, p, Fresh(a))
      BY DEF RunsCovered
    <3>4. a.rshash_pos \in Nat /\ Fresh(a) \in Nat /\ RatePos \in Nat
      BY FieldsAreNat, RatesAreNat
    <3>5. Fresh(a) >= 2 ^ BASE_MAX
      BY <3>1, <3>2, <3>3, <3>4, ForcedHasPages
    <3>6. e = EncodeBenefit(a)
      BY <2>1 DEF EncodeIf
    <3> HIDE DEF e
    <3>7. SumsCovered(EncodeBenefit(a)) /\ RunsCovered(EncodeBenefit(a), p, n)
          /\ Counts(EncodeBenefit(a))
      BY <2>1, <3>5, ForcedEncodingCovers
    <3> QED
      BY <3>6, <3>7, EncodeFacts
  <2>2. CASE ~(full /\ Encodes(a))
    <3>1. e = a
      BY <2>2 DEF EncodeIf, EncodeBenefit
    <3> QED
      BY <3>1
  <2> QED
    BY <2>1, <2>2
<1>2. b = [e EXCEPT !.rshash_pos = Add(e.rshash_pos, d)]
  BY DEF IncRshashPos
<1> HIDE DEF e, b
<1>3. /\ b.rshash_pos = Add(e.rshash_pos, d) /\ b.rshash_neg = e.rshash_neg
      /\ b.benefit_pos = e.benefit_pos /\ b.benefit_neg = e.benefit_neg
      /\ b.benefit_scanned = e.benefit_scanned /\ b.benefit_base = e.benefit_base
      /\ b.pages_scanned = e.pages_scanned /\ b.pages_scanned_last = e.pages_scanned_last
  BY <1>1, <1>2 DEF Accounts
<1>4. e.rshash_pos \in Nat /\ Add(e.rshash_pos, d) \in Nat
      /\ Add(e.rshash_pos, d) <= e.rshash_pos + d
  <2>1. e.rshash_pos \in Nat
    BY <1>1, U64Assumption DEF Accounts, U64
  <2> QED
    BY <2>1, AddIsU64
<1>5. Fresh(b) = Fresh(e) /\ Debt(b) = Debt(e)
  BY <1>3 DEF Fresh, Debt
<1>6. SumsCovered(b) /\ Counts(b)
  BY <1>1, <1>3, <1>5 DEF SumsCovered, Counts
<1>7. Fresh(e) \in Nat
  BY <1>1, U64Assumption DEF Fresh, Sub, Accounts, U64
<1>8. RunCovered(RatePos, b.rshash_pos, q, Fresh(b))
  <2>1. e.rshash_pos + p <= RatePos * (Fresh(e) + 1) /\ RatePos * (Fresh(e) + 1) \in Nat
    BY <1>1, <1>7, RatesAreNat DEF RunsCovered, RunCovered
  <2>2. b.rshash_pos \in Nat /\ b.rshash_pos + q <= e.rshash_pos + p
    BY <1>3, <1>4
  <2>3. b.rshash_pos + q <= RatePos * (Fresh(b) + 1)
    BY <1>4, <1>5, <2>1, <2>2
  <2> QED
    BY <2>3 DEF RunCovered
<1>9. RunsCovered(b, q, n)
  BY <1>1, <1>3, <1>5, <1>8 DEF RunsCovered
<1> QED
  BY <1>6, <1>9 DEF b

(* inc_rshash_neg. *)
LEMMA IncRshashNegCovers ==
  ASSUME CostsAreSmall,
         NEW a \in Accounts, a.pages_scanned_last <= a.pages_scanned, a.benefit_base < BASE_MAX,
         NEW p \in Nat, NEW n \in Nat, p <= RatePos, n <= RateNeg,
         SumsCovered(a), RunsCovered(a, p, n), Counts(a),
         NEW d \in Nat, d <= n, NEW q \in Nat, q = n - d
  PROVE  LET b == IncRshashNeg(a, d)
         IN SumsCovered(b) /\ RunsCovered(b, p, q) /\ Counts(b)
<1> DEFINE full == CanOverflow(a.rshash_neg, d)
           e == EncodeIf(full, a)
           b == IncRshashNeg(a, d)
<1>1. e \in Accounts /\ SumsCovered(e) /\ RunsCovered(e, p, n) /\ Counts(e)
  <2>1. CASE full /\ Encodes(a)
    <3>1. U64_MAX \in Nat /\ U64_MAX < a.rshash_neg + n
      BY <2>1, FieldsAreNat, U64Assumption DEF CanOverflow
    <3>2. 2 ^ BASE_MAX \in Nat /\ RateNeg * 2 ^ BASE_MAX <= U64_MAX
      BY BaseAssumption DEF CostsAreSmall
    <3>3. RunCovered(RateNeg, a.rshash_neg, n, Fresh(a))
      BY DEF RunsCovered
    <3>4. a.rshash_neg \in Nat /\ Fresh(a) \in Nat /\ RateNeg \in Nat
      BY FieldsAreNat, RatesAreNat
    <3>5. Fresh(a) >= 2 ^ BASE_MAX
      BY <3>1, <3>2, <3>3, <3>4, ForcedHasPages
    <3>6. e = EncodeBenefit(a)
      BY <2>1 DEF EncodeIf
    <3> HIDE DEF e
    <3>7. SumsCovered(EncodeBenefit(a)) /\ RunsCovered(EncodeBenefit(a), p, n)
          /\ Counts(EncodeBenefit(a))
      BY <2>1, <3>5, ForcedEncodingCovers
    <3> QED
      BY <3>6, <3>7, EncodeFacts
  <2>2. CASE ~(full /\ Encodes(a))
    <3>1. e = a
      BY <2>2 DEF EncodeIf, EncodeBenefit
    <3> QED
      BY <3>1
  <2> QED
    BY <2>1, <2>2
<1>2. b = [e EXCEPT !.rshash_neg = Add(e.rshash_neg, d)]
  BY DEF IncRshashNeg
<1> HIDE DEF e, b
<1>3. /\ b.rshash_neg = Add(e.rshash_neg, d) /\ b.rshash_pos = e.rshash_pos
      /\ b.benefit_pos = e.benefit_pos /\ b.benefit_neg = e.benefit_neg
      /\ b.benefit_scanned = e.benefit_scanned /\ b.benefit_base = e.benefit_base
      /\ b.pages_scanned = e.pages_scanned /\ b.pages_scanned_last = e.pages_scanned_last
  BY <1>1, <1>2 DEF Accounts
<1>4. e.rshash_neg \in Nat /\ Add(e.rshash_neg, d) \in Nat
      /\ Add(e.rshash_neg, d) <= e.rshash_neg + d
  <2>1. e.rshash_neg \in Nat
    BY <1>1, U64Assumption DEF Accounts, U64
  <2> QED
    BY <2>1, AddIsU64
<1>5. Fresh(b) = Fresh(e) /\ Debt(b) = Debt(e)
  BY <1>3 DEF Fresh, Debt
<1>6. SumsCovered(b) /\ Counts(b)
  BY <1>1, <1>3, <1>5 DEF SumsCovered, Counts
<1>7. Fresh(e) \in Nat
  BY <1>1, U64Assumption DEF Fresh, Sub, Accounts, U64
<1>8. RunCovered(RateNeg, b.rshash_neg, q, Fresh(b))
  <2>1. e.rshash_neg + n <= RateNeg * (Fresh(e) + 1) /\ RateNeg * (Fresh(e) + 1) \in Nat
    BY <1>1, <1>7, RatesAreNat DEF RunsCovered, RunCovered
  <2>2. b.rshash_neg \in Nat /\ b.rshash_neg + q <= e.rshash_neg + n
    BY <1>3, <1>4
  <2>3. b.rshash_neg + q <= RateNeg * (Fresh(b) + 1)
    BY <1>4, <1>5, <2>1, <2>2
  <2> QED
    BY <2>3 DEF RunCovered
<1>9. RunsCovered(b, p, q)
  BY <1>1, <1>3, <1>5, <1>8 DEF RunsCovered
<1> QED
  BY <1>6, <1>9 DEF b

(* One more page, and what it may charge. *)
LEMMA RunCoversPage ==
  ASSUME NEW r \in Nat, NEW run \in Nat, NEW left \in Nat, NEW fresh \in Nat,
         RunCovered(r, run, left, fresh), NEW p \in Nat, p <= r
  PROVE  RunCovered(r, run, p, fresh + 1)
<1>1. run + left <= r * (fresh + 1) /\ r * (fresh + 1) \in Nat
  BY DEF RunCovered
<1>2. r * (fresh + 1 + 1) = r * (fresh + 1) + r
  OBVIOUS
<1>3. run + p <= r * (fresh + 1 + 1)
  BY <1>1, <1>2
<1> QED
  BY <1>3 DEF RunCovered

(* The encoding at a wrap: that of a full counter after a wrap before, or   *)
(* one that begins a debt.                                                  *)
LEMMA WrapEncodingCovers ==
  ASSUME CostsAreSmall,
         NEW a \in Accounts, a.pages_scanned_last <= a.pages_scanned, a.benefit_base < BASE_MAX,
         NEW p \in Nat, NEW n \in Nat,
         SumsCovered(a), RunsCovered(a, p, n), Counts(a), a.pages_scanned = U64_MAX
  PROVE  LET b == EncodeBenefit(a)
         IN /\ SumCovered(RatePos, b.benefit_pos, b.benefit_scanned, 1)
            /\ SumCovered(RateNeg, b.benefit_neg, b.benefit_scanned, 1)
            /\ Counts(b)
<1>0. /\ a.benefit_pos \in Nat /\ a.benefit_neg \in Nat /\ a.benefit_scanned \in Nat
      /\ Fresh(a) = a.pages_scanned - a.pages_scanned_last
      /\ Debt(a) \in Nat /\ Debt(a) <= 1 /\ 1 \in Nat
  BY FieldsAreNat
<1>1. CASE Encodes(a)
  <2>1. Fresh(a) >= 2 ^ BASE_MAX \/ Debt(a) = 0
    <3>1. CASE a.pages_scanned_last = 0
      <4>1. Fresh(a) = U64_MAX /\ 2 ^ BASE_MAX <= U64_MAX
        BY <1>0, <3>1, U64Assumption DEF CostsAreSmall
      <4> QED
        BY <4>1, U64Assumption, BaseAssumption
    <3>2. CASE a.pages_scanned_last # 0
      BY <3>2 DEF Debt
    <3> QED
      BY <3>1, <3>2
  <2>2. 1 \in {0, 1}
    OBVIOUS
  <2>3. EncodeBenefit(a).benefit_scanned > 0
    BY <1>1, EncodeCounts
  <2> QED
    BY <1>1, <2>1, <2>2, <2>3, EncodeCovers DEF Counts
<1>2. CASE ~Encodes(a)
  <2>1. EncodeBenefit(a) = a
    BY <1>2 DEF EncodeBenefit
  <2>2. /\ SumCovered(RatePos, a.benefit_pos, a.benefit_scanned, Debt(a))
        /\ SumCovered(RateNeg, a.benefit_neg, a.benefit_scanned, Debt(a))
    BY DEF SumsCovered
  <2>3. /\ SumCovered(RatePos, a.benefit_pos, a.benefit_scanned, 1)
        /\ SumCovered(RateNeg, a.benefit_neg, a.benefit_scanned, 1)
    BY <1>0, <2>2, RatesAreNat, SumCoveredGrows
  <2> QED
    BY <2>1, <2>3
<1> QED
  BY <1>1, <1>2

(* inc_uksm_pages_scanned. *)
LEMMA IncPagesScannedCovers ==
  ASSUME CostsAreSmall,
         NEW a \in Accounts, a.pages_scanned_last <= a.pages_scanned,
         a.benefit_base < BASE_MAX, a.pages_scanned_base < BASE_MAX,
         NEW p \in Nat, NEW n \in Nat,
         SumsCovered(a), RunsCovered(a, p, n), Counts(a)
  PROVE  LET b == IncPagesScanned(a)
         IN SumsCovered(b) /\ RunsCovered(b, POS_PER_PAGE, NEG_PER_PAGE) /\ Counts(b)
<1> DEFINE b == IncPagesScanned(a)
<1>1. /\ POS_PER_PAGE \in Nat /\ NEG_PER_PAGE \in Nat
      /\ POS_PER_PAGE <= RatePos /\ NEG_PER_PAGE <= RateNeg
  BY CostAssumption, U64Assumption DEF RatePos, RateNeg
<1>2. /\ b \in Accounts /\ b.pages_scanned_last <= b.pages_scanned
  <2>1. b \in Accounts /\ b.pages_scanned_last < b.pages_scanned
    BY IncPagesScannedFacts
  <2> HIDE DEF b
  <2> QED
    BY <2>1, U64Assumption DEF Accounts, U64
<1>3. /\ a.rshash_pos \in Nat /\ a.rshash_neg \in Nat /\ Fresh(a) \in Nat
      /\ Fresh(a) = a.pages_scanned - a.pages_scanned_last
      /\ a.pages_scanned \in Nat /\ a.pages_scanned_last \in Nat
  BY FieldsAreNat
<1>4. Fresh(b) = b.pages_scanned - b.pages_scanned_last
  BY <1>2, FreshIsDifference
<1>5. CASE a.pages_scanned # U64_MAX
  <2>1. b = [a EXCEPT !.pages_scanned = a.pages_scanned + 1]
    BY <1>5 DEF IncPagesScanned
  <2> HIDE DEF b
  <2>2. /\ b.pages_scanned = a.pages_scanned + 1
        /\ b.pages_scanned_last = a.pages_scanned_last
        /\ b.rshash_pos = a.rshash_pos /\ b.rshash_neg = a.rshash_neg
        /\ b.benefit_pos = a.benefit_pos /\ b.benefit_neg = a.benefit_neg
        /\ b.benefit_scanned = a.benefit_scanned /\ b.benefit_base = a.benefit_base
    BY <2>1 DEF Accounts
  <2>3. Fresh(b) = Fresh(a) + 1
    BY <1>3, <1>4, <2>2
  <2>4. Debt(b) = Debt(a)
    BY <2>2 DEF Debt
  <2>5. SumsCovered(b) /\ Counts(b)
    BY <2>2, <2>4 DEF SumsCovered, Counts
  <2>6. /\ RunCovered(RatePos, a.rshash_pos, p, Fresh(a))
        /\ RunCovered(RateNeg, a.rshash_neg, n, Fresh(a))
    BY DEF RunsCovered
  <2>7. /\ RunCovered(RatePos, a.rshash_pos, POS_PER_PAGE, Fresh(a) + 1)
        /\ RunCovered(RateNeg, a.rshash_neg, NEG_PER_PAGE, Fresh(a) + 1)
    BY <1>1, <1>3, <2>6, RatesAreNat, RunCoversPage
  <2> QED
    BY <2>2, <2>3, <2>5, <2>7 DEF RunsCovered, b
<1>6. CASE a.pages_scanned = U64_MAX
  <2> DEFINE e == EncodeBenefit(a)
             s == StorePages(e)
  <2>1. b = [s EXCEPT !.pages_scanned = 1, !.pages_scanned_last = 0]
    BY <1>6 DEF IncPagesScanned
  <2>2. /\ SumCovered(RatePos, e.benefit_pos, e.benefit_scanned, 1)
        /\ SumCovered(RateNeg, e.benefit_neg, e.benefit_scanned, 1)
        /\ Counts(e)
    BY <1>6, WrapEncodingCovers
  <2>3. /\ e \in Accounts /\ e.pages_scanned_base < BASE_MAX
        /\ IF Encodes(a) THEN e.rshash_pos = 0 /\ e.rshash_neg = 0 ELSE e = a
    BY EncodeFacts
  <2> HIDE DEF b, e
  <2>4. /\ s \in Accounts
        /\ s.rshash_pos = e.rshash_pos /\ s.rshash_neg = e.rshash_neg
        /\ s.benefit_pos = e.benefit_pos /\ s.benefit_neg = e.benefit_neg
        /\ s.benefit_scanned = e.benefit_scanned /\ s.benefit_base = e.benefit_base
    BY <2>3, StorePagesFacts
  <2> HIDE DEF s
  <2>5. /\ b.pages_scanned = 1 /\ b.pages_scanned_last = 0
        /\ b.rshash_pos = e.rshash_pos /\ b.rshash_neg = e.rshash_neg
        /\ b.benefit_pos = e.benefit_pos /\ b.benefit_neg = e.benefit_neg
        /\ b.benefit_scanned = e.benefit_scanned /\ b.benefit_base = e.benefit_base
    BY <2>1, <2>4 DEF Accounts
  <2>6. Fresh(b) = 0 + 1 /\ Debt(b) = 1
    BY <1>4, <2>5 DEF Debt
  <2>7. SumsCovered(b) /\ Counts(b)
    BY <2>2, <2>5, <2>6 DEF SumsCovered, Counts
  <2>8. /\ RunCovered(RatePos, e.rshash_pos, 0, 0)
        /\ RunCovered(RateNeg, e.rshash_neg, 0, 0)
    <3>1. CASE Encodes(a)
      BY <2>3, <3>1, RatesAreNat DEF RunCovered
    <3>2. CASE ~Encodes(a)
      <4>1. Fresh(a) = 0 /\ e = a
        BY <2>3, <3>2 DEF Encodes
      <4>2. /\ a.rshash_pos + p <= RatePos * (0 + 1)
            /\ a.rshash_neg + n <= RateNeg * (0 + 1)
        BY <4>1 DEF RunsCovered, RunCovered
      <4> QED
        BY <1>3, <4>1, <4>2, RatesAreNat DEF RunCovered
    <3> QED
      BY <3>1, <3>2
  <2>9. e.rshash_pos \in Nat /\ e.rshash_neg \in Nat /\ 0 \in Nat
    BY <2>3, U64Assumption DEF Accounts, U64
  <2>10. /\ RunCovered(RatePos, e.rshash_pos, POS_PER_PAGE, 0 + 1)
         /\ RunCovered(RateNeg, e.rshash_neg, NEG_PER_PAGE, 0 + 1)
    BY <1>1, <2>8, <2>9, RatesAreNat, RunCoversPage
  <2> QED
    BY <2>5, <2>6, <2>7, <2>10 DEF RunsCovered, b
<1> QED
  BY <1>5, <1>6

LEMMA CoverInvInit == BenefitInit => CoverInv
<1> SUFFICES ASSUME BenefitInit PROVE CoverInv
  OBVIOUS
<1>1. BenefitInv
  BY BenefitInvInit
<1>2. acct \in Accounts /\ acct.pages_scanned_last <= acct.pages_scanned
  BY <1>1 DEF BenefitInv, BenefitTypeOK, ChargesFit
<1>3. /\ acct.pages_scanned = 0 /\ acct.pages_scanned_last = 0 /\ acct.benefit_base = 0
      /\ acct.rshash_pos = 0 /\ acct.rshash_neg = 0
      /\ acct.benefit_pos = 0 /\ acct.benefit_neg = 0 /\ acct.benefit_scanned = 0
      /\ pos_left = 0 /\ neg_left = 0
  BY DEF BenefitInit, NoAccounts
<1>4. Fresh(acct) = 0 /\ Debt(acct) = 1
  BY <1>2, <1>3, FreshIsDifference DEF Debt
<1>5. LeftsAreSmall
  BY <1>3, RatesAreNat DEF LeftsAreSmall
<1>6. SumsCovered(acct)
  BY <1>3, <1>4, RatesAreNat DEF SumsCovered, SumCovered
<1>7. RunsCovered(acct, pos_left, neg_left)
  BY <1>3, <1>4, RatesAreNat DEF RunsCovered, RunCovered
<1>8. Counts(acct)
  BY <1>3 DEF Counts
<1> QED
  BY <1>1, <1>5, <1>6, <1>7, <1>8 DEF CoverInv

LEMMA CoverInvStep ==
  ASSUME CostsAreSmall, CoverInv, [BenefitNext]_benefitVars
  PROVE  CoverInv'
<1>1. BenefitInv /\ BenefitInv'
  BY BenefitInvStep DEF CoverInv
<1>2. /\ acct \in Accounts /\ acct.pages_scanned_last <= acct.pages_scanned
      /\ pos_left \in Nat /\ neg_left \in Nat
  BY <1>1, CostAssumption, U64Assumption DEF BenefitInv, BenefitTypeOK, ChargesFit
<1>3. /\ SumsCovered(acct) /\ RunsCovered(acct, pos_left, neg_left) /\ Counts(acct)
      /\ pos_left <= RatePos /\ neg_left <= RateNeg
  BY DEF CoverInv, LeftsAreSmall
<1>4. CASE ScanPage
  <2>1. /\ SumsCovered(acct') /\ RunsCovered(acct', POS_PER_PAGE, NEG_PER_PAGE) /\ Counts(acct')
    BY <1>2, <1>3, <1>4, IncPagesScannedCovers DEF ScanPage, ShiftsLeft
  <2>2. pos_left' = POS_PER_PAGE /\ neg_left' = NEG_PER_PAGE
    BY <1>4 DEF ScanPage
  <2>3. LeftsAreSmall'
    BY <2>2, CostAssumption, U64Assumption DEF LeftsAreSmall, RatePos, RateNeg
  <2> QED
    BY <1>1, <2>1, <2>2, <2>3 DEF CoverInv
<1>5. ASSUME NEW d \in 1 .. pos_left, Credit(d) PROVE CoverInv'
  <2>1. /\ d \in Nat /\ d <= pos_left /\ pos_left - d \in Nat /\ pos_left - d <= RatePos
    BY <1>2, <1>3, RatesAreNat
  <2>2. /\ acct' = IncRshashPos(acct, d) /\ pos_left' = pos_left - d /\ neg_left' = neg_left
        /\ acct.benefit_base < BASE_MAX
    BY <1>5 DEF Credit
  <2>3. pos_left' \in Nat
    BY <2>1, <2>2
  <2>4. /\ SumsCovered(acct') /\ RunsCovered(acct', pos_left', neg_left) /\ Counts(acct')
    BY <1>2, <1>3, <2>1, <2>2, <2>3, IncRshashPosCovers
  <2>5. LeftsAreSmall'
    BY <1>3, <2>1, <2>2 DEF LeftsAreSmall, RatePos, RateNeg
  <2> QED
    BY <1>1, <2>2, <2>4, <2>5 DEF CoverInv
<1>6. ASSUME NEW d \in 1 .. neg_left, Charge(d) PROVE CoverInv'
  <2>1. /\ d \in Nat /\ d <= neg_left /\ neg_left - d \in Nat /\ neg_left - d <= RateNeg
    BY <1>2, <1>3, RatesAreNat
  <2>2. /\ acct' = IncRshashNeg(acct, d) /\ neg_left' = neg_left - d /\ pos_left' = pos_left
        /\ acct.benefit_base < BASE_MAX
    BY <1>6 DEF Charge
  <2>3. neg_left' \in Nat
    BY <2>1, <2>2
  <2>4. /\ SumsCovered(acct') /\ RunsCovered(acct', pos_left, neg_left') /\ Counts(acct')
    BY <1>2, <1>3, <2>1, <2>2, <2>3, IncRshashNegCovers
  <2>5. LeftsAreSmall'
    BY <1>3, <2>1, <2>2 DEF LeftsAreSmall, RatePos, RateNeg
  <2> QED
    BY <1>1, <2>2, <2>4, <2>5 DEF CoverInv
<1>7. CASE EndRound
  <2>1. /\ acct' \in Accounts
        /\ acct'.pages_scanned_last = acct'.pages_scanned
        /\ acct'.rshash_pos = 0 /\ acct'.rshash_neg = 0
        /\ acct'.benefit_pos = 0 /\ acct'.benefit_neg = 0 /\ acct'.benefit_scanned = 0
        /\ acct'.benefit_base = 0
    BY <1>2, <1>7, ResetFacts DEF EndRound
  <2>2. pos_left' = 0 /\ neg_left' \in {0, NEG_PER_REBUILD}
    BY <1>7 DEF EndRound
  <2>3. acct'.pages_scanned_last <= acct'.pages_scanned
    BY <2>1, U64Assumption DEF Accounts, U64
  <2>4. Fresh(acct') = 0 /\ Debt(acct') \in Nat
    <3>1. /\ Fresh(acct') = acct'.pages_scanned - acct'.pages_scanned_last
          /\ acct'.pages_scanned \in Nat /\ Debt(acct') \in Nat
      BY <2>1, <2>3, FieldsAreNat
    <3> QED
      BY <2>1, <3>1
  <2>5. pos_left' = 0 /\ neg_left' \in Nat /\ neg_left' <= RateNeg
    BY <2>2, CostAssumption, U64Assumption DEF RateNeg
  <2>6. LeftsAreSmall'
    <3>1. pos_left' <= RatePos /\ neg_left' <= RateNeg
      BY <2>5, RatesAreNat
    <3> QED
      BY <3>1 DEF LeftsAreSmall, RatePos, RateNeg
  <2>7. SumsCovered(acct')
    <3>1. \A r, e \in Nat : SumCovered(r, 0, 0, e)
      BY DEF SumCovered
    <3> QED
      BY <2>1, <2>4, <3>1, RatesAreNat DEF SumsCovered
  <2>8. RunsCovered(acct', pos_left', neg_left')
    <3>1. \A r \in Nat : RunCovered(r, 0, 0, 0)
      BY DEF RunCovered
    <3>2. \A r, x \in Nat : x <= r => RunCovered(r, 0, x, 0)
      BY DEF RunCovered
    <3>3. RunCovered(RateNeg, 0, neg_left', 0)
      BY <2>5, <3>2, RatesAreNat
    <3> QED
      BY <2>1, <2>4, <2>5, <3>1, <3>3, RatesAreNat DEF RunsCovered
  <2>9. Counts(acct')
    BY <2>1 DEF Counts
  <2> QED
    BY <1>1, <2>6, <2>7, <2>8, <2>9 DEF CoverInv
<1>8. CASE UNCHANGED benefitVars
  BY <1>1, <1>8 DEF CoverInv, benefitVars, LeftsAreSmall
<1> QED
  BY <1>4, <1>5, <1>6, <1>7, <1>8 DEF BenefitNext

(* BUG_ON(!benefit.scanned) in encode_benefit never fires, and with it      *)
(* get_current_benefit never divides by zero: however the calls of the      *)
(* scanner are ordered, and however often a counter or uksm_pages_scanned   *)
(* overflows, no encoding leaves a count of pages of zero.  This takes      *)
(* costs that are small against the width; with costs near the width a      *)
(* charge could scale the few pages away.                                   *)
THEOREM EncodingIsSafe ==
  ASSUME CostsAreSmall
  PROVE  BenefitSpec => []EncodeIsSafe
<1>1. CoverInv => EncodeIsSafe
  <2> SUFFICES ASSUME CoverInv, Encodes(acct) PROVE EncodeBenefit(acct).benefit_scanned > 0
    BY DEF EncodeIsSafe
  <2>1. /\ acct \in Accounts /\ acct.pages_scanned_last <= acct.pages_scanned
        /\ pos_left \in Nat /\ neg_left \in Nat
    BY CostAssumption, U64Assumption
       DEF CoverInv, BenefitInv, BenefitTypeOK, ChargesFit
  <2>2. SumsCovered(acct) /\ RunsCovered(acct, pos_left, neg_left) /\ Counts(acct)
    BY DEF CoverInv
  <2> QED
    BY <2>1, <2>2, EncodeCounts
<1>2. BenefitInit => CoverInv
  BY CoverInvInit
<1>3. CoverInv /\ [BenefitNext]_benefitVars => CoverInv'
  BY CoverInvStep
<1> QED
  BY <1>1, <1>2, <1>3, PTL DEF BenefitSpec

=============================================================================
