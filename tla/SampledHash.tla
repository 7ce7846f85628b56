---------------------------- MODULE SampledHash -----------------------------
(***************************************************************************)
(* The random-sampling hash of dirtPages.c: random_sample_hash, delta_hash *)
(* with its forward and its inverse macro, page_hash_max and the table of  *)
(* zero-page hashes.  A word has WIDTH bits in place of 32, and the shifts *)
(* are scaled alike: the inverse macro stops after two terms in each       *)
(* direction, which is exact when 4 * shiftl and 4 * shiftr reach the      *)
(* width, as 8, 12 and 32 do.  Positions are sampled in the order that     *)
(* SamplingInit's shuffle leaves.                                          *)
(***************************************************************************)
EXTENDS SamplingInit, Words

CONSTANTS
  shiftl, shiftr,
  SEED,                    \* 0xdeadbeef
  HASH_STRENGTH_LOOPBACK,  \* positions sampled again beyond full; 10 in the code
  WORDS                    \* bound: values a word of a page takes

HASH_STRENGTH_MAX == HASH_STRENGTH_FULL + HASH_STRENGTH_LOOPBACK
Strengths == 1 .. HASH_STRENGTH_MAX

ASSUME ShiftAssumption ==
  /\ shiftl \in Nat /\ shiftr \in Nat
  /\ 4 * shiftl >= WIDTH /\ 4 * shiftr >= WIDTH
ASSUME PageAssumption ==
  /\ SEED \in Word /\ WORDS \subseteq Word /\ 0 \in WORDS
  /\ HASH_STRENGTH_LOOPBACK \in 0 .. HASH_STRENGTH_FULL

VARIABLES
  key,              \* the words of the page
  strength, hash,   \* a hash kept across changes of strength; strength 0 before
  zero_hash_table   \* <<>> is NULL

hashVars == <<key, strength, hash, zero_hash_table>>

(* hash ^ (hash >> n) *)
XorShift[n \in {shiftr, 2 * shiftr}] == [h \in Word |-> Xor(h, h \div TwoTo[n])]

(* One iteration of HASH_FROM_TO. *)
Mix(h, w) ==
  LET sum == (h + w) % Size
  IN XorShift[shiftr][(sum + sum * TwoTo[shiftl]) % Size]

(* One iteration of HASH_FROM_DOWN_TO; mutant: one term of the inverse only.*)
UnmixOnce(h, w) ==
  LET x == XorShift[shiftr][h]
  IN (x + Size * Size - x * TwoTo[shiftl] - w) % Size
Unmix(h, w) ==
  LET x == XorShift[2 * shiftr][XorShift[shiftr][h]]
      y == (x + Size * Size - x * TwoTo[shiftl]) % Size
  IN (y + y * TwoTo[2 * shiftl] + Size - w) % Size

(* The macros: from up to to, and from down to to, each word once. *)
HashFromTo(k, from, to, h) ==
  LET run[n \in 0 .. to - from] ==
        IF n = 0 THEN h ELSE Mix(run[n - 1], k[random_nums[from + n - 1]])
  IN run[to - from]

HashFromDownTo(k, from, to, h) ==
  LET run[n \in 0 .. from - to] ==
        IF n = 0 THEN h ELSE Unmix(run[n - 1], k[random_nums[from - n]])
  IN run[from - to]

RandomSampleHash(k, s) ==
  IF s <= HASH_STRENGTH_FULL THEN HashFromTo(k, 0, s, SEED)
  ELSE HashFromTo(k, 0, s - HASH_STRENGTH_FULL, HashFromTo(k, 0, HASH_STRENGTH_FULL, SEED))

(* delta_hash: through full strength it is two passes, undone last first. *)
DeltaHash(k, from, to, h) ==
  LET F == HASH_STRENGTH_FULL
  IN IF to > from
     THEN CASE from >= F -> HashFromTo(k, from - F, to - F, h)
            [] from < F /\ to <= F -> HashFromTo(k, from, to, h)
            [] from < F /\ to > F  -> HashFromTo(k, 0, to - F, HashFromTo(k, from, F, h))
     ELSE CASE from <= F -> HashFromDownTo(k, from, to, h)
            [] from > F /\ to >= F -> HashFromDownTo(k, from - F, to - F, h)
            [] from > F /\ to < F  -> HashFromDownTo(k, F, to, HashFromDownTo(k, from - F, 0, h))

ZeroPage == [p \in Positions |-> 0]

(* The table, filled from an all-zero page; mutant: from strength 1 on.     *)
ZeroHashesShifted == [s \in 0 .. HASH_STRENGTH_MAX - 1 |-> RandomSampleHash(ZeroPage, s + 1)]
ZeroHashes == [s \in 0 .. HASH_STRENGTH_MAX - 1 |-> RandomSampleHash(ZeroPage, s)]

FindZeroPageHash(s, h) == zero_hash_table[s] = h

-----------------------------------------------------------------------------
SampledInit ==
  /\ Init
  /\ key = ZeroPage /\ strength = 0 /\ hash = 0 /\ zero_hash_table = <<>>

(* Once at module init, after init_random_sampling; either allocation may   *)
(* fail, and then the module does not start.                                *)
InitZeropageHashTable ==
  /\ pc = "ok" /\ zero_hash_table = <<>>
  /\ \/ zero_hash_table' = ZeroHashes /\ UNCHANGED pc
     \/ pc' = "ENOMEM" /\ UNCHANGED zero_hash_table
  /\ UNCHANGED <<sampling, pages, clock, key, strength, hash>>

(* page_hash of a page at the strength of the moment. *)
PageHash ==
  /\ zero_hash_table # <<>> /\ strength = 0
  /\ key' \in [Positions -> WORDS] /\ strength' \in Strengths
  /\ hash' = RandomSampleHash(key', strength')
  /\ UNCHANGED <<vars, zero_hash_table>>

(* The hash of an unchanged page follows hash_strength, as in a rebuild. *)
Follow(to) ==
  /\ strength \notin {0, to}
  /\ strength' = to
  /\ hash' = DeltaHash(key, strength, to, hash)
  /\ UNCHANGED <<vars, key, zero_hash_table>>

SampledNext ==
  \/ Next /\ UNCHANGED hashVars
  \/ InitZeropageHashTable
  \/ PageHash
  \/ \E to \in Strengths : Follow(to)

SampledSpec == SampledInit /\ [][SampledNext]_<<vars, hashVars>>

-----------------------------------------------------------------------------
(* However the strength went up and down, through full strength or not, the *)
(* updated hash is the one a rehash would give (604-605).                   *)
DeltaIsRehash == strength # 0 => hash = RandomSampleHash(key, strength)

SampledOnce(p) ==
  /\ \E index \in 0 .. strength - 1 : index < HASH_STRENGTH_FULL /\ random_nums[index] = p
  /\ \A index \in 0 .. strength - HASH_STRENGTH_FULL - 1 : random_nums[index] # p

(* The quick test accepts every zero page and, while no word is sampled     *)
(* twice, rejects every page with one sampled word that is not zero.        *)
ZeroPagesFound ==
  strength \in 1 .. HASH_STRENGTH_MAX - 1 =>
    /\ key = ZeroPage => FindZeroPageHash(strength, hash)
    /\ \A p \in Positions, w \in WORDS \ {0} :
         SampledOnce(p) =>
           ~FindZeroPageHash(strength, RandomSampleHash([ZeroPage EXCEPT ![p] = w], strength))
=============================================================================
