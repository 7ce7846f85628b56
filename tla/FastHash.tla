------------------------------ MODULE FastHash ------------------------------
(***************************************************************************)
(* The block hash that the repository writes four times: as one loop over  *)
(* either length in hashalg.c and on the device in hashalg.cu, and in      *)
(* fast_hash.h as an unrolled path for 128 bytes and a loop for 4096.  A   *)
(* word has WIDTH bits in place of 64 and the shifts are scaled alike; a   *)
(* long block has LONG words in place of 512.  The AES-NI path computes    *)
(* another hash and is not modelled.                                       *)
(***************************************************************************)
EXTENDS Words, Sequences

CONSTANTS
  FH_K1, FH_K2, FH_K3,
  SHIFTS,    \* of fh_mix: 33, 29 and 32
  LONG

SHORT == 16

ASSUME HashAssumption ==
  /\ {FH_K1, FH_K2, FH_K3} \subseteq {k \in Word : k % 2 = 1}
  /\ SHIFTS \in [1 .. 3 -> 1 .. WIDTH]
  /\ LONG \in Nat /\ LONG % 4 = 0 /\ LONG >= SHORT

Bytes(words) == (8 * words) % Size
Times(a, b) == (a * b) % Size
Xored[a \in Word] == [b \in Word |-> Xor(a, b)]
XorHigh(h, s) == Xored[h][h \div TwoTo[s]]

fh_mix(h) ==
  XorHigh(Times(XorHigh(Times(XorHigh(h, SHIFTS[1]), FH_K2), SHIFTS[2]), FH_K3), SHIFTS[3])

K == <<FH_K1, FH_K2, FH_K3, FH_K1>>
Start == <<FH_K1, FH_K2, FH_K3, Xored[FH_K1][FH_K2]>>

(* Mutant: a lane takes its word in and loses what it held.                 *)
AbsorbAlone(lane, word, k) == Times(word, k)
Absorb(lane, word, k) == Times(Xored[lane][word], k)

(* The four lanes into one *)
Join(h) ==
  Xored[Times(Xored[Times(Xored[Times(h[1], FH_K1)][h[2]], FH_K2)][h[3]], FH_K3)][h[4]]

(* One iteration of the loop: four words from w on. *)
FourWords(p, h, w) == [lane \in 1 .. 4 |-> Absorb(h[lane], p[w + lane - 1], K[lane])]
Loop(p, words) ==
  LET run[n \in 0 .. words \div 4] ==
        IF n = 0 THEN Start ELSE FourWords(p, run[n - 1], 4 * (n - 1))
  IN run[words \div 4]

(* fast_hash of hashalg.c and fast_hash_device of hashalg.cu *)
FastHashOf(p, words) == fh_mix(Xored[Join(Loop(p, words))][Bytes(words)])

(* fast_hash_128: the word and the lane of each STEP; mutant: two lanes of  *)
(* one row swapped.                                                         *)
StepsSwapped ==
  << <<0, 1>>, <<1, 2>>, <<2, 3>>, <<3, 4>>, <<4, 1>>, <<5, 2>>, <<6, 3>>, <<7, 4>>,
     <<8, 2>>, <<9, 1>>, <<10, 3>>, <<11, 4>>, <<12, 1>>, <<13, 2>>, <<14, 3>>, <<15, 4>> >>
Steps ==
  << <<0, 1>>, <<1, 2>>, <<2, 3>>, <<3, 4>>, <<4, 1>>, <<5, 2>>, <<6, 3>>, <<7, 4>>,
     <<8, 1>>, <<9, 2>>, <<10, 3>>, <<11, 4>>, <<12, 1>>, <<13, 2>>, <<14, 3>>, <<15, 4>> >>
Step(p, h, word, lane) == [h EXCEPT ![lane] = Absorb(@, p[word], K[lane])]
Unrolled(p) ==
  LET run[n \in 0 .. SHORT] ==
        IF n = 0 THEN Start ELSE Step(p, run[n - 1], Steps[n][1], Steps[n][2])
  IN run[SHORT]
FastHash128(p) == fh_mix(Xored[Join(Unrolled(p))][Bytes(SHORT)])

(* fast_hash_4096_scalar, by byte offsets *)
ByOffsets(p) ==
  LET run[n \in 0 .. LONG \div 4] ==
        IF n = 0 THEN Start ELSE FourWords(p, run[n - 1], (32 * (n - 1)) \div 8)
  IN run[LONG \div 4]
FastHash4096(p) == fh_mix(Xored[Join(ByOffsets(p))][Bytes(LONG)])

FastHash(p, words) == IF words = SHORT THEN FastHash128(p) ELSE FastHash4096(p)
=============================================================================
