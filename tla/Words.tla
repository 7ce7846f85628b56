-------------------------------- MODULE Words --------------------------------
(***************************************************************************)
(* Unsigned machine words of WIDTH bits, in place of the 32 of dirtPages.c *)
(* and the 64 of fast_hash.h: powers of two, the bits of a number, and ^.  *)
(***************************************************************************)
EXTENDS Integers

CONSTANT WIDTH

ASSUME WidthAssumption == WIDTH \in Nat

TwoTo[n \in Nat] == IF n = 0 THEN 1 ELSE 2 * TwoTo[n - 1]
Size == TwoTo[WIDTH]
Word == 0 .. Size - 1

Bit(h, j) == (h \div TwoTo[j]) % 2

(* a ^ b: the word with the bits of both added, modulo 2.                   *)
Xor(a, b) ==
  CHOOSE x \in Word : \A j \in 0 .. WIDTH - 1 : Bit(x, j) = (Bit(a, j) + Bit(b, j)) % 2
=============================================================================
