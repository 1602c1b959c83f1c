------------------------------- MODULE Words -------------------------------
(***************************************************************************)
(* The operators of include/yarvs/bits_manipulation.hpp, and the arithmetic *)
(* of C++ on unsigned words, that decoding and executing need.             *)
(* A word is the set of the positions of its bits that are 1, so the width *)
(* is the real one and no number is too large; & is \cap, | is \cup.       *)
(***************************************************************************)
EXTENDS Integers

Bits(n) == SUBSET (0 .. n - 1)

\* kXLen, the width of a DoubleWord
XLEN == 64

mask_bits(w, to, from) == w \cap (from .. to)

mask_bit(w, n) == w \cap {n}

\* The order of words as numbers: m > n.
Above(m, n) == \E k \in m \ n : \A j \in n \ m : j < k

shr(w, n) == {k - n : k \in {j \in w : j >= n}}

shl(w, n) == {k + n : k \in w}

get_bits(w, to, from) == shr(mask_bits(w, to, from), from)

\* Of a DoubleWord: xor with the bit n, and subtraction of it.  The borrow goes
\* through the zeros from n on and takes the first one above them.
flip(w, n) == IF n \in w THEN w \ {n} ELSE w \cup {n}

minus(w, n) ==
  LET zeros == {k \in n .. XLEN - 1 : w \cap (n .. k) = {}}
      taken == {k \in w : k >= n /\ w \cap (n .. k - 1) = {}}
  IN  (w \ taken) \cup zeros

\* sext<from, DoubleWord> of a word of type bits.  The sizes of the integral
\* types are casts, from the type and not from the bit from - 1.
sext(from, type, w) ==
  IF from = XLEN THEN w
  ELSE IF from \in {8, 16, 32}
       THEN w \cup {k \in type .. XLEN - 1 : type - 1 \in w}
       ELSE minus(flip(w, from - 1), from - 1)

-----------------------------------------------------------------------------
(* Arithmetic on words of n bits: it wraps. *)

xor(a, b) == (a \ b) \cup (b \ a)

\* The positions a sum of a and b carries into.
Carries(n, a, b) ==
  {k \in 1 .. n : \E j \in a \cap b : j < k /\ (j + 1 .. k - 1) \subseteq a \cup b}

plus(n, a, b) == xor(xor(a, b), Carries(n, a, b)) \ {n}

\* The positions a - b borrows from.
Borrows(n, a, b) ==
  {k \in 1 .. n : \E j \in b \ a : j < k /\ (j + 1 .. k - 1) \cap (a \ b) = {}}

difference(n, a, b) == xor(xor(a, b), Borrows(n, a, b)) \ {n}

\* a < b of signed numbers in two's complement.
BelowSigned(n, a, b) ==
  \/ n - 1 \in a \ b
  \/ (n - 1 \in a <=> n - 1 \in b) /\ Above(b, a)
=============================================================================
