------------------------------- MODULE Words -------------------------------
(***************************************************************************)
(* Unsigned machine words as sets of bit positions: the word v has the     *)
(* value of the sum of 2^b for b in v, and a w-bit word is a subset of     *)
(* 0 .. w-1.  A 64-bit value is then exact and stays small, and the bit    *)
(* operators of C are set operators: | is \cup, & is \cap, ^ is Xor.   *)
(***************************************************************************)
EXTENDS Integers

\* The w-bit word with every bit set.
Ones(w) == 0 .. w - 1

\* Logical shift to the right.
Shr(v, k) == {x - k : x \in {b \in v : b >= k}}

\* Shift to the left in a w-bit word.
Shl(v, k, w) == {b + k : b \in {x \in v : x + k < w}}

Xor(a, b) == (a \ b) \cup (b \ a)

\* Comparison as numbers: the highest bit in which they differ is one of b's.
LeqWord(a, b) == \A x \in a \ b : \E y \in b \ a : y > x

=============================================================================
