----------------------------- MODULE RandomDraw ----------------------------
(***************************************************************************)
(* How random.c makes integers from the bytes of the pool: the assembly of *)
(* words of 8 to 64 bits, and the mask and number of bytes with which a    *)
(* value up to a maximum is drawn.  Operators only; RandomCalls has the    *)
(* loops.                                                                  *)
(***************************************************************************)
EXTENDS Words

\* pool_rand8 to pool_rand64: byte i supplies the bits from 8 * i on.
pool_randN(bytes) == UNION {{8 * i + b : b \in bytes[i]} : i \in DOMAIN bytes}

\* Mutant: the last round is missing, as in a version for 32 bits.
p2minus1_32(v) ==
  LET smear(k, x) == x \cup Shr(x, k)
  IN  smear(16, smear(8, smear(4, smear(2, smear(1, v)))))

\* All the bits up to the highest one of v.
p2minus1(v) ==
  LET smear(k, x) == x \cup Shr(x, k)
  IN  smear(32, smear(16, smear(8, smear(4, smear(2, smear(1, v))))))

\* One `if` of ilog2plus1 on the pair of r and v: v >= 2^t.
Ilog2Step(t, rv) ==
  IF \E b \in rv[2] : b >= t THEN <<rv[1] + t + 1, Shr(rv[2], t + 1)>> ELSE rv

\* The number of bits needed to represent v.
ilog2plus1(v) ==
  Ilog2Step(0, Ilog2Step(1, Ilog2Step(2, Ilog2Step(4,
    Ilog2Step(8, Ilog2Step(16, Ilog2Step(32, <<0, v>>)))))))[1]

\* Bytes drawn for a value of w bits up to a maximum; pool_rand8_maximum has
\* no switch and always draws one.
DrawBytes(w, maximum) ==
  IF w = 8 THEN 1 ELSE (ilog2plus1(p2minus1(maximum)) + 7) \div 8

=============================================================================
