------------------------------ MODULE MCVarint -----------------------------
(* Constants for checking Varint with TLC.                                 *)
EXTENDS Varint

MCTypes == [w : {16, 32, 64}, signed : BOOLEAN]

MCTypes16 == [w : {16}, signed : {FALSE}]

\* 0, 1, the last value of a length and the first of the next, the smallest
\* negative and the largest positive one, and all bits set.
MCValues(t) == {{}, {0}, Ones(6), Ones(7), {7}, Ones(t.w), {t.w - 1}, Ones(t.w - 1),
                Ones(t.w) \ {0}}

\* 0 and 1 with superfluous bytes.
MCForeign == {<<{7}, {}>>, <<{0, 7}, {7}, {}>>}

\* 0x00, a byte with low bits, one with high bits only, 0xff.
MCFills == {{}, {0}, {5}, 0 .. 7}
=============================================================================
