------------------------------- MODULE Varint ------------------------------
(***************************************************************************)
(* Variable-length integers (src/src/varint.c) as they are used: a buffer  *)
(* in which values of the six types are written one behind the other, and  *)
(* a reader that decodes them in order from the part it has received.      *)
(* Values are exact words of up to 64 bits (module Words); a signed value  *)
(* is its two's complement.                                                *)
(***************************************************************************)
EXTENDS Words, Sequences

CONSTANTS Types,        \* records of the width w and of signed
          Values(_),    \* the values of a type that may be written
          Foreign,      \* byte sequences another encoder may have written
          Capacity,     \* bytes of the buffer
          MaxValues,    \* bound: values put into the buffer
          Fills         \* what the bytes behind the written ones may be

ASSUME TypesAssumption == Types \subseteq [w : {16, 32, 64}, signed : BOOLEAN]

\* Values fit their types; every encoder ends a value with a byte without bit 7.
ASSUME BytesAssumption ==
  /\ \A t \in Types : Values(t) \subseteq SUBSET Ones(t.w)
  /\ \A bytes \in Foreign :
       /\ bytes \in Seq(SUBSET Ones(8)) /\ bytes # <<>>
       /\ \A k \in DOMAIN bytes : 7 \in bytes[k] <=> k < Len(bytes)
  /\ Fills \subseteq SUBSET Ones(8)
  /\ Capacity \in Nat /\ MaxValues \in Nat

\* The first cells of the buffer are written; src[offset] may be one behind.
VARIABLES buf,          \* bytes written, as words of 8 bits
          fill,         \* the byte behind them
          sent,         \* history: type, value and length of what was written
          got,          \* history: types and values read
          at,           \* where the reader is
          last          \* its last call

varintVars == <<buf, fill, sent, got, at, last>>

\* val_len_max: sizeof + 1, or sizeof + 2 for 64 bits.
val_len_max(t) == IF t.w = 64 THEN 10 ELSE t.w \div 8 + 1

\* (val << 1) ^ (val >> w - 1), the second shift with sign.
ZigzagEncode(t, v) ==
  IF t.signed
  THEN Xor(Shl(v, 1, t.w), IF t.w - 1 \in v THEN Ones(t.w) ELSE {})
  ELSE v

\* (val64 >> 1) ^ -(val64 & 1), cut to the type.
ZigzagDecode(t, v) ==
  IF t.signed
  THEN Xor(Shr(v, 1) \cap Ones(t.w), IF 0 \in v THEN Ones(t.w) ELSE {})
  ELSE v \cap Ones(t.w)

\* Bytes of v: one for each 7 bits up to the highest, at least one.
EncodedLen(v) == CHOOSE n \in 1 .. 10 :
                   Shr(v, 7 * n) = {} /\ \A k \in 1 .. n - 1 : Shr(v, 7 * k) # {}

\* futils_varint_write: 7 bits per byte, lowest first, bit 7 means more.
Encode(v) == [k \in 1 .. EncodedLen(v) |->
                (Shr(v, 7 * (k - 1)) \cap Ones(7))
                  \cup (IF k < EncodedLen(v) THEN {7} ELSE {})]

\* The 64-bit value of the low 7 bits of n bytes.
Payload(bytes, n) == UNION {Shl(bytes[k] \cap Ones(7), 7 * (k - 1), 64) : k \in 1 .. n}

VarintInit ==
  /\ fill \in Fills
  /\ buf = <<>> /\ sent = <<>> /\ got = <<>>
  /\ at = 0
  /\ last = [res |-> "none"]

\* futils_varint_write_u16 to i64 at the end of the buffer.
Write(t, v) ==
  /\ Len(sent) < MaxValues
  /\ Capacity - Len(buf) >= val_len_max(t)      \* else -EINVAL
  /\ LET bytes == Encode(ZigzagEncode(t, v))
     IN  /\ buf' = buf \o bytes
         /\ sent' = Append(sent, [t |-> t, v |-> v, n |-> Len(bytes)])
  /\ UNCHANGED <<fill, got, at, last>>

\* Too little room: nothing is written.
WriteRefused(t) ==
  /\ Capacity - Len(buf) < val_len_max(t)
  /\ last' = [res |-> "EINVAL"]
  /\ UNCHANGED <<buf, fill, sent, got, at>>

\* Bytes of another encoder, which need not be the shortest form.
Receive(t, bytes) ==
  /\ Len(sent) < MaxValues
  /\ Capacity - Len(buf) >= Len(bytes)
  /\ buf' = buf \o bytes
  /\ sent' = Append(sent, [t |-> t, v |-> ZigzagDecode(t, Payload(bytes, Len(bytes))),
                           n |-> Len(bytes)])
  /\ UNCHANGED <<fill, got, at, last>>

-----------------------------------------------------------------------------

\* src[offset] for a read that starts at `at`.
src(offset) == IF at + offset + 1 <= Len(buf) THEN buf[at + offset + 1] ELSE fill

\* Mutant: the end of the source is an error even if the value is complete.
BadOffset_end(t, src_len, offset) ==
  \/ offset >= src_len
  \/ offset > val_len_max(t)
  \/ offset = val_len_max(t) /\ src(offset) \cap Ones(4) # {}

\* The test after each byte, with offset already behind it: the last disjunct
\* looks at the byte BEHIND a value of the maximal length.
BadOffset(t, src_len, offset) ==
  \/ offset > src_len
  \/ offset > val_len_max(t)
  \/ offset = val_len_max(t) /\ src(offset) \cap Ones(4) # {}

\* Bytes consumed when the loop stops, in error or on a byte without bit 7.
\* It may be one byte behind src_len, which the test of BadOffset then refuses.
StopOffset(t, src_len) ==
  CHOOSE n \in 1 .. val_len_max(t) + 1 :
    /\ BadOffset(t, src_len, n) \/ 7 \notin src(n - 1)
    /\ \A k \in 1 .. n - 1 : ~BadOffset(t, src_len, k) /\ 7 \in src(k - 1)

\* futils_varint_read_u16 to i64 of the next value, of whose bytes and those
\* behind it the reader has src_len.
Read(src_len) ==
  /\ Len(got) < Len(sent)
  /\ src_len \in 1 .. Len(buf) - at
  /\ LET s == sent[Len(got) + 1]
         n == StopOffset(s.t, src_len)
         bad == BadOffset(s.t, src_len, n)
     IN  /\ last' = [res |-> IF bad THEN "EPROTO" ELSE "ok", src_len |-> src_len,
                     item |-> Len(got) + 1, follow |-> src(s.n)]
         /\ IF bad
            THEN UNCHANGED <<got, at>>
            ELSE /\ got' = Append(got, [t |-> s.t, n |-> n, v |->
                              ZigzagDecode(s.t, Payload([k \in 1 .. n |-> src(k - 1)], n))])
                 /\ at' = at + n
  /\ UNCHANGED <<buf, fill, sent>>

\* Nothing received: -EINVAL.
ReadNothing ==
  /\ at = Len(buf)
  /\ last' = [res |-> "EINVAL"]
  /\ UNCHANGED <<buf, fill, sent, got, at>>

VarintNext ==
  \/ \E t \in Types : (\E v \in Values(t) : Write(t, v)) \/ WriteRefused(t)
  \/ \E t \in Types, bytes \in Foreign : Len(bytes) <= val_len_max(t) /\ Receive(t, bytes)
  \/ \E src_len \in 1 .. Len(buf) - at : Read(src_len)
  \/ ReadNothing

VarintSpec == VarintInit /\ [][VarintNext]_varintVars

-----------------------------------------------------------------------------
(* Properties.                                                             *)

\* A value of the maximal length, with a low bit set in the byte behind it (of
\* the next value, or outside of the buffer), which the decoder looks at too
\* (varint.c:71).
LooksBehind(s) == s.n = val_len_max(s.t) /\ last.follow \cap Ones(4) # {}

\* What is read is what was written, value by value and byte by byte, for
\* every type, whatever part of the buffer the reader was given: it never loses
\* its place in the stream.  A value whose bytes have not all been received is
\* refused, one that is complete is read (futils_varint_read); of whether a
\* complete value that LooksBehind is read nothing is said: see CompleteIsRead.
ReadsWhatWasWritten ==
  /\ got = SubSeq(sent, 1, Len(got))
  /\ last.res \in {"ok", "EPROTO"} =>
       LET s == sent[last.item]
       IN  IF last.src_len < s.n THEN last.res = "EPROTO"
                                 ELSE LooksBehind(s) \/ last.res = "ok"

\* What the test of varint.c expects of every value it wrote,
\* CU_ASSERT_EQUAL(res, 0) (futils_test_varint.c:96): a value is refused only if
\* its bytes have not all been received.
CompleteIsRead == last.res = "EPROTO" => last.src_len < sent[last.item].n

=============================================================================
