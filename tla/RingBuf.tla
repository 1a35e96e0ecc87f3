------------------------------ MODULE RingBuf ------------------------------
(***************************************************************************)
(* The byte ring of a dynmbox (src/src/dynmbox.c): struct dynmbox's        *)
(* bufmem, write_idx, read_idx and used, with the functions that move      *)
(* bytes in and out of it.  A ring is a value; each C function that        *)
(* updates the ring in place is an operator that returns the new ring.     *)
(*                                                                         *)
(* The module has no variables and no recursion: the copy loops of         *)
(* rbuf_write and rbuf_read run at most twice (the part up to the end of   *)
(* bufmem, then the part from its start), so both parts are written out.   *)
(***************************************************************************)
EXTENDS Integers, Sequences

CONSTANT DYNMBOX_MAX_SIZE       \* largest payload; 65536 - 4 in dynmbox.h

ASSUME MaxSizeAssumption == DYNMBOX_MAX_SIZE \in Nat /\ DYNMBOX_MAX_SIZE <= 65536 - 4

HdrSize == 4                    \* sizeof(uint32_t), the frame header

ALLOCATED_LEN == DYNMBOX_MAX_SIZE + HdrSize

Byte == 0 .. 255

\* A cell of bufmem that was never written: malloc() does not clear it.
Uninit == -1

Ring == [ bufmem    : [0 .. ALLOCATED_LEN - 1 -> Byte \cup {Uninit}],
          write_idx : 0 .. ALLOCATED_LEN - 1,
          read_idx  : 0 .. ALLOCATED_LEN - 1,
          used      : 0 .. ALLOCATED_LEN ]

\* The ring of a new mailbox.
EmptyRing == [ bufmem    |-> [i \in 0 .. ALLOCATED_LEN - 1 |-> Uninit],
               write_idx |-> 0,
               read_idx  |-> 0,
               used      |-> 0 ]

-----------------------------------------------------------------------------

\* Mutant: wraps one byte late.
increment_off_by_one(idx, amount) ==
  LET following == ALLOCATED_LEN - idx
  IN  IF amount > following THEN amount - following ELSE idx + amount

\* The index `amount` cells after idx; the code asserts amount <= ALLOCATED_LEN.
increment(idx, amount) ==
  LET following == ALLOCATED_LEN - idx
  IN  IF amount >= following THEN amount - following ELSE idx + amount

rbuf_is_empty(b) == b.used = 0

\* Mutant: one cell too many.
rbuf_space_left_off_by_one(b) == ALLOCATED_LEN + 1 - b.used

rbuf_space_left(b) == ALLOCATED_LEN - b.used

rbuf_space_used(b) == b.used

\* Length of the first of the two chunks of a copy of len bytes from idx.
chunklen(idx, len) ==
  IF ALLOCATED_LEN - idx > len THEN len ELSE ALLOCATED_LEN - idx

\* Mutant: the second chunk restarts from the first byte of the data.
rbuf_write_same_chunk(b, data) ==
  LET w  == b.write_idx
      c1 == chunklen(w, Len(data))
      c2 == Len(data) - c1
  IN  [ bufmem    |-> [i \in 0 .. ALLOCATED_LEN - 1 |->
                         IF w <= i /\ i < w + c1 THEN data[i - w + 1]
                         ELSE IF i < c2 THEN data[i + 1]
                         ELSE b.bufmem[i]],
        write_idx |-> increment(increment(w, c1), c2),
        read_idx  |-> b.read_idx,
        used      |-> b.used + Len(data) ]

\* Copy data into the ring.  The code asserts Len(data) <= rbuf_space_left(b).
rbuf_write(b, data) ==
  LET w  == b.write_idx
      c1 == chunklen(w, Len(data))
      c2 == Len(data) - c1
  IN  [ bufmem    |-> [i \in 0 .. ALLOCATED_LEN - 1 |->
                         IF w <= i /\ i < w + c1 THEN data[i - w + 1]
                         ELSE IF i < c2 THEN data[c1 + i + 1]
                         ELSE b.bufmem[i]],
        write_idx |-> increment(increment(w, c1), c2),
        read_idx  |-> b.read_idx,
        used      |-> b.used + Len(data) ]

\* What rbuf_read copies out ...
rbuf_read_bytes(b, len) ==
  LET r  == b.read_idx
      c1 == chunklen(r, len)
  IN  [k \in 1 .. len |->
         IF k <= c1 THEN b.bufmem[r + k - 1] ELSE b.bufmem[k - c1 - 1]]

\* ... and the ring it leaves.  The code asserts len <= rbuf_space_used(b).
rbuf_read(b, len) ==
  LET r  == b.read_idx
      c1 == chunklen(r, len)
      c2 == len - c1
  IN  [ bufmem    |-> b.bufmem,
        write_idx |-> b.write_idx,
        read_idx  |-> increment(increment(r, c1), c2),
        used      |-> b.used - len ]

-----------------------------------------------------------------------------
(* The header: the size as a uint32_t, copied byte by byte, least          *)
(* significant first.  A size is below 65536, so the upper two are 0.      *)

Size == {n \in Nat : n < 65536}
LowByte(n) == n % 256
HighByte(n) == n \div 256

EncodeHdr(n) == [j \in 1 .. HdrSize |->
                   IF j = 1 THEN LowByte(n) ELSE IF j = 2 THEN HighByte(n) ELSE 0]

DecodeHdr(s) == s[1] + 256 * (s[2] + 256 * (s[3] + 256 * s[4]))

-----------------------------------------------------------------------------
(* What the ring holds, seen from the reader.                              *)

\* The j-th unread byte, counting from 0.
UnreadCell(b, j) == b.bufmem[increment(b.read_idx, j)]

\* The three cursors agree.
CursorsAgree(b) == b.write_idx = increment(b.read_idx, b.used)

=============================================================================
