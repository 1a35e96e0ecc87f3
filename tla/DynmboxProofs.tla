--------------------------- MODULE DynmboxProofs ---------------------------
(***************************************************************************)
(* Proofs about Dynmbox, for every size of the ring, every finite set of   *)
(* producers, every set of messages and every consumer policy.             *)
(*                                                                         *)
(* The inductive invariant comes in three layers, each proved from the one *)
(* before: CtlInv (control state, the mutex, what each allocation stage    *)
(* holds), RingInv (the bytes of the ring are the frames of the queued     *)
(* messages) and BalInv (the notifications).                               *)
(***************************************************************************)
EXTENDS Dynmbox, FiniteSetTheorems, TLAPS

-----------------------------------------------------------------------------
(* What the ring operators of RingBuf do, for every ring size: a write     *)
(* appends its bytes behind the unread ones and touches none of them, a    *)
(* read returns the first unread bytes and shifts the others, whether or   *)
(* not the copy wraps; and a header survives its encoding.                 *)

\* The size of the ring is a natural number between 4 and 65536.
LEMMA AllocatedLen == ALLOCATED_LEN \in Nat /\ ALLOCATED_LEN >= 4 /\ ALLOCATED_LEN <= 65536
BY MaxSizeAssumption DEF ALLOCATED_LEN, HdrSize

\* increment() never leaves bufmem.
LEMMA IncrementRange ==
  ASSUME NEW idx \in 0 .. ALLOCATED_LEN - 1, NEW amount \in 0 .. ALLOCATED_LEN
  PROVE  increment(idx, amount) \in 0 .. ALLOCATED_LEN - 1
BY AllocatedLen DEF increment

\* Advancing in two steps is advancing once.
LEMMA IncrementSum ==
  ASSUME NEW idx \in 0 .. ALLOCATED_LEN - 1,
         NEW a \in Nat, NEW b \in Nat, a + b <= ALLOCATED_LEN
  PROVE  increment(increment(idx, a), b) = increment(idx, a + b)
BY AllocatedLen DEF increment

\* Two different offsets below ALLOCATED_LEN are two different cells.
LEMMA IncrementInjective ==
  ASSUME NEW idx \in 0 .. ALLOCATED_LEN - 1,
         NEW a \in 0 .. ALLOCATED_LEN - 1, NEW b \in 0 .. ALLOCATED_LEN - 1,
         increment(idx, a) = increment(idx, b)
  PROVE  a = b
BY AllocatedLen DEF increment

\* A size is its high byte times 256 plus its low byte.
LEMMA HighLow ==
  ASSUME NEW n \in Size
  PROVE  LowByte(n) \in Byte /\ HighByte(n) \in Byte /\ n = 256 * HighByte(n) + LowByte(n)
<1>1. HighByte(n) \in Int
  BY Z3 DEF Size, HighByte
<1>2. HighByte(n) >= 0
  BY Z3 DEF Size, HighByte
<1>3. HighByte(n) <= 255
  BY Z3 DEF Size, HighByte
<1>4. HighByte(n) \in Byte
  BY <1>1, <1>2, <1>3, Z3 DEF Byte
<1>5. LowByte(n) \in Byte
  BY Z3 DEF Size, LowByte, Byte
<1>6. n = 256 * HighByte(n) + LowByte(n)
  BY Z3 DEF Size, HighByte, LowByte
<1> QED BY <1>4, <1>5, <1>6, Z3

\* A header is four bytes and reads back as the size it was written with.
LEMMA HdrRoundTrip ==
  ASSUME NEW n \in Size
  PROVE  /\ EncodeHdr(n) \in Seq(Byte)
         /\ Len(EncodeHdr(n)) = HdrSize
         /\ DecodeHdr(EncodeHdr(n)) = n
<1>1. LowByte(n) \in Byte /\ HighByte(n) \in Byte /\ n = 256 * HighByte(n) + LowByte(n)
  BY HighLow, Z3
<1>2. EncodeHdr(n) \in Seq(Byte) /\ Len(EncodeHdr(n)) = HdrSize
  BY <1>1, Z3 DEF EncodeHdr, HdrSize, Byte
<1>3. /\ EncodeHdr(n)[1] = LowByte(n)
      /\ EncodeHdr(n)[2] = HighByte(n)
      /\ EncodeHdr(n)[3] = 0
      /\ EncodeHdr(n)[4] = 0
  BY Z3 DEF EncodeHdr, HdrSize
<1>4. DecodeHdr(EncodeHdr(n)) = n
  <2>1. DecodeHdr(EncodeHdr(n)) = LowByte(n) + 256 * (HighByte(n) + 256 * (0 + 256 * 0))
    BY <1>3, Z3 DEF DecodeHdr
  <2>2. LowByte(n) \in Int /\ HighByte(n) \in Int
    BY <1>1, Z3 DEF Byte
  <2> QED BY <1>1, <2>1, <2>2, Z3
<1> QED BY <1>2, <1>4, Z3

-----------------------------------------------------------------------------
(* The same facts about indices alone: ri, wi and u stand for the cursors  *)
(* and the used size.                                                      *)

\* The two chunks of a copy: the second exists only if the first reached the end.
LEMMA Chunks ==
  ASSUME NEW idx \in 0 .. ALLOCATED_LEN - 1, NEW n \in 0 .. ALLOCATED_LEN
  PROVE  /\ chunklen(idx, n) \in 0 .. n
         /\ n - chunklen(idx, n) \in 0 .. idx
         /\ idx + chunklen(idx, n) <= ALLOCATED_LEN
         /\ increment(increment(idx, chunklen(idx, n)), n - chunklen(idx, n)) = increment(idx, n)
BY AllocatedLen, Z3 DEF chunklen, increment

\* The cells a write fills are not those of the unread bytes.
LEMMA OldCells ==
  ASSUME NEW ri \in 0 .. ALLOCATED_LEN - 1, NEW u \in 0 .. ALLOCATED_LEN,
         NEW n \in 0 .. ALLOCATED_LEN, n <= ALLOCATED_LEN - u,
         NEW wi \in 0 .. ALLOCATED_LEN - 1, wi = increment(ri, u),
         NEW j \in 0 .. u - 1
  PROVE  /\ increment(ri, j) \in 0 .. ALLOCATED_LEN - 1
         /\ ~(wi <= increment(ri, j) /\ increment(ri, j) < wi + chunklen(wi, n))
         /\ ~(increment(ri, j) < n - chunklen(wi, n))
BY AllocatedLen, Z3 DEF chunklen, increment

\* rbuf_write copies the j-th of n bytes to cell i: in the first chunk or in
\* the second.
CopiedTo(wi, n, j, i) ==
  /\ i \in 0 .. ALLOCATED_LEN - 1
  /\ \/ wi <= i /\ i < wi + chunklen(wi, n) /\ i - wi + 1 = j
     \/ ~(wi <= i /\ i < wi + chunklen(wi, n)) /\ i < n - chunklen(wi, n)
        /\ chunklen(wi, n) + i + 1 = j

\* The cell of the j-th new byte receives the j-th byte.
LEMMA NewCells ==
  ASSUME NEW ri \in 0 .. ALLOCATED_LEN - 1, NEW u \in 0 .. ALLOCATED_LEN,
         NEW n \in 0 .. ALLOCATED_LEN, n <= ALLOCATED_LEN - u,
         NEW wi \in 0 .. ALLOCATED_LEN - 1, wi = increment(ri, u),
         NEW j \in 1 .. n
  PROVE  CopiedTo(wi, n, j, increment(ri, u + j - 1))
<1>1. ASSUME NEW i, i = increment(ri, u + j - 1)
      PROVE  CopiedTo(wi, n, j, i)
  BY <1>1, AllocatedLen, Z3 DEF CopiedTo, chunklen, increment
<1> QED BY <1>1, Zenon

\* The j-th byte read comes from the cell of the j-th unread byte.
LEMMA ReadCells ==
  ASSUME NEW ri \in 0 .. ALLOCATED_LEN - 1, NEW n \in 0 .. ALLOCATED_LEN,
         NEW j \in 1 .. n
  PROVE  increment(ri, j - 1) = IF j <= chunklen(ri, n) THEN ri + j - 1
                                ELSE j - chunklen(ri, n) - 1
BY AllocatedLen, Z3 DEF chunklen, increment

-----------------------------------------------------------------------------

\* rbuf_write appends: the unread bytes stay, the new ones come behind them,
\* and the cursors still agree.
LEMMA WriteAppends ==
  ASSUME NEW b \in Ring, CursorsAgree(b),
         NEW data \in Seq(Byte), Len(data) <= rbuf_space_left(b),
         NEW w, w = rbuf_write(b, data)
  PROVE  /\ w \in Ring
         /\ CursorsAgree(w)
         /\ w.used = b.used + Len(data)
         /\ \A j \in 0 .. b.used - 1 : UnreadCell(w, j) = UnreadCell(b, j)
         /\ \A j \in 1 .. Len(data) : UnreadCell(w, b.used + j - 1) = data[j]
<1> DEFINE wi == b.write_idx
           c1 == chunklen(wi, Len(data))
           c2 == Len(data) - c1
<1>1. /\ wi \in 0 .. ALLOCATED_LEN - 1
      /\ b.read_idx \in 0 .. ALLOCATED_LEN - 1
      /\ b.used \in 0 .. ALLOCATED_LEN
      /\ b.bufmem \in [0 .. ALLOCATED_LEN - 1 -> Byte \cup {Uninit}]
  BY Z3 DEF Ring
<1>2. Len(data) \in 0 .. ALLOCATED_LEN /\ Len(data) <= ALLOCATED_LEN - b.used
  BY <1>1, AllocatedLen, Z3 DEF rbuf_space_left
<1>3. wi = increment(b.read_idx, b.used)
  BY Zenon DEF CursorsAgree
<1>4. /\ w.write_idx = increment(increment(wi, c1), c2)
      /\ w.read_idx = b.read_idx
      /\ w.used = b.used + Len(data)
      /\ w.bufmem = [i \in 0 .. ALLOCATED_LEN - 1 |->
                         IF wi <= i /\ i < wi + c1 THEN data[i - wi + 1]
                         ELSE IF i < c2 THEN data[c1 + i + 1]
                         ELSE b.bufmem[i]]
      /\ w = [bufmem |-> w.bufmem, write_idx |-> w.write_idx,
              read_idx |-> w.read_idx, used |-> w.used]
  BY Z3 DEF rbuf_write
<1>5. /\ c1 \in 0 .. Len(data)
      /\ c2 \in 0 .. wi
      /\ wi + c1 <= ALLOCATED_LEN
      /\ w.write_idx = increment(wi, Len(data))
  BY <1>1, <1>2, <1>4, Chunks, Zenon
<1>6. CursorsAgree(w)
  <2>1. Len(data) \in Nat /\ b.used \in Nat /\ b.used + Len(data) <= ALLOCATED_LEN
    BY <1>1, <1>2, AllocatedLen, Z3
  <2>2. increment(increment(b.read_idx, b.used), Len(data))
          = increment(b.read_idx, b.used + Len(data))
    BY <1>1, <2>1, IncrementSum, Zenon
  <2> QED BY <1>3, <1>4, <1>5, <2>2, Zenon DEF CursorsAgree
<1>7. w \in Ring
  <2>1. w.write_idx \in 0 .. ALLOCATED_LEN - 1
    BY <1>1, <1>2, <1>5, IncrementRange, Zenon
  <2>2. ASSUME NEW i \in 0 .. ALLOCATED_LEN - 1
        PROVE  w.bufmem[i] \in Byte \cup {Uninit}
    <3>1. wi <= i /\ i < wi + c1 => data[i - wi + 1] \in Byte
      BY <1>1, <1>2, <1>5, AllocatedLen, Z3
    <3>2. i < c2 => data[c1 + i + 1] \in Byte
      BY <1>1, <1>2, <1>5, AllocatedLen, Z3
    <3>3. b.bufmem[i] \in Byte \cup {Uninit}
      BY <1>1, Zenon
    <3> QED BY <1>4, <3>1, <3>2, <3>3, Z3
  <2>3. w.bufmem \in [0 .. ALLOCATED_LEN - 1 -> Byte \cup {Uninit}]
    BY <1>4, <2>2, Z3
  <2>4. w.used \in 0 .. ALLOCATED_LEN /\ w.read_idx \in 0 .. ALLOCATED_LEN - 1
    BY <1>1, <1>2, <1>4, AllocatedLen, Z3
  <2> QED BY <1>4, <2>1, <2>3, <2>4, Z3 DEF Ring
<1>8. ASSUME NEW j \in 0 .. b.used - 1
      PROVE  UnreadCell(w, j) = UnreadCell(b, j)
  <2> DEFINE i == increment(b.read_idx, j)
  <2>1. /\ i \in 0 .. ALLOCATED_LEN - 1
        /\ ~(wi <= i /\ i < wi + c1)
        /\ ~(i < c2)
    BY <1>1, <1>2, <1>3, OldCells, Zenon
  <2>2. w.bufmem[i] = b.bufmem[i]
    BY <1>4, <2>1, Zenon
  <2> QED BY <1>4, <2>2, Zenon DEF UnreadCell
<1>9. ASSUME NEW j \in 1 .. Len(data)
      PROVE  UnreadCell(w, b.used + j - 1) = data[j]
  <2> DEFINE i == increment(b.read_idx, b.used + j - 1)
  <2>1. CopiedTo(wi, Len(data), j, i)
    BY <1>1, <1>2, <1>3, NewCells, Zenon
  <2>2. w.bufmem[i] = data[j]
    BY <1>4, <2>1, Zenon DEF CopiedTo
  <2> QED BY <1>4, <2>2, Zenon DEF UnreadCell
<1> QED BY <1>4, <1>6, <1>7, <1>8, <1>9, Zenon

\* rbuf_read takes from the front: it returns the first unread bytes, and the
\* others are what is left to read.
LEMMA ReadTakesFirst ==
  ASSUME NEW b \in Ring, CursorsAgree(b),
         NEW len \in Nat, len <= rbuf_space_used(b),
         NEW r, r = rbuf_read(b, len)
  PROVE  /\ r \in Ring
         /\ CursorsAgree(r)
         /\ r.used = b.used - len
         /\ \A j \in 0 .. b.used - len - 1 : UnreadCell(r, j) = UnreadCell(b, len + j)
         /\ rbuf_read_bytes(b, len) = [j \in 1 .. len |-> UnreadCell(b, j - 1)]
<1> DEFINE ri == b.read_idx
           c1 == chunklen(ri, len)
           c2 == len - c1
<1>1. /\ ri \in 0 .. ALLOCATED_LEN - 1
      /\ b.write_idx \in 0 .. ALLOCATED_LEN - 1
      /\ b.used \in 0 .. ALLOCATED_LEN
      /\ b.bufmem \in [0 .. ALLOCATED_LEN - 1 -> Byte \cup {Uninit}]
  BY Z3 DEF Ring
<1>2. len \in 0 .. ALLOCATED_LEN /\ len <= b.used /\ b.used - len \in 0 .. ALLOCATED_LEN
  BY <1>1, AllocatedLen, Z3 DEF rbuf_space_used
<1>3. /\ r.read_idx = increment(increment(ri, c1), c2)
      /\ r.write_idx = b.write_idx
      /\ r.used = b.used - len
      /\ r.bufmem = b.bufmem
      /\ r = [bufmem |-> r.bufmem, write_idx |-> r.write_idx,
              read_idx |-> r.read_idx, used |-> r.used]
  BY Z3 DEF rbuf_read
<1>4. r.read_idx = increment(ri, len)
  BY <1>1, <1>2, <1>3, Chunks, Zenon
<1>5. CursorsAgree(r)
  <2>1. len \in Nat /\ b.used - len \in Nat /\ len + (b.used - len) <= ALLOCATED_LEN
    BY <1>1, <1>2, AllocatedLen, Z3
  <2>2. increment(increment(ri, len), b.used - len) = increment(ri, len + (b.used - len))
    BY <1>1, <2>1, IncrementSum, Zenon
  <2>3. len + (b.used - len) = b.used
    BY <1>1, <1>2, AllocatedLen, Z3
  <2> QED BY <1>3, <1>4, <2>2, <2>3, Zenon DEF CursorsAgree
<1>6. r \in Ring
  <2>1. r.read_idx \in 0 .. ALLOCATED_LEN - 1
    BY <1>1, <1>2, <1>4, IncrementRange, Zenon
  <2> QED BY <1>1, <1>2, <1>3, <2>1, Z3 DEF Ring
<1>7. ASSUME NEW j \in 0 .. b.used - len - 1
      PROVE  UnreadCell(r, j) = UnreadCell(b, len + j)
  <2>1. j \in Nat /\ len + j <= ALLOCATED_LEN
    BY <1>1, <1>2, AllocatedLen, Z3
  <2>2. increment(increment(ri, len), j) = increment(ri, len + j)
    BY <1>1, <2>1, IncrementSum, Zenon
  <2> QED BY <1>3, <1>4, <2>2, Zenon DEF UnreadCell
<1>8. ASSUME NEW j \in 1 .. len
      PROVE  rbuf_read_bytes(b, len)[j] = UnreadCell(b, j - 1)
  <2>1. increment(ri, j - 1) = IF j <= c1 THEN ri + j - 1 ELSE j - c1 - 1
    BY <1>1, <1>2, ReadCells, Zenon
  <2>2. rbuf_read_bytes(b, len)[j] = IF j <= c1 THEN b.bufmem[ri + j - 1]
                                     ELSE b.bufmem[j - c1 - 1]
    BY Zenon DEF rbuf_read_bytes
  <2>3. CASE j <= c1
    BY <2>1, <2>2, <2>3, Zenon DEF UnreadCell
  <2>4. CASE ~(j <= c1)
    BY <2>1, <2>2, <2>4, Zenon DEF UnreadCell
  <2> QED BY <2>3, <2>4
<1>9. rbuf_read_bytes(b, len) = [j \in 1 .. len |-> UnreadCell(b, j - 1)]
  BY <1>8, Z3 DEF rbuf_read_bytes
<1> QED BY <1>3, <1>5, <1>6, <1>7, <1>9, Zenon

-----------------------------------------------------------------------------
(* Layer 1: control.                                                       *)

CtlType ==
  /\ life \in {"none", "bufmem", "channel", "open"}
  /\ held \subseteq {"box", "bufmem", "pipe"}
  /\ max_msg_size \in 0 .. DYNMBOX_MAX_SIZE
  /\ lock \in Producers \cup {"none", "consumer"}
  /\ pipe \in 0 .. PipeCap
  /\ ppc \in [Producers -> {"idle", "lock", "wait", "expired",
                            "hdr", "data", "notify"}]
  /\ msg \in [Producers -> Seq(Byte)]
  /\ mode \in [Producers -> Modes]
  /\ ret \in [Producers -> {"none", "0", "EINVAL", "EAGAIN", "ETIMEDOUT", "errno"}]
  /\ cpc \in {"idle", "lock", "pop", "hdr", "data"}
  /\ cret \in {"none", "ok", "EAGAIN"}

\* The mutex: its owner is the one thread between lock and unlock.
MutexInv ==
  /\ \A p \in Producers : ppc[p] \in {"hdr", "data"} <=> lock = p
  /\ cpc \in {"pop", "hdr", "data"} <=> lock = "consumer"

\* Nobody is in a call while there is no mailbox.
LifeInv ==
  /\ life # "open" => /\ cpc = "idle"
                      /\ \A p \in Producers : ppc[p] = "idle"
                      /\ pipe = 0
  /\ life = "none" => held = {}
  /\ life = "bufmem" => held = {"box"}
  /\ life = "channel" => held = {"box", "bufmem"}
  /\ life = "open" => held = {"box", "bufmem", "pipe"}

\* A message being pushed is one of Messages, and not longer than the mailbox
\* allows.
SizeInv == \A p \in Producers : /\ Len(msg[p]) <= max_msg_size
                                /\ ppc[p] = "idle" => msg[p] = <<>>
                                /\ ppc[p] # "idle" => msg[p] \in Messages

CtlInv == CtlType /\ MutexInv /\ LifeInv /\ SizeInv

\* The initial state satisfies the control invariant.
LEMMA CtlInit == Init => CtlInv
<1> SUFFICES ASSUME Init PROVE CtlInv
  OBVIOUS
<1>1. CtlType
  BY MaxSizeAssumption, PipeCapAssumption DEF Init, CtlType, Modes
<1>2. MutexInv
  BY ProducersAssumption DEF Init, MutexInv
<1>3. LifeInv
  BY DEF Init, LifeInv
<1>4. SizeInv
  BY DEF Init, SizeInv
<1> QED BY <1>1, <1>2, <1>3, <1>4 DEF CtlInv

\* No step of dynmbox.c leaves the control invariant.
LEMMA CtlStep == CtlInv /\ [Next]_vars => CtlInv'
<1> SUFFICES ASSUME CtlInv, [Next]_vars PROVE CtlInv'
  OBVIOUS
<1> USE DEF CtlInv, CtlType, MutexInv, LifeInv, SizeInv
<1>1. ASSUME NEW n \in MaxSizes, NewBox(n) PROVE CtlInv'
  <2>1. n \in 0 .. DYNMBOX_MAX_SIZE
    <3>1. n \in Nat
      BY MaxSizesAssumption
    <3>2. n <= DYNMBOX_MAX_SIZE
      BY <1>1 DEF NewBox
    <3> QED BY <3>1, <3>2, MaxSizeAssumption
  <2>2. \A p \in Producers : msg[p] = <<>> /\ Len(msg[p]) = 0
    BY <1>1 DEF NewBox
  <2>3. SizeInv'
    BY <1>1, <2>1, <2>2 DEF NewBox, prodVars
  <2> QED BY <1>1, <2>1, <2>3 DEF NewBox, prodVars, consVars
<1>2. ASSUME NEW ok \in BOOLEAN, NewBufmem(ok) PROVE CtlInv'
  BY <1>2 DEF NewBufmem, prodVars, consVars
<1>3. ASSUME NEW ok \in BOOLEAN, NewChannel(ok) PROVE CtlInv'
  BY <1>3 DEF NewChannel, prodVars, consVars
<1>4. CASE dynmbox_destroy
  BY <1>4, PipeCapAssumption DEF dynmbox_destroy, prodVars, consVars
<1>5. ASSUME NEW p \in Producers, NEW m \in Messages, PushInvalid(p, m) \/ PushNoClock(p, m)
      PROVE  CtlInv'
  <2>1. CASE PushInvalid(p, m)
    BY <2>1 DEF PushInvalid, boxVars, consVars
  <2>2. CASE PushNoClock(p, m)
    BY <2>2 DEF PushNoClock, boxVars, consVars
  <2> QED BY <1>5, <2>1, <2>2
<1>6. ASSUME NEW p \in Producers, NEW m \in Messages, NEW md \in Modes, PushCall(p, m, md)
      PROVE  CtlInv'
  BY <1>6, MessagesAssumption DEF PushCall, boxVars, consVars
<1>7. ASSUME NEW p \in Producers, PushRefused(p) PROVE CtlInv'
  BY <1>7 DEF PushRefused, Return, boxVars, consVars, Modes
<1>8. ASSUME NEW p \in Producers, PushWait(p) PROVE CtlInv'
  BY <1>8 DEF PushWait, boxVars, prodVars, consVars
<1>9. ASSUME NEW p \in Producers, PushLock(p) PROVE CtlInv'
  BY <1>9, ProducersAssumption DEF PushLock, boxVars, prodVars, consVars
<1>10. ASSUME NEW p \in Producers, PushSpurious(p) PROVE CtlInv'
  BY <1>10 DEF PushSpurious, boxVars, prodVars, consVars
<1>11. ASSUME NEW p \in Producers, PushExpire(p) PROVE CtlInv'
  BY <1>11 DEF PushExpire, boxVars, prodVars, consVars
<1>12. ASSUME NEW p \in Producers, PushTimedOut(p) PROVE CtlInv'
  BY <1>12 DEF PushTimedOut, Return, boxVars, consVars, Modes
<1>13. ASSUME NEW p \in Producers, PushHdr(p) PROVE CtlInv'
  BY <1>13 DEF PushHdr, boxVars, prodVars, consVars
<1>14. ASSUME NEW p \in Producers, PushData(p) PROVE CtlInv'
  BY <1>14, ProducersAssumption DEF PushData, boxVars, prodVars, consVars
<1>15. ASSUME NEW p \in Producers, push_notify(p) PROVE CtlInv'
  BY <1>15, PipeCapAssumption DEF push_notify, Return, boxVars, consVars, Modes
<1>16. CASE PeekCall
  BY <1>16 DEF PeekCall, boxVars, prodVars
<1>17. CASE PeekEmpty
  BY <1>17 DEF PeekEmpty, boxVars, prodVars
<1>18. CASE PeekLock
  BY <1>18, ProducersAssumption DEF PeekLock, boxVars, prodVars
<1>19. CASE pop_notify
  BY <1>19, PipeCapAssumption DEF pop_notify, boxVars, prodVars
<1>20. CASE PeekHdr
  BY <1>20 DEF PeekHdr, boxVars, prodVars
<1>21. CASE PeekData
  <2>1. /\ cpc = "data" /\ cpc' = "idle" /\ lock' = "none" /\ cret' = "ok"
        /\ UNCHANGED <<life, held, max_msg_size, pipe, msg, mode, ret>>
        /\ cond_signal
    BY <1>21 DEF PeekData, boxVars, prodVars
  <2>2. CASE ppc' = ppc
    BY <2>1, <2>2, ProducersAssumption
  <2>3. ASSUME NEW p \in Producers, ppc[p] = "wait", ppc' = [ppc EXCEPT ![p] = "lock"]
        PROVE  CtlInv'
    BY <2>1, <2>3, ProducersAssumption
  <2> QED BY <2>1, <2>2, <2>3 DEF cond_signal, Waiting
<1>22. CASE UNCHANGED vars
  BY <1>22 DEF vars, boxVars, prodVars, consVars
<1> QED
  BY <1>1, <1>2, <1>3, <1>4, <1>5, <1>6, <1>7, <1>8, <1>9, <1>10, <1>11, <1>12,
     <1>13, <1>14, <1>15, <1>16, <1>17, <1>18, <1>19, <1>20, <1>21, <1>22
     DEF Next, Lifecycle, Producer, Consumer

-----------------------------------------------------------------------------
(* Layer 2: the ring.                                                      *)

RingType == /\ rb \in Ring
            /\ hdrlen \in Nat
            /\ out \in Seq(Byte)
            /\ queue \in Seq(Seq(Byte))
            /\ offs \in Seq(Int)

\* At least a header lies between two frames: what contiguity gives, in a form
\* that needs no induction on the number of frames.
OffsOrdered ==
  \A i, j \in 1 .. Len(offs) : i < j => offs[j] >= offs[i] + HdrSize * (j - i)

QueueSizes == \A k \in 1 .. Len(queue) : Len(queue[k]) <= max_msg_size

\* A peek past its test of the ring has a message to read.
PeekInv == cpc \in {"pop", "hdr", "data"} => queue # <<>>

ClosedInv == life # "open" => rb = EmptyRing /\ queue = <<>> /\ offs = <<0>>

RingInv == /\ RingType /\ FramesMatchRing /\ OffsOrdered /\ QueueSizes
           /\ AssertionsHold /\ PeekInv /\ ClosedInv

\* A frame whose cells all keep their contents is still in the ring.
LEMMA KeepFrame ==
  ASSUME NEW b, NEW w, NEW u \in Nat,
         \A j \in 0 .. u - 1 : UnreadCell(w, j) = UnreadCell(b, j),
         NEW at \in Int, NEW m \in Seq(Byte),
         at >= -HdrSize, at + HdrSize + Len(m) <= u,
         FrameInRing(b, at, m)
  PROVE  FrameInRing(w, at, m)
<1>1. Len(m) \in Nat
  BY Z3
<1>2. ASSUME at >= 0 PROVE HeaderAt(w, at, Len(m))
  <2> SUFFICES ASSUME NEW j \in 1 .. HdrSize
               PROVE  UnreadCell(w, at + j - 1) = EncodeHdr(Len(m))[j]
    BY Zenon DEF HeaderAt
  <2>1. at + j - 1 \in 0 .. u - 1
    BY <1>1, <1>2, Z3 DEF HdrSize
  <2>2. UnreadCell(b, at + j - 1) = EncodeHdr(Len(m))[j]
    BY <1>2, Zenon DEF FrameInRing, HeaderAt
  <2> QED BY <2>1, <2>2, Zenon
<1>3. DataAt(w, at + HdrSize, m)
  <2> SUFFICES ASSUME NEW j \in 1 .. Len(m)
               PROVE  UnreadCell(w, at + HdrSize + j - 1) = m[j]
    BY Zenon DEF DataAt
  <2>1. at + HdrSize + j - 1 \in 0 .. u - 1
    BY <1>1, Z3 DEF HdrSize
  <2>2. UnreadCell(b, at + HdrSize + j - 1) = m[j]
    BY Zenon DEF FrameInRing, DataAt
  <2> QED BY <2>1, <2>2, Zenon
<1> QED BY <1>2, <1>3, Zenon DEF FrameInRing

\* A frame moves towards the read cursor by what is read.
LEMMA ShiftFrame ==
  ASSUME NEW b, NEW r, NEW u \in Nat, NEW len \in Nat,
         \A j \in 0 .. u - len - 1 : UnreadCell(r, j) = UnreadCell(b, len + j),
         NEW at \in Int, NEW m \in Seq(Byte),
         at + HdrSize >= len, at + HdrSize + Len(m) <= u,
         FrameInRing(b, at, m)
  PROVE  FrameInRing(r, at - len, m)
<1>1. Len(m) \in Nat
  BY Z3
<1>2. ASSUME at - len >= 0 PROVE HeaderAt(r, at - len, Len(m))
  <2> SUFFICES ASSUME NEW j \in 1 .. HdrSize
               PROVE  UnreadCell(r, at - len + j - 1) = EncodeHdr(Len(m))[j]
    BY Zenon DEF HeaderAt
  <2>1. /\ at - len + j - 1 \in 0 .. u - len - 1
        /\ len + (at - len + j - 1) = at + j - 1
        /\ at >= 0
    BY <1>1, <1>2, Z3 DEF HdrSize
  <2>2. UnreadCell(b, at + j - 1) = EncodeHdr(Len(m))[j]
    BY <2>1, Zenon DEF FrameInRing, HeaderAt
  <2>3. UnreadCell(r, at - len + j - 1) = UnreadCell(b, len + (at - len + j - 1))
    BY <2>1, Zenon
  <2> QED BY <2>1, <2>2, <2>3, Zenon
<1>3. DataAt(r, at - len + HdrSize, m)
  <2> SUFFICES ASSUME NEW j \in 1 .. Len(m)
               PROVE  UnreadCell(r, at - len + HdrSize + j - 1) = m[j]
    BY Zenon DEF DataAt
  <2>1. /\ at - len + HdrSize + j - 1 \in 0 .. u - len - 1
        /\ len + (at - len + HdrSize + j - 1) = at + HdrSize + j - 1
    BY <1>1, Z3 DEF HdrSize
  <2>2. UnreadCell(b, at + HdrSize + j - 1) = m[j]
    BY Zenon DEF FrameInRing, DataAt
  <2>3. UnreadCell(r, at - len + HdrSize + j - 1)
          = UnreadCell(b, len + (at - len + HdrSize + j - 1))
    BY <2>1, Zenon
  <2> QED BY <2>1, <2>2, <2>3, Zenon
<1> QED BY <1>2, <1>3, Zenon DEF FrameInRing

\* Every frame lies between the read cursor (the header being read apart) and
\* the end of the complete frames.
LEMMA FrameBounds ==
  ASSUME RingInv, NEW k \in 1 .. Len(queue)
  PROVE  /\ offs[k] \in Int
         /\ queue[k] \in Seq(Byte)
         /\ offs[k] >= -HdrSize
         /\ offs[k] + HdrSize + Len(queue[k]) <= Framed
         /\ cpc # "data" => offs[k] >= 0
         /\ cpc = "data" /\ k > 1 => offs[k] >= hdrlen
<1> DEFINE N == Len(queue)
<1>0. queue \in Seq(Seq(Byte)) /\ offs \in Seq(Int) /\ Len(offs) = N + 1
  BY DEF RingInv, RingType, FramesMatchRing, FramesContiguous
<1>a. N \in Nat /\ k \in Nat /\ 1 <= k /\ k <= N
  BY <1>0
<1>b. queue[k] \in Seq(Byte)
  BY <1>0
<1>c. Len(queue[k]) \in Nat
  BY <1>b
<1>d. \A i \in 1 .. N + 1 : offs[i] \in Int
  BY <1>0
<1>1. /\ N \in Nat /\ k \in Nat /\ 1 <= k /\ k <= N /\ Len(offs) = N + 1
      /\ offs[1] \in Int /\ offs[k] \in Int /\ offs[k + 1] \in Int /\ offs[N + 1] \in Int
      /\ queue[k] \in Seq(Byte) /\ Len(queue[k]) \in Nat
  BY <1>0, <1>a, <1>b, <1>c, <1>d
<1>2. /\ offs[1] = IF cpc = "data" THEN -HdrSize ELSE 0
      /\ offs[N + 1] = Framed
      /\ offs[k + 1] = offs[k] + HdrSize + Len(queue[k])
  BY <1>1, Zenon DEF RingInv, FramesMatchRing, FramesContiguous
<1>3. offs[k] >= offs[1]
  <2>1. CASE k = 1
    BY <1>1, <2>1
  <2>2. CASE k > 1
    <3>1. 1 \in 1 .. Len(offs) /\ k \in 1 .. Len(offs) /\ 1 < k
      BY <1>1, <2>2
    <3>2. offs[k] >= offs[1] + HdrSize * (k - 1)
      BY <3>1, Zenon DEF RingInv, OffsOrdered
    <3> QED BY <1>1, <2>2, <3>2 DEF HdrSize
  <2> QED BY <1>1, <2>1, <2>2
<1>4. offs[k + 1] <= Framed
  <2>1. CASE k = N
    BY <1>1, <1>2, <2>1
  <2>2. CASE k < N
    <3>1. k + 1 \in 1 .. Len(offs) /\ N + 1 \in 1 .. Len(offs) /\ k + 1 < N + 1
      BY <1>1, <2>2
    <3>2. offs[N + 1] >= offs[k + 1] + HdrSize * ((N + 1) - (k + 1))
      BY <3>1, Zenon DEF RingInv, OffsOrdered
    <3> QED BY <1>1, <1>2, <2>2, <3>2 DEF HdrSize
  <2> QED BY <1>1, <2>1, <2>2
<1>5. ASSUME cpc = "data", k > 1 PROVE offs[k] >= hdrlen
  <2>1. /\ 1 \in 1 .. N /\ 2 \in 1 .. Len(offs) /\ k \in 1 .. Len(offs)
        /\ queue[1] \in Seq(Byte) /\ Len(queue[1]) \in Nat /\ offs[2] \in Int
    <3>1. 1 \in 1 .. N /\ 2 \in 1 .. N + 1 /\ k \in 1 .. N + 1
      BY <1>a, <1>5
    <3>2. queue[1] \in Seq(Byte)
      BY <1>0, <3>1
    <3>3. Len(queue[1]) \in Nat
      BY <3>2
    <3> QED BY <1>0, <1>d, <3>1, <3>2, <3>3
  <2>2. offs[1 + 1] = offs[1] + HdrSize + Len(queue[1]) /\ hdrlen = Len(queue[1])
    BY <1>5, <2>1, Zenon DEF RingInv, FramesMatchRing, FramesContiguous
  <2>3. offs[2] = hdrlen
    BY <1>1, <1>2, <1>5, <2>1, <2>2 DEF HdrSize
  <2>4. CASE k = 2
    BY <2>1, <2>3, <2>4
  <2>5. CASE k > 2
    <3>1. offs[k] >= offs[2] + HdrSize * (k - 2)
      BY <2>1, <2>5, Zenon DEF RingInv, OffsOrdered
    <3> QED BY <1>1, <2>1, <2>3, <2>5, <3>1 DEF HdrSize
  <2> QED BY <1>1, <1>5, <2>4, <2>5
<1>6. offs[k] >= -HdrSize /\ (cpc # "data" => offs[k] >= 0)
  BY <1>1, <1>2, <1>3 DEF HdrSize
<1>7. offs[k] + HdrSize + Len(queue[k]) <= Framed
  BY <1>2, <1>4, Zenon
<1> QED BY <1>1, <1>5, <1>6, <1>7

\* A step that leaves the ring, the frames and who is in the middle of a frame
\* alone keeps the ring invariant, given the parts that mention control.
LEMMA LightStep ==
  ASSUME RingInv,
         rb' = rb, history' = history, hdrlen' = hdrlen, out' = out,
         max_msg_size' = max_msg_size,
         \A p \in Producers : ppc'[p] = "data" <=> ppc[p] = "data",
         \A p \in Producers : ppc[p] = "data" => msg'[p] = msg[p],
         cpc' = "data" <=> cpc = "data",
         AssertionsHold', PeekInv', ClosedInv'
  PROVE  RingInv'
<1>1. RingType'
  BY DEF RingInv, RingType, history
<1>2. Framed' = Framed
  BY DEF Framed, HalfWritten
<1>3. FramesMatchRing'
  BY <1>2 DEF RingInv, FramesMatchRing, FramesContiguous, history
<1>4. OffsOrdered' /\ QueueSizes'
  BY DEF RingInv, OffsOrdered, QueueSizes, history
<1> QED BY <1>1, <1>3, <1>4 DEF RingInv

\* There is no mailbox, or an empty one that nobody uses.
Quiet == /\ rb = EmptyRing /\ queue = <<>> /\ offs = <<0>>
         /\ cpc = "idle" /\ \A p \in Producers : ppc[p] = "idle"
         /\ hdrlen \in Nat /\ out \in Seq(Byte)

\* The empty ring satisfies the invariant.
LEMMA QuietRing == Quiet => RingInv
<1> SUFFICES ASSUME Quiet PROVE RingInv
  OBVIOUS
<1>1. EmptyRing \in Ring /\ CursorsAgree(EmptyRing) /\ EmptyRing.used = 0
  BY AllocatedLen DEF EmptyRing, Ring, CursorsAgree, increment
<1>2. Framed = 0
  BY <1>1 DEF Quiet, Framed, HalfWritten
<1>3. Len(queue) = 0 /\ Len(offs) = 1 /\ offs[1] = 0 /\ offs \in Seq(Int)
      /\ queue \in Seq(Seq(Byte))
  BY DEF Quiet
<1>4. RingType
  BY <1>1, <1>3 DEF Quiet, RingType
<1>5. FramesMatchRing
  BY <1>1, <1>2, <1>3 DEF Quiet, FramesMatchRing, FramesContiguous
<1>6. OffsOrdered /\ QueueSizes
  BY <1>3 DEF OffsOrdered, QueueSizes
<1>7. AssertionsHold /\ PeekInv /\ ClosedInv
  BY DEF Quiet, AssertionsHold, PeekInv, ClosedInv
<1> QED BY <1>4, <1>5, <1>6, <1>7 DEF RingInv

\* Unless a producer is between header and data, all used bytes are frames.
LEMMA AllFramed ==
  ASSUME CtlInv, RingInv, \A p \in Producers : lock = p => ppc[p] = "hdr"
  PROVE  ~HalfWritten /\ Framed = rb.used
<1>1. ~HalfWritten
  BY DEF CtlInv, MutexInv, HalfWritten
<1>2. rb.used \in Int
  BY AllocatedLen DEF RingInv, RingType, Ring
<1> QED BY <1>1, <1>2 DEF Framed

\* The steps of dynmbox_new and dynmbox_destroy.
LEMMA RingLifecycle == CtlInv /\ RingInv /\ Lifecycle => RingInv'
<1> SUFFICES ASSUME CtlInv, RingInv, Lifecycle PROVE RingInv'
  OBVIOUS
<1>1. hdrlen \in Nat /\ out \in Seq(Byte)
  BY DEF RingInv, RingType
<1>2. ASSUME life # "open" PROVE Quiet
  BY <1>1, <1>2 DEF CtlInv, LifeInv, RingInv, ClosedInv, Quiet
<1>3. ASSUME NEW n \in MaxSizes, NewBox(n) PROVE Quiet'
  BY <1>2, <1>3 DEF NewBox, prodVars, consVars, history, Quiet
<1>4. ASSUME NEW ok \in BOOLEAN, NewBufmem(ok) PROVE Quiet'
  BY <1>2, <1>4 DEF NewBufmem, prodVars, consVars, history, Quiet
<1>5. ASSUME NEW ok \in BOOLEAN, NewChannel(ok) PROVE Quiet'
  BY <1>2, <1>5 DEF NewChannel, prodVars, consVars, history, Quiet
<1>6. ASSUME dynmbox_destroy PROVE Quiet'
  BY <1>1, <1>6 DEF dynmbox_destroy, prodVars, Quiet
<1>7. Quiet'
  BY <1>3, <1>4, <1>5, <1>6, Zenon DEF Lifecycle
<1> QED BY <1>7, QuietRing, PTL

\* A natural number up to the mailbox's limit is a size.
LEMMA SizeBound ==
  ASSUME NEW n \in Nat, NEW mx \in 0 .. DYNMBOX_MAX_SIZE, n <= mx
  PROVE  n \in Size
<1>1. DYNMBOX_MAX_SIZE \in Int /\ DYNMBOX_MAX_SIZE <= 65535
  BY MaxSizeAssumption, Z3
<1>2. n <= 65535
  BY <1>1, Z3
<1> QED BY <1>2, Z3 DEF Size

\* Room for header and data is room for the header, and then for the data.
LEMMA RoomSplit ==
  ASSUME NEW n \in Nat, NEW left \in Int, n + HdrSize <= left
  PROVE  HdrSize <= left /\ n <= left - HdrSize
BY Z3 DEF HdrSize

\* do_push writes the header: no frame moves, the header is behind the last.
LEMMA RingPushHdr ==
  ASSUME CtlInv, RingInv, NEW p \in Producers, PushHdr(p)
  PROVE  RingInv'
<1> DEFINE n == Len(msg[p])
<1>1. /\ ppc[p] = "hdr" /\ lock = p
      /\ \A q \in Producers : q # p => ppc[q] \notin {"hdr", "data"}
      /\ cpc \notin {"pop", "hdr", "data"}
  BY ProducersAssumption DEF PushHdr, CtlInv, MutexInv
<1>2. /\ rb' = rbuf_write(rb, EncodeHdr(n))
      /\ ppc' = [ppc EXCEPT ![p] = "data"]
      /\ queue' = queue /\ offs' = offs /\ hdrlen' = hdrlen /\ out' = out
      /\ cpc' = cpc /\ max_msg_size' = max_msg_size /\ life' = life /\ msg' = msg
  BY DEF PushHdr, boxVars, prodVars, consVars, history
<1>3. ppc'[p] = "data" /\ \A q \in Producers : q # p => ppc'[q] = ppc[q]
  BY <1>2 DEF CtlInv, CtlType
<1>4. ~HalfWritten /\ Framed = rb.used
  BY <1>1, AllFramed
<1>5. rb \in Ring /\ CursorsAgree(rb) /\ rb.used \in Nat
  BY AllocatedLen DEF RingInv, RingType, FramesMatchRing, Ring
<1>6. n \in Size
  <2>1. msg[p] \in Seq(Byte) /\ n <= max_msg_size /\ max_msg_size \in 0 .. DYNMBOX_MAX_SIZE
    BY DEF CtlInv, CtlType, SizeInv
  <2>2. n \in Nat
    BY <2>1
  <2> QED BY <2>1, <2>2, SizeBound, Zenon
<1>7. EncodeHdr(n) \in Seq(Byte) /\ Len(EncodeHdr(n)) = HdrSize
  BY <1>6, HdrRoundTrip, Zenon
<1>8. n + HdrSize <= rbuf_space_left(rb)
  BY <1>1 DEF RingInv, AssertionsHold
<1>9. Len(EncodeHdr(n)) <= rbuf_space_left(rb) /\ n <= rbuf_space_left(rb) - HdrSize
  <2>1. n \in Nat
    BY DEF CtlInv, CtlType
  <2>2. rbuf_space_left(rb) \in Int
    BY <1>5, AllocatedLen DEF rbuf_space_left
  <2> QED BY <1>7, <1>8, <2>1, <2>2, RoomSplit, Zenon
<1>10. /\ rb' \in Ring
       /\ CursorsAgree(rb')
       /\ rb'.used = rb.used + Len(EncodeHdr(n))
       /\ \A j \in 0 .. rb.used - 1 : UnreadCell(rb', j) = UnreadCell(rb, j)
       /\ \A j \in 1 .. Len(EncodeHdr(n)) :
            UnreadCell(rb', rb.used + j - 1) = EncodeHdr(n)[j]
  BY <1>2, <1>5, <1>7, <1>9, WriteAppends, Zenon
<1>11. rb'.used = rb.used + HdrSize
  BY <1>7, <1>10, Zenon
<1>12. HalfWritten' /\ Framed' = rb.used
  <2>1. HalfWritten'
    BY <1>3 DEF HalfWritten
  <2> QED BY <1>5, <1>11, <2>1 DEF Framed, HdrSize
<1>13. RingType'
  BY <1>2, <1>10 DEF RingInv, RingType
<1>14. FramesMatchRing'
  <2>1. FramesContiguous'
    BY <1>2, <1>4, <1>12 DEF RingInv, FramesMatchRing, FramesContiguous
  <2>2. ASSUME NEW k \in 1 .. Len(queue)
        PROVE  FrameInRing(rb', offs[k], queue[k])
    <3>1. FrameInRing(rb, offs[k], queue[k])
      BY DEF RingInv, FramesMatchRing
    <3>2. /\ offs[k] \in Int /\ queue[k] \in Seq(Byte) /\ offs[k] >= -HdrSize
          /\ offs[k] + HdrSize + Len(queue[k]) <= rb.used
      BY <1>4, FrameBounds
    <3> QED BY <1>5, <1>10, <3>1, <3>2, KeepFrame, Zenon
  <2>3. HeaderAt(rb', rb.used, n)
    BY <1>7, <1>10, Zenon DEF HeaderAt
  <2>4. ASSUME NEW q \in Producers, ppc'[q] = "data" PROVE HeaderAt(rb', Framed', Len(msg'[q]))
    <3>1. q = p
      BY <1>1, <1>3, <2>4
    <3> QED BY <1>2, <1>12, <2>3, <3>1
  <2>5. cpc' = "data" => hdrlen' = Len(queue'[1])
    BY <1>1, <1>2
  <2> QED BY <1>2, <1>10, <2>1, <2>2, <2>4, <2>5, Zenon DEF FramesMatchRing
<1>15. OffsOrdered' /\ QueueSizes' /\ PeekInv' /\ ClosedInv'
  <2>1. life = "open"
    BY <1>1 DEF CtlInv, LifeInv
  <2> QED BY <1>2, <2>1 DEF RingInv, OffsOrdered, QueueSizes, PeekInv, ClosedInv
<1>16. AssertionsHold'
  <2>1. n <= rbuf_space_left(rb')
    <3>1. rbuf_space_left(rb') = rbuf_space_left(rb) - HdrSize
      BY <1>5, <1>11, AllocatedLen DEF rbuf_space_left, HdrSize
    <3> QED BY <1>9, <3>1, Zenon
  <2>2. ASSUME NEW q \in Producers
        PROVE  ppc'[q] # "hdr" /\ (ppc'[q] = "data" => q = p)
    BY <1>1, <1>3
  <2>3. cpc' \notin {"hdr", "data"}
    BY <1>1, <1>2
  <2> QED BY <1>2, <2>1, <2>2, <2>3 DEF AssertionsHold
<1> QED BY <1>13, <1>14, <1>15, <1>16 DEF RingInv

\* do_push writes the data: the frame is complete, and is the last one.
LEMMA RingPushData ==
  ASSUME CtlInv, RingInv, NEW p \in Producers, PushData(p)
  PROVE  RingInv'
<1> DEFINE m == msg[p]
           N == Len(queue)
<1>1. /\ ppc[p] = "data" /\ lock = p
      /\ \A q \in Producers : q # p => ppc[q] \notin {"hdr", "data"}
      /\ cpc \notin {"pop", "hdr", "data"}
  BY ProducersAssumption DEF PushData, CtlInv, MutexInv
<1>2. /\ rb' = rbuf_write(rb, m)
      /\ ppc' = [ppc EXCEPT ![p] = "notify"]
      /\ queue' = Append(queue, m) /\ offs' = Append(offs, rb.used + Len(m))
      /\ hdrlen' = hdrlen /\ out' = out
      /\ cpc' = cpc /\ max_msg_size' = max_msg_size /\ life' = life /\ msg' = msg
  BY DEF PushData, boxVars, prodVars, consVars
<1>3. \A q \in Producers : ppc'[q] \notin {"hdr", "data"}
  BY <1>1, <1>2 DEF CtlInv, CtlType
<1>4. rb \in Ring /\ CursorsAgree(rb) /\ rb.used \in Nat
  BY AllocatedLen DEF RingInv, RingType, FramesMatchRing, Ring
<1>5. m \in Seq(Byte) /\ Len(m) <= max_msg_size
  BY DEF CtlInv, CtlType, SizeInv
<1>6. Len(m) \in Nat
  BY <1>5
<1>7. Len(m) <= rbuf_space_left(rb)
  BY <1>1 DEF RingInv, AssertionsHold
<1>8. /\ rb' \in Ring
      /\ CursorsAgree(rb')
      /\ rb'.used = rb.used + Len(m)
      /\ \A j \in 0 .. rb.used - 1 : UnreadCell(rb', j) = UnreadCell(rb, j)
      /\ \A j \in 1 .. Len(m) : UnreadCell(rb', rb.used + j - 1) = m[j]
  BY <1>2, <1>4, <1>5, <1>7, WriteAppends, ZenonT(60)
<1>9. Framed = rb.used - HdrSize
  BY <1>1 DEF Framed, HalfWritten
<1>10. Framed' = rb.used + Len(m)
  <2>1. ~HalfWritten'
    BY <1>3 DEF HalfWritten
  <2> QED BY <1>4, <1>6, <1>8, <2>1 DEF Framed
<1>11. /\ queue \in Seq(Seq(Byte)) /\ offs \in Seq(Int) /\ N \in Nat /\ Len(offs) = N + 1
       /\ offs[N + 1] = rb.used - HdrSize /\ offs[1] = 0
  BY <1>1, <1>9 DEF RingInv, RingType, FramesMatchRing, FramesContiguous
<1>12. rb.used >= HdrSize
  <2>1. CASE N = 0
    BY <1>4, <1>11, <2>1 DEF HdrSize
  <2>2. CASE N > 0
    <3>1. 1 \in 1 .. Len(offs) /\ N + 1 \in 1 .. Len(offs) /\ 1 < N + 1
      BY <1>11, <2>2
    <3>2. offs[N + 1] >= offs[1] + HdrSize * ((N + 1) - 1)
      BY <3>1, Zenon DEF RingInv, OffsOrdered
    <3> QED BY <1>4, <1>11, <2>2, <3>2 DEF HdrSize
  <2> QED BY <1>11, <2>1, <2>2
<1> HIDE DEF m
<1>13. /\ queue' \in Seq(Seq(Byte)) /\ offs' \in Seq(Int)
       /\ Len(queue') = N + 1 /\ Len(offs') = N + 2
       /\ queue'[N + 1] = m /\ offs'[N + 2] = rb.used + Len(m)
  BY <1>2, <1>4, <1>5, <1>6, <1>11
<1>14. /\ \A k \in 1 .. N : queue'[k] = queue[k]
       /\ \A k \in 1 .. N + 1 : offs'[k] = offs[k] /\ offs[k] \in Int
  BY <1>2, <1>4, <1>6, <1>11
<1>15. RingType'
  BY <1>2, <1>8, <1>13 DEF RingInv, RingType
<1>16. FramesContiguous'
  <2>1. offs'[1] = 0 /\ cpc' # "data"
    BY <1>1, <1>2, <1>11, <1>14
  <2>2. ASSUME NEW k \in 1 .. N + 1
        PROVE  offs'[k + 1] = offs'[k] + HdrSize + Len(queue'[k])
    <3>1. CASE k \in 1 .. N
      <4>1. offs[k + 1] = offs[k] + HdrSize + Len(queue[k])
        BY <3>1 DEF RingInv, FramesMatchRing, FramesContiguous
      <4>2. k + 1 \in 1 .. N + 1 /\ k \in 1 .. N + 1
        BY <1>11, <3>1
      <4> QED BY <1>14, <3>1, <4>1, <4>2, Zenon
    <3>2. CASE k = N + 1
      <4>1. offs'[N + 1] = rb.used - HdrSize
        BY <1>11, <1>14
      <4>2. N + 1 + 1 = N + 2
        BY <1>11
      <4> QED BY <1>4, <1>6, <1>13, <3>2, <4>1, <4>2 DEF HdrSize
    <3> QED BY <1>11, <3>1, <3>2
  <2> QED BY <1>10, <1>11, <1>13, <2>1, <2>2 DEF FramesContiguous
<1>17. ASSUME NEW k \in 1 .. N + 1 PROVE FrameInRing(rb', offs'[k], queue'[k])
  <2>1. CASE k \in 1 .. N
    <3>1. FrameInRing(rb, offs[k], queue[k])
      BY <2>1 DEF RingInv, FramesMatchRing
    <3>2. /\ offs[k] \in Int /\ queue[k] \in Seq(Byte) /\ offs[k] >= -HdrSize
          /\ offs[k] + HdrSize + Len(queue[k]) <= Framed
      BY <2>1, FrameBounds
    <3>3. Len(queue[k]) \in Nat
      BY <3>2
    <3>4. offs[k] + HdrSize + Len(queue[k]) <= rb.used
      BY <1>4, <1>9, <3>2, <3>3, SMTT(30) DEF HdrSize
    <3>5. FrameInRing(rb', offs[k], queue[k])
      BY <1>4, <1>8, <3>1, <3>2, <3>4, KeepFrame, Zenon
    <3> QED BY <1>11, <1>14, <2>1, <3>5
  <2>2. CASE k = N + 1
    <3>1. HeaderAt(rb, rb.used - HdrSize, Len(m))
      BY <1>1, <1>9 DEF RingInv, FramesMatchRing, m
    <3>2. HeaderAt(rb', rb.used - HdrSize, Len(m))
      <4> SUFFICES ASSUME NEW j \in 1 .. HdrSize
                   PROVE  UnreadCell(rb', rb.used - HdrSize + j - 1) = EncodeHdr(Len(m))[j]
        BY Zenon DEF HeaderAt
      <4>1. rb.used - HdrSize + j - 1 \in 0 .. rb.used - 1
        BY <1>4, <1>12, SMTT(30) DEF HdrSize
      <4> QED BY <1>8, <3>1, <4>1, Zenon DEF HeaderAt
    <3>3. rb.used - HdrSize + HdrSize = rb.used
      BY <1>4 DEF HdrSize
    <3>4. DataAt(rb', rb.used, m)
      BY <1>8, Zenon DEF DataAt
    <3>5. FrameInRing(rb', rb.used - HdrSize, m)
      BY <3>2, <3>3, <3>4, Zenon DEF FrameInRing
    <3>6. offs'[k] = rb.used - HdrSize /\ queue'[k] = m
      BY <1>11, <1>13, <1>14, <2>2
    <3> QED BY <3>5, <3>6, Zenon
  <2> QED BY <1>11, <2>1, <2>2
<1>18. FramesMatchRing'
  <2>1. \A q \in Producers : ppc'[q] # "data"
    BY <1>3
  <2>2. cpc' # "data"
    BY <1>1, <1>2
  <2> QED BY <1>8, <1>13, <1>16, <1>17, <2>1, <2>2, Zenon DEF FramesMatchRing
<1>19. OffsOrdered'
  <2> SUFFICES ASSUME NEW i \in 1 .. N + 2, NEW j \in 1 .. N + 2, i < j
               PROVE  offs'[j] >= offs'[i] + HdrSize * (j - i)
    BY <1>13, Zenon DEF OffsOrdered
  <2>1. CASE j \in 1 .. N + 1
    <3>1. i \in 1 .. N + 1
      BY <1>11, <2>1
    <3>2. offs[j] >= offs[i] + HdrSize * (j - i)
      BY <1>11, <2>1, <3>1, Zenon DEF RingInv, OffsOrdered
    <3> QED BY <1>14, <2>1, <3>1, <3>2, Zenon
  <2>2. CASE j = N + 2
    <3>1. i \in 1 .. N + 1 /\ N + 1 \in 1 .. N + 1
      BY <1>11, <2>2
    <3>2. offs'[j] = offs[N + 1] + HdrSize + Len(m) /\ offs[N + 1] \in Int /\ offs[i] \in Int
      BY <1>4, <1>6, <1>11, <1>13, <1>14, <2>2, <3>1, SMTT(30) DEF HdrSize
    <3>3. CASE i = N + 1
      BY <1>6, <1>11, <1>14, <2>2, <3>1, <3>2, <3>3 DEF HdrSize
    <3>4. CASE i < N + 1
      <4>1. offs[N + 1] >= offs[i] + HdrSize * ((N + 1) - i)
        BY <1>11, <3>1, <3>4, Zenon DEF RingInv, OffsOrdered
      <4>2. offs'[i] = offs[i] /\ i \in Int /\ N \in Int
        BY <1>11, <1>14, <3>1
      <4>3. j - i = ((N + 1) - i) + 1
        BY <2>2, <4>2
      <4>4. offs[N + 1] + HdrSize + Len(m) >= offs[i] + HdrSize * (((N + 1) - i) + 1)
        BY <1>6, <3>2, <4>1, <4>2 DEF HdrSize
      <4> QED BY <3>2, <4>2, <4>3, <4>4, Zenon
    <3> QED BY <1>11, <3>1, <3>3, <3>4
  <2> QED BY <1>11, <2>1, <2>2
<1>20. QueueSizes'
  <2> SUFFICES ASSUME NEW k \in 1 .. N + 1 PROVE Len(queue'[k]) <= max_msg_size
    BY <1>2, <1>13, Zenon DEF QueueSizes
  <2>1. CASE k \in 1 .. N
    BY <1>14, <2>1, Zenon DEF RingInv, QueueSizes
  <2>2. CASE k = N + 1
    BY <1>5, <1>13, <2>2, Zenon
  <2> QED BY <1>11, <2>1, <2>2
<1>21. AssertionsHold' /\ PeekInv' /\ ClosedInv'
  <2>1. life = "open"
    BY <1>1 DEF CtlInv, LifeInv
  <2>2. cpc' \notin {"pop", "hdr", "data"} /\ life' = "open"
    BY <1>1, <1>2, <2>1
  <2> QED BY <1>3, <2>2 DEF AssertionsHold, PeekInv, ClosedInv
<1> QED BY <1>15, <1>18, <1>19, <1>20, <1>21 DEF RingInv

\* The header at the read cursor decodes to the size of the first message.
LEMMA HeaderRead ==
  ASSUME NEW b, NEW n \in Size, HeaderAt(b, 0, n),
         rbuf_read_bytes(b, HdrSize) = [j \in 1 .. HdrSize |-> UnreadCell(b, j - 1)]
  PROVE  DecodeHdr(rbuf_read_bytes(b, HdrSize)) = n
<1>1. ASSUME NEW j \in 1 .. HdrSize
      PROVE  UnreadCell(b, j - 1) = EncodeHdr(n)[j]
  <2>1. 0 + j - 1 = j - 1
    BY DEF HdrSize
  <2> QED BY <2>1, Zenon DEF HeaderAt
<1>2. rbuf_read_bytes(b, HdrSize) = EncodeHdr(n)
  <2> DEFINE f == [j \in 1 .. HdrSize |-> UnreadCell(b, j - 1)]
  <2>1. DOMAIN EncodeHdr(n) = 1 .. HdrSize
    BY Zenon DEF EncodeHdr
  <2>2. EncodeHdr(n) = [j \in 1 .. HdrSize |-> EncodeHdr(n)[j]]
    BY Zenon DEF EncodeHdr
  <2>3. f = [j \in 1 .. HdrSize |-> EncodeHdr(n)[j]]
    BY <1>1, Zenon
  <2> QED BY <2>2, <2>3, Zenon
<1> QED BY <1>2, HdrRoundTrip, Zenon

\* do_peek reads the header: every frame moves one header closer, and hdr is
\* the size of the first message.
LEMMA RingPeekHdr ==
  ASSUME CtlInv, RingInv, PeekHdr
  PROVE  RingInv'
<1> DEFINE N == Len(queue)
           n == Len(queue[1])
<1>1. /\ cpc = "hdr" /\ lock = "consumer" /\ life = "open"
      /\ \A q \in Producers : ppc[q] \notin {"hdr", "data"}
  BY ProducersAssumption DEF PeekHdr, CtlInv, MutexInv, LifeInv
<1>2. /\ rb' = rbuf_read(rb, HdrSize)
      /\ hdrlen' = DecodeHdr(rbuf_read_bytes(rb, HdrSize))
      /\ offs' = [k \in 1 .. Len(offs) |-> offs[k] - HdrSize]
      /\ cpc' = "data"
      /\ ppc' = ppc /\ queue' = queue /\ out' = out
      /\ max_msg_size' = max_msg_size /\ life' = life /\ msg' = msg
  BY DEF PeekHdr, boxVars, prodVars
<1>3. ~HalfWritten /\ Framed = rb.used
  BY <1>1, ProducersAssumption, AllFramed
<1>4. rb \in Ring /\ CursorsAgree(rb) /\ rb.used \in Nat
  BY AllocatedLen DEF RingInv, RingType, FramesMatchRing, Ring
<1>5. /\ queue \in Seq(Seq(Byte)) /\ offs \in Seq(Int) /\ N \in Nat /\ Len(offs) = N + 1
      /\ offs[N + 1] = rb.used /\ offs[1] = 0 /\ queue # <<>>
  BY <1>1, <1>3 DEF RingInv, RingType, FramesMatchRing, FramesContiguous, PeekInv
<1>6. 1 \in 1 .. N /\ queue[1] \in Seq(Byte)
  BY <1>5
<1>7. n \in Nat
  BY <1>6
<1>8. n \in Size /\ n <= max_msg_size
  <2>1. n <= max_msg_size
    BY <1>6, Zenon DEF RingInv, QueueSizes
  <2>2. max_msg_size \in 0 .. DYNMBOX_MAX_SIZE
    BY DEF CtlInv, CtlType
  <2> QED BY <1>7, <2>1, <2>2, SizeBound, Zenon
<1>9. HdrSize \in Nat /\ HdrSize <= rbuf_space_used(rb)
  BY <1>1 DEF RingInv, AssertionsHold, HdrSize
<1>10. /\ rb' \in Ring
       /\ CursorsAgree(rb')
       /\ rb'.used = rb.used - HdrSize
       /\ \A j \in 0 .. rb.used - HdrSize - 1 : UnreadCell(rb', j) = UnreadCell(rb, HdrSize + j)
       /\ rbuf_read_bytes(rb, HdrSize) = [j \in 1 .. HdrSize |-> UnreadCell(rb, j - 1)]
  <2>1. rb' = rbuf_read(rb, HdrSize)
    BY <1>2
  <2>2. ASSUME NEW len \in Nat, len <= rbuf_space_used(rb), NEW r, r = rbuf_read(rb, len)
        PROVE  /\ r \in Ring
               /\ CursorsAgree(r)
               /\ r.used = rb.used - len
               /\ \A j \in 0 .. rb.used - len - 1 : UnreadCell(r, j) = UnreadCell(rb, len + j)
               /\ rbuf_read_bytes(rb, len) = [j \in 1 .. len |-> UnreadCell(rb, j - 1)]
    BY <1>4, <2>2, ReadTakesFirst, ZenonT(60)
  <2> QED BY <1>9, <2>1, <2>2, Zenon
<1>11. hdrlen' = n
  <2>1. FrameInRing(rb, offs[1], queue[1])
    BY <1>6, Zenon DEF RingInv, FramesMatchRing
  <2>2. 0 >= 0
    OBVIOUS
  <2>3. HeaderAt(rb, 0, n)
    BY <1>5, <2>1, <2>2, Zenon DEF FrameInRing
  <2> QED BY <1>2, <1>8, <1>10, <2>3, HeaderRead, Zenon
<1>12. ~HalfWritten' /\ Framed' = rb.used - HdrSize
  <2>1. ~HalfWritten'
    BY <1>1, <1>2 DEF HalfWritten
  <2> QED BY <1>4, <1>10, <2>1 DEF Framed, HdrSize
<1>13. /\ offs' \in Seq(Int) /\ Len(offs') = N + 1
       /\ \A k \in 1 .. N + 1 : offs'[k] = offs[k] - HdrSize /\ offs[k] \in Int
  BY <1>2, <1>5 DEF HdrSize
<1>14. RingType'
  BY <1>2, <1>5, <1>7, <1>10, <1>11, <1>13 DEF RingInv, RingType
<1>15. FramesContiguous'
  <2>1. 1 \in 1 .. N + 1 /\ N + 1 \in 1 .. N + 1
    BY <1>5
  <2>2. offs'[1] = -HdrSize /\ offs'[N + 1] = rb.used - HdrSize
    BY <1>5, <1>13, <2>1 DEF HdrSize
  <2>3. ASSUME NEW k \in 1 .. N
        PROVE  offs'[k + 1] = offs'[k] + HdrSize + Len(queue[k])
    <3>1. offs[k + 1] = offs[k] + HdrSize + Len(queue[k])
      BY DEF RingInv, FramesMatchRing, FramesContiguous
    <3>2. k + 1 \in 1 .. N + 1 /\ k \in 1 .. N + 1
      BY <1>5
    <3>3. queue[k] \in Seq(Byte)
      BY <1>5
    <3>4. Len(queue[k]) \in Nat
      BY <3>3
    <3>5. /\ offs'[k + 1] = offs[k + 1] - HdrSize /\ offs'[k] = offs[k] - HdrSize
          /\ offs[k] \in Int
      BY <1>13, <3>2, Zenon
    <3> QED BY <3>1, <3>4, <3>5 DEF HdrSize
  <2> QED BY <1>2, <1>12, <1>13, <2>2, <2>3, Zenon DEF FramesContiguous
<1>16. ASSUME NEW k \in 1 .. N PROVE FrameInRing(rb', offs'[k], queue[k])
  <2>1. FrameInRing(rb, offs[k], queue[k])
    BY Zenon DEF RingInv, FramesMatchRing
  <2>2. /\ offs[k] \in Int /\ queue[k] \in Seq(Byte) /\ offs[k] >= 0
        /\ offs[k] + HdrSize + Len(queue[k]) <= rb.used
    BY <1>1, <1>3, FrameBounds
  <2>3. offs[k] + HdrSize >= HdrSize
    BY <2>2 DEF HdrSize
  <2>4. FrameInRing(rb', offs[k] - HdrSize, queue[k])
    BY <1>4, <1>9, <1>10, <2>1, <2>2, <2>3, ShiftFrame, Zenon
  <2>5. k \in 1 .. N + 1
    BY <1>5
  <2> QED BY <1>13, <2>4, <2>5, Zenon
<1>17. FramesMatchRing'
  <2>1. \A q \in Producers : ppc'[q] # "data"
    BY <1>1, <1>2
  <2> QED BY <1>2, <1>10, <1>11, <1>15, <1>16, <2>1, Zenon DEF FramesMatchRing
<1>18. OffsOrdered'
  <2> SUFFICES ASSUME NEW i \in 1 .. N + 1, NEW j \in 1 .. N + 1, i < j
               PROVE  offs'[j] >= offs'[i] + HdrSize * (j - i)
    BY <1>13, Zenon DEF OffsOrdered
  <2>1. offs[j] >= offs[i] + HdrSize * (j - i)
    BY <1>5, Zenon DEF RingInv, OffsOrdered
  <2>2. /\ offs'[j] = offs[j] - HdrSize /\ offs'[i] = offs[i] - HdrSize
        /\ offs[i] \in Int /\ offs[j] \in Int /\ i \in Int /\ j \in Int
    BY <1>5, <1>13
  <2> QED BY <2>1, <2>2 DEF HdrSize
<1>19. QueueSizes' /\ PeekInv' /\ ClosedInv'
  BY <1>1, <1>2, <1>5 DEF RingInv, QueueSizes, PeekInv, ClosedInv
<1>20. AssertionsHold'
  <2>1. offs[1] + HdrSize + n <= rb.used
    BY <1>3, <1>6, FrameBounds
  <2>2. rb'.used >= n
    BY <1>4, <1>5, <1>7, <1>10, <2>1 DEF HdrSize
  <2>3. \A q \in Producers : ppc'[q] \notin {"hdr", "data"}
    BY <1>1, <1>2
  <2> QED BY <1>2, <1>8, <1>11, <2>2, <2>3 DEF AssertionsHold, rbuf_space_used
<1> QED BY <1>14, <1>17, <1>18, <1>19, <1>20 DEF RingInv

\* The bytes at the read cursor are the message.
LEMMA DataRead ==
  ASSUME NEW b, NEW m \in Seq(Byte), DataAt(b, 0, m),
         NEW len, len = Len(m)
  PROVE  [j \in 1 .. len |-> UnreadCell(b, j - 1)] = m
<1>1. ASSUME NEW j \in 1 .. len PROVE UnreadCell(b, j - 1) = m[j]
  <2>1. 0 + j - 1 = j - 1
    OBVIOUS
  <2> QED BY <2>1, Zenon DEF DataAt
<1>2. m = [j \in 1 .. len |-> m[j]]
  BY Z3
<1> QED BY <1>1, <1>2, Zenon

\* Where a peek stands when it is about to copy the data.
LEMMA PeekDataState ==
  ASSUME CtlInv, RingInv, PeekData
  PROVE  /\ queue # <<>> /\ life = "open"
         /\ queue \in Seq(Seq(Byte)) /\ queue[1] \in Seq(Byte)
         /\ hdrlen \in Nat /\ hdrlen = Len(queue[1])
         /\ \A q \in Producers : ppc[q] \notin {"hdr", "data"}
         /\ rb'.used = rb.used - hdrlen /\ rb' \in Ring /\ CursorsAgree(rb')
         /\ \A j \in 0 .. rb.used - hdrlen - 1 : UnreadCell(rb', j) = UnreadCell(rb, hdrlen + j)
         /\ out' = queue[1]
<1>1. /\ cpc = "data" /\ lock = "consumer" /\ life = "open"
      /\ \A q \in Producers : ppc[q] \notin {"hdr", "data"}
  BY ProducersAssumption DEF PeekData, CtlInv, MutexInv, LifeInv
<1>2. /\ queue # <<>> /\ queue \in Seq(Seq(Byte)) /\ hdrlen \in Nat
      /\ hdrlen = Len(queue[1]) /\ offs[1] = -HdrSize
  BY <1>1 DEF RingInv, RingType, PeekInv, FramesMatchRing, FramesContiguous
<1>3. queue[1] \in Seq(Byte) /\ 1 \in 1 .. Len(queue)
  BY <1>2
<1>4. rb \in Ring /\ CursorsAgree(rb) /\ hdrlen <= rbuf_space_used(rb)
  <2>1. rb \in Ring /\ CursorsAgree(rb) /\ rbuf_space_used(rb) >= hdrlen
    BY <1>1 DEF RingInv, RingType, FramesMatchRing, AssertionsHold
  <2> QED BY <2>1, <1>2
<1>5. rb' = rbuf_read(rb, hdrlen) /\ out' = rbuf_read_bytes(rb, hdrlen)
  BY DEF PeekData
<1>6. /\ rb' \in Ring
      /\ CursorsAgree(rb')
      /\ rb'.used = rb.used - hdrlen
      /\ \A j \in 0 .. rb.used - hdrlen - 1 : UnreadCell(rb', j) = UnreadCell(rb, hdrlen + j)
      /\ rbuf_read_bytes(rb, hdrlen) = [j \in 1 .. hdrlen |-> UnreadCell(rb, j - 1)]
  <2>1. ASSUME NEW len \in Nat, len <= rbuf_space_used(rb), NEW r, r = rbuf_read(rb, len)
        PROVE  /\ r \in Ring
               /\ CursorsAgree(r)
               /\ r.used = rb.used - len
               /\ \A j \in 0 .. rb.used - len - 1 : UnreadCell(r, j) = UnreadCell(rb, len + j)
               /\ rbuf_read_bytes(rb, len) = [j \in 1 .. len |-> UnreadCell(rb, j - 1)]
    BY <1>4, <2>1, ReadTakesFirst, ZenonT(60)
  <2> QED BY <1>2, <1>4, <1>5, <2>1, Zenon
<1>7. out' = queue[1]
  <2>1. FrameInRing(rb, offs[1], queue[1])
    BY <1>3, Zenon DEF RingInv, FramesMatchRing
  <2>2. offs[1] + HdrSize = 0
    BY <1>2 DEF HdrSize
  <2>3. DataAt(rb, 0, queue[1])
    BY <2>1, <2>2, Zenon DEF FrameInRing
  <2>4. rbuf_read_bytes(rb, hdrlen) = queue[1]
    <3>1. [j \in 1 .. hdrlen |-> UnreadCell(rb, j - 1)] = queue[1]
      BY <1>2, <1>3, <2>3, DataRead, ZenonT(60)
    <3> QED BY <1>6, <3>1, Zenon
  <2> QED BY <1>5, <2>4, Zenon
<1> QED BY <1>1, <1>2, <1>3, <1>6, <1>7, Zenon

\* do_peek reads the data: the caller gets the first message, whole, and the
\* others are now the frames of the ring.
LEMMA RingPeekData ==
  ASSUME CtlInv, RingInv, PeekData
  PROVE  RingInv'
<1> DEFINE N == Len(queue)
           n == hdrlen
<1>1. /\ cpc = "data" /\ cpc' = "idle"
      /\ queue' = Tail(queue)
      /\ offs' = [k \in 1 .. Len(offs) - 1 |-> offs[k + 1] - n]
      /\ hdrlen' = 0 /\ cond_signal
      /\ max_msg_size' = max_msg_size /\ life' = life
  BY DEF PeekData, boxVars
<1>2. /\ queue # <<>> /\ life = "open"
      /\ queue \in Seq(Seq(Byte)) /\ queue[1] \in Seq(Byte)
      /\ n \in Nat /\ n = Len(queue[1])
      /\ \A q \in Producers : ppc[q] \notin {"hdr", "data"}
      /\ rb'.used = rb.used - n /\ rb' \in Ring /\ CursorsAgree(rb')
      /\ \A j \in 0 .. rb.used - n - 1 : UnreadCell(rb', j) = UnreadCell(rb, n + j)
      /\ out' = queue[1]
  BY PeekDataState, Zenon
<1>3. \A q \in Producers : ppc'[q] \notin {"hdr", "data"}
  BY <1>1, <1>2 DEF cond_signal, Waiting, CtlInv, CtlType
<1>4. rb.used \in Nat
  BY AllocatedLen DEF RingInv, RingType, Ring
<1>5. Framed = rb.used /\ Framed' = rb.used - n
  <2>1. ~HalfWritten /\ ~HalfWritten'
    BY <1>2, <1>3 DEF HalfWritten
  <2> QED BY <1>2, <1>4, <2>1 DEF Framed
<1>6. /\ offs \in Seq(Int) /\ N \in Nat /\ N >= 1 /\ Len(offs) = N + 1
      /\ offs[N + 1] = rb.used /\ offs[1] = -HdrSize
  BY <1>1, <1>2, <1>5 DEF RingInv, RingType, FramesMatchRing, FramesContiguous
<1>7. /\ queue' \in Seq(Seq(Byte)) /\ Len(queue') = N - 1
      /\ \A k \in 1 .. N - 1 : queue'[k] = queue[k + 1]
  BY <1>1, <1>2, <1>6
<1> HIDE DEF n
<1>8. /\ offs' \in Seq(Int) /\ Len(offs') = N
      /\ \A k \in 1 .. N : offs'[k] = offs[k + 1] - n /\ offs[k + 1] \in Int
  <2>1. Len(offs) - 1 = N
    BY <1>6
  <2>2. ASSUME NEW k \in 1 .. N PROVE offs[k + 1] \in Int /\ offs[k + 1] - n \in Int
    BY <1>2, <1>6, SMTT(30)
  <2> QED BY <1>1, <1>6, <2>1, <2>2
<1>n. n \in Int /\ N \in Int
  BY <1>2, <1>6
<1>9. RingType'
  BY <1>1, <1>2, <1>7, <1>8 DEF RingType
<1>10. FramesContiguous'
  <2>1. offs'[1] = 0
    <3>1. 1 \in 1 .. N
      BY <1>6
    <3>2. offs[1 + 1] = offs[1] + HdrSize + n
      BY <1>2, <3>1, Zenon DEF RingInv, FramesMatchRing, FramesContiguous
    <3>3. offs'[1] = offs[1 + 1] - n /\ offs[1 + 1] \in Int
      BY <1>8, <3>1, Zenon
    <3> QED BY <1>2, <1>6, <3>2, <3>3 DEF HdrSize
  <2>2. offs'[N] = rb.used - n
    <3>1. N \in 1 .. N
      BY <1>6
    <3> QED BY <1>6, <1>8, <3>1, Zenon
  <2>3. ASSUME NEW k \in 1 .. N - 1
        PROVE  offs'[k + 1] = offs'[k] + HdrSize + Len(queue'[k])
    <3>1. k + 1 \in 1 .. N /\ k \in 1 .. N /\ k \in Nat
      BY <1>6
    <3>2. offs[k + 1 + 1] = offs[k + 1] + HdrSize + Len(queue[k + 1])
      BY <3>1, Zenon DEF RingInv, FramesMatchRing, FramesContiguous
    <3>3. queue[k + 1] \in Seq(Byte) /\ queue'[k] = queue[k + 1]
      BY <1>2, <1>7, <3>1
    <3>4. Len(queue[k + 1]) \in Nat
      BY <3>3
    <3>5. /\ offs'[k + 1] = offs[k + 1 + 1] - n /\ offs'[k] = offs[k + 1] - n
          /\ offs[k + 1] \in Int
      BY <1>8, <3>1, Zenon
    <3>6. offs'[k + 1] = offs'[k] + HdrSize + Len(queue[k + 1])
      <4>1. (offs[k + 1] + HdrSize + Len(queue[k + 1])) - n
              = (offs[k + 1] - n) + HdrSize + Len(queue[k + 1])
        <5>1. \A x, y, z \in Int : (x + HdrSize + y) - z = (x - z) + HdrSize + y
          BY DEF HdrSize
        <5>2. Len(queue[k + 1]) \in Int
          BY <3>4
        <5> QED BY <1>n, <3>5, <5>1, <5>2, Zenon
      <4> QED BY <3>2, <3>5, <4>1, Zenon
    <3> QED BY <3>3, <3>6, Zenon
  <2>4. N = (N - 1) + 1
    BY <1>6
  <2> QED BY <1>1, <1>5, <1>7, <1>8, <2>1, <2>2, <2>3, <2>4 DEF FramesContiguous
<1>11. ASSUME NEW k \in 1 .. N - 1 PROVE FrameInRing(rb', offs'[k], queue'[k])
  <2>1. k + 1 \in 1 .. N /\ k \in 1 .. N /\ k + 1 > 1
    BY <1>6
  <2>2. FrameInRing(rb, offs[k + 1], queue[k + 1])
    BY <2>1, Zenon DEF RingInv, FramesMatchRing
  <2>3. /\ offs[k + 1] \in Int /\ queue[k + 1] \in Seq(Byte) /\ offs[k + 1] >= n
        /\ offs[k + 1] + HdrSize + Len(queue[k + 1]) <= rb.used
    BY <1>1, <1>5, <2>1, FrameBounds, Zenon DEF n
  <2>4. offs[k + 1] + HdrSize >= n
    BY <1>2, <2>3 DEF HdrSize
  <2>5. FrameInRing(rb', offs[k + 1] - n, queue[k + 1])
    BY <1>2, <1>4, <2>2, <2>3, <2>4, ShiftFrame, Zenon
  <2> QED BY <1>7, <1>8, <2>1, <2>5, Zenon
<1>12. FramesMatchRing'
  <2>1. \A q \in Producers : ppc'[q] # "data"
    BY <1>3
  <2>2. cpc' # "data"
    BY <1>1
  <2> QED BY <1>2, <1>7, <1>10, <1>11, <2>1, <2>2, Zenon DEF FramesMatchRing
<1>13. OffsOrdered'
  <2> SUFFICES ASSUME NEW i \in 1 .. N, NEW j \in 1 .. N, i < j
               PROVE  offs'[j] >= offs'[i] + HdrSize * (j - i)
    BY <1>8, Zenon DEF OffsOrdered
  <2>1. /\ i + 1 \in 1 .. Len(offs) /\ j + 1 \in 1 .. Len(offs) /\ i + 1 < j + 1
        /\ (j + 1) - (i + 1) = j - i
    BY <1>6
  <2>2. offs[j + 1] >= offs[i + 1] + HdrSize * ((j + 1) - (i + 1))
    BY <2>1, Zenon DEF RingInv, OffsOrdered
  <2>3. /\ offs'[j] = offs[j + 1] - n /\ offs'[i] = offs[i + 1] - n
        /\ offs[i + 1] \in Int /\ offs[j + 1] \in Int
    BY <1>8, Zenon
  <2>4. i \in Int /\ j \in Int
    BY <1>6
  <2>5. offs[j + 1] >= offs[i + 1] + HdrSize * (j - i)
    BY <2>1, <2>2, Zenon
  <2>6. offs[j + 1] - n >= (offs[i + 1] - n) + HdrSize * (j - i)
    BY <1>n, <2>3, <2>4, <2>5 DEF HdrSize
  <2> QED BY <2>3, <2>6, Zenon
<1>14. QueueSizes'
  <2> SUFFICES ASSUME NEW k \in 1 .. N - 1 PROVE Len(queue'[k]) <= max_msg_size
    BY <1>1, <1>7, Zenon DEF QueueSizes
  <2>1. k + 1 \in 1 .. N
    BY <1>6
  <2> QED BY <1>7, <2>1, Zenon DEF RingInv, QueueSizes
<1>15. AssertionsHold' /\ PeekInv' /\ ClosedInv'
  <2>1. cpc' = "idle" /\ life' = "open"
    BY <1>1, <1>2
  <2> QED BY <1>3, <2>1 DEF AssertionsHold, PeekInv, ClosedInv
<1> QED BY <1>9, <1>12, <1>13, <1>14, <1>15 DEF RingInv

\* The steps that move no byte.
LEMMA RingLight ==
  ASSUME CtlInv, CtlInv', RingInv, NEW p \in Producers,
         \/ \E m \in Messages : PushInvalid(p, m) \/ PushNoClock(p, m)
         \/ \E m \in Messages, md \in Modes : PushCall(p, m, md)
         \/ PushRefused(p) \/ PushWait(p) \/ PushSpurious(p)
         \/ PushExpire(p) \/ PushTimedOut(p) \/ push_notify(p)
  PROVE  RingInv'
<1>1. /\ rb' = rb /\ history' = history /\ hdrlen' = hdrlen /\ out' = out
      /\ max_msg_size' = max_msg_size /\ life' = life /\ cpc' = cpc /\ life = "open"
  BY DEF PushInvalid, PushNoClock, PushCall, PushRefused, PushWait, PushSpurious, PushExpire,
         PushTimedOut, push_notify, boxVars, consVars, CtlInv, LifeInv
<1>2. ppc[p] \notin {"hdr", "data"} /\ ppc'[p] \notin {"hdr", "data"}
  BY DEF PushInvalid, PushNoClock, PushCall, PushRefused, PushWait, PushSpurious, PushExpire,
         PushTimedOut, push_notify, Return, CtlInv, CtlType
<1>3. \A q \in Producers : q # p => ppc'[q] = ppc[q] /\ msg'[q] = msg[q]
  BY SMTT(30) DEF PushInvalid, PushNoClock, PushCall, PushRefused, PushWait, PushSpurious, PushExpire,
         PushTimedOut, push_notify, Return, prodVars, CtlInv, CtlType
<1>4. AssertionsHold' /\ PeekInv' /\ ClosedInv'
  BY <1>1, <1>2, <1>3 DEF RingInv, AssertionsHold, PeekInv, ClosedInv, history
<1> QED BY <1>1, <1>2, <1>3, <1>4, LightStep

\* A push that finds room keeps the mutex: what it saw is what rbuf_write asserts.
LEMMA RingPushLock ==
  ASSUME CtlInv, RingInv, NEW p \in Producers, PushLock(p)
  PROVE  RingInv'
<1>1. /\ rb' = rb /\ history' = history /\ hdrlen' = hdrlen /\ out' = out
      /\ max_msg_size' = max_msg_size /\ life' = life /\ cpc' = cpc /\ msg' = msg
      /\ ppc[p] = "lock" /\ ppc' = [ppc EXCEPT ![p] = "hdr"] /\ lock = "none"
      /\ ~NoRoom(p)
  BY DEF PushLock, boxVars, prodVars, consVars
<1>2. ppc'[p] = "hdr" /\ \A q \in Producers : q # p => ppc'[q] = ppc[q]
  BY <1>1 DEF CtlInv, CtlType
<1>3. Len(msg[p]) + HdrSize <= rbuf_space_left(rb)
  <2>1. Len(msg[p]) \in Nat
    BY DEF CtlInv, CtlType
  <2>2. rbuf_space_left(rb) \in Int
    BY AllocatedLen DEF rbuf_space_left, RingInv, RingType, Ring
  <2>3. ~(rbuf_space_left(rb) < Len(msg[p]) + HdrSize)
    BY <1>1 DEF NoRoom
  <2>4. \A x, y \in Int : ~(y < x + HdrSize) => x + HdrSize <= y
    BY DEF HdrSize
  <2>5. Len(msg[p]) \in Int
    BY <2>1
  <2> QED BY <2>2, <2>3, <2>4, <2>5, Zenon
<1>4. cpc \notin {"pop", "hdr", "data"} /\ \A q \in Producers : ppc[q] # "data"
  BY <1>1, ProducersAssumption DEF CtlInv, MutexInv
<1>5. AssertionsHold'
  <2>1. \A q \in Producers : ppc'[q] = "hdr" => Len(msg'[q]) + HdrSize <= rbuf_space_left(rb')
    BY <1>1, <1>2, <1>3, ProducersAssumption DEF CtlInv, MutexInv
  <2>2. \A q \in Producers : ppc'[q] # "data"
    BY <1>2, <1>4
  <2> QED BY <1>1, <1>4, <2>1, <2>2 DEF AssertionsHold
<1>6. PeekInv' /\ ClosedInv'
  BY <1>1 DEF RingInv, PeekInv, ClosedInv, history
<1>7. \A q \in Producers : ppc'[q] = "data" <=> ppc[q] = "data"
  BY <1>2, <1>4
<1> QED BY <1>1, <1>5, <1>6, <1>7, LightStep

\* With no producer inside do_push, a ring with bytes in it has a message.
LEMMA UsedMeansQueued ==
  ASSUME CtlInv, RingInv, lock = "none", ~rbuf_is_empty(rb)
  PROVE  queue # <<>>
<1>1. Framed = rb.used /\ rb.used # 0
  BY ProducersAssumption, AllFramed DEF rbuf_is_empty
<1>2. cpc # "data"
  BY DEF CtlInv, MutexInv
<1>3. /\ Len(offs) = Len(queue) + 1 /\ offs[1] = 0 /\ offs[Len(offs)] = rb.used
  BY <1>1, <1>2 DEF RingInv, FramesMatchRing, FramesContiguous
<1>4. ASSUME queue = <<>> PROVE FALSE
  BY <1>1, <1>3, <1>4
<1> QED BY <1>4

\* A peek before it reads the ring.
LEMMA RingPeekLight ==
  ASSUME CtlInv, CtlInv', RingInv, PeekCall \/ PeekEmpty \/ PeekLock \/ pop_notify
  PROVE  RingInv'
<1>1. /\ rb' = rb /\ history' = history /\ hdrlen' = hdrlen /\ out' = out
      /\ max_msg_size' = max_msg_size /\ life' = life /\ ppc' = ppc /\ msg' = msg
      /\ cpc # "data" /\ cpc' # "data"
  BY DEF PeekCall, PeekEmpty, PeekLock, pop_notify, boxVars, prodVars
<1>2. PeekInv'
  <2>1. CASE PeekLock
    BY <1>1, <2>1, UsedMeansQueued DEF PeekLock, PeekInv, history
  <2>2. CASE ~PeekLock
    BY <1>1, <2>2 DEF PeekCall, PeekEmpty, pop_notify, PeekInv, RingInv, history
  <2> QED BY <2>1, <2>2
<1>3. ClosedInv'
  BY <1>1 DEF ClosedInv, RingInv, history
<1>4. cpc' = "hdr" => rbuf_space_used(rb') >= HdrSize
  <2> SUFFICES ASSUME cpc' = "hdr" PROVE rb.used >= HdrSize
    BY <1>1 DEF rbuf_space_used
  <2>1. cpc = "pop" /\ lock = "consumer"
    BY DEF PeekCall, PeekEmpty, PeekLock, pop_notify, CtlInv, MutexInv
  <2>2. Framed = rb.used /\ rb.used \in Int
    BY <2>1, ProducersAssumption, AllocatedLen, AllFramed DEF RingInv, RingType, Ring
  <2>3. queue # <<>> /\ queue \in Seq(Seq(Byte))
    BY <2>1 DEF RingInv, PeekInv, RingType
  <2>4. 1 \in 1 .. Len(queue)
    BY <2>3
  <2>5. /\ offs[1] \in Int /\ queue[1] \in Seq(Byte) /\ offs[1] >= 0
        /\ offs[1] + HdrSize + Len(queue[1]) <= rb.used
    BY <1>1, <2>2, <2>4, FrameBounds
  <2>6. Len(queue[1]) \in Nat
    BY <2>5
  <2> QED BY <2>2, <2>5, <2>6 DEF HdrSize
<1>5. AssertionsHold'
  BY <1>1, <1>4 DEF RingInv, AssertionsHold
<1> QED BY <1>1, <1>2, <1>3, <1>5, LightStep

\* No step of dynmbox.c leaves the ring invariant.
LEMMA RingStep == CtlInv /\ CtlInv' /\ RingInv /\ [Next]_vars => RingInv'
<1> SUFFICES ASSUME CtlInv, CtlInv', RingInv, [Next]_vars PROVE RingInv'
  OBVIOUS
<1>1. CASE Lifecycle
  BY <1>1, RingLifecycle
<1>2. ASSUME NEW p \in Producers, Producer(p) PROVE RingInv'
  BY <1>2, RingLight, RingPushLock, RingPushHdr, RingPushData, Zenon DEF Producer
<1>3. CASE Consumer
  BY <1>3, RingPeekLight, RingPeekHdr, RingPeekData, Zenon DEF Consumer
<1>4. CASE UNCHANGED vars
  <2>1. /\ rb' = rb /\ history' = history /\ hdrlen' = hdrlen /\ out' = out
        /\ max_msg_size' = max_msg_size /\ life' = life /\ ppc' = ppc /\ msg' = msg
        /\ cpc' = cpc
    BY <1>4 DEF vars, boxVars, prodVars, consVars
  <2>2. AssertionsHold' /\ PeekInv' /\ ClosedInv'
    BY <2>1 DEF RingInv, AssertionsHold, PeekInv, ClosedInv, history
  <2> QED BY <2>1, <2>2, LightStep
<1> QED BY <1>1, <1>2, <1>3, <1>4 DEF Next

\* The initial state satisfies the ring invariant.
LEMMA RingInit == Init => RingInv
BY QuietRing DEF Init, Quiet

-----------------------------------------------------------------------------
(* What is proved: types, the contents of the ring, the assertions of the  *)
(* code, the resources of dynmbox_new, the abstract Mailbox it implements, *)
(* and the notifications.                                                  *)

IInv == CtlInv /\ RingInv

\* The invariant of layers 1 and 2 holds in every reachable state of
\* dynmbox.c's producers, consumer and lifecycle.
LEMMA Invariance == Spec => []IInv
<1>1. Init => IInv
  BY CtlInit, RingInit DEF IInv
<1>2. IInv /\ [Next]_vars => IInv'
  BY CtlStep, RingStep DEF IInv
<1> QED BY <1>1, <1>2, PTL DEF Spec

\* Types: the ring's indices never leave bufmem, the pipe never exceeds its
\* capacity, sizes stay within the limit given to dynmbox_new.
THEOREM TypeCorrect == Spec => []TypeOK
<1>1. IInv => TypeOK
  BY DEF IInv, CtlInv, CtlType, RingInv, RingType, TypeOK
<1> QED BY <1>1, Invariance, PTL

\* rbuf_write and rbuf_read keep the ring a sequence of whole frames, for every
\* ring size, every wrap and every interleaving of push and peek.
THEOREM RingHoldsFrames == Spec => []FramesMatchRing
<1>1. IInv => FramesMatchRing
  BY DEF IInv, RingInv
<1> QED BY <1>1, Invariance, PTL

\* No assert() of dynmbox.c can fail.
THEOREM NoAssertionFails == Spec => []AssertionsHold
<1>1. IInv => AssertionsHold
  BY DEF IInv, RingInv
<1> QED BY <1>1, Invariance, PTL

\* The error labels of dynmbox_new and dynmbox_destroy free all there is.
THEOREM ResourcesFreed == Spec => []NoLeak
<1>1. IInv => NoLeak
  BY DEF IInv, CtlInv, LifeInv, NoLeak
<1> QED BY <1>1, Invariance, PTL

-----------------------------------------------------------------------------
(* Refinement.                                                             *)

\* A step of the mailbox is a step of the abstract queue or leaves it alone.
LEMMA StepRefines == IInv /\ [Next]_vars => [MB!Next]_(MB!vars)
<1> SUFFICES ASSUME IInv, [Next]_vars PROVE MB!Next \/ UNCHANGED MB!vars
  OBVIOUS
<1> USE DEF MB!vars
<1>1. CASE Lifecycle
  <2>1. ASSUME NEW ok \in BOOLEAN, NewChannel(ok) PROVE MB!Create \/ UNCHANGED MB!vars
    BY <2>1 DEF NewChannel, consVars, history, MB!Create
  <2>2. ASSUME NEW ok \in BOOLEAN, NewBufmem(ok) PROVE UNCHANGED MB!vars
    BY <2>2 DEF NewBufmem, consVars, history
  <2>3. ASSUME NEW n \in MaxSizes, NewBox(n) PROVE UNCHANGED MB!vars
    BY <2>3 DEF NewBox, consVars, history
  <2>4. ASSUME dynmbox_destroy PROVE MB!Destroy
    BY <2>4 DEF dynmbox_destroy, MB!Destroy
  <2> QED BY <1>1, <2>1, <2>2, <2>3, <2>4 DEF Lifecycle, MB!Next
<1>2. ASSUME NEW p \in Producers, Producer(p) PROVE MB!Next \/ UNCHANGED MB!vars
  <2>1. CASE PushData(p)
    <3>1. life = "open" /\ msg[p] \in Messages
      BY <2>1 DEF PushData, IInv, CtlInv, LifeInv, SizeInv
    <3>2. MB!Push(msg[p])
      BY <2>1, <3>1 DEF PushData, boxVars, consVars, MB!Push
    <3> QED BY <3>1, <3>2 DEF MB!Next
  <2>2. CASE ~PushData(p)
    BY <1>2, <2>2 DEF Producer, PushInvalid, PushNoClock, PushCall, PushRefused, PushWait, PushLock,
       PushSpurious, PushExpire, PushTimedOut, PushHdr, push_notify,
       boxVars, consVars, history
  <2> QED BY <2>1, <2>2
<1>3. CASE Consumer
  <2>1. CASE PeekData
    <3>1. /\ queue # <<>> /\ life = "open" /\ queue \in Seq(Seq(Byte))
          /\ out' = queue[1]
      BY <2>1, PeekDataState, Zenon DEF IInv
    <3>2. MB!Pop
      BY <2>1, <3>1 DEF PeekData, boxVars, MB!Pop
    <3> QED BY <3>2 DEF MB!Next
  <2>2. CASE ~PeekData
    BY <1>3, <2>2 DEF Consumer, PeekCall, PeekEmpty, PeekLock, pop_notify, PeekHdr,
       boxVars, consVars, history
  <2> QED BY <2>1, <2>2
<1>4. CASE UNCHANGED vars
  BY <1>4 DEF vars, boxVars, consVars, history
<1> QED BY <1>1, <1>2, <1>3, <1>4 DEF Next

\* dynmbox.c implements the queue of whole messages of dynmbox.h, whatever the
\* size of the ring and however many threads push.
THEOREM MailboxImplemented == Spec => ImplementsMailbox
<1>1. Init => MB!Init
  BY DEF Init, MB!Init
<1> QED BY <1>1, StepRefines, Invariance, PTL DEF Spec, ImplementsMailbox, MB!Spec

-----------------------------------------------------------------------------
(* Producers that wait.                                                    *)

\* With no message queued and the mutex free, any message fits.
LEMMA EmptyHasRoom ==
  ASSUME IInv, NEW p \in Producers, lock = "none", queue = <<>>
  PROVE  ~NoRoom(p)
<1>1. Framed = rb.used
  BY ProducersAssumption, AllFramed DEF IInv
<1>2. cpc # "data"
  BY DEF IInv, CtlInv, MutexInv
<1>3. Len(offs) = Len(queue) + 1 /\ offs[1] = 0 /\ offs[Len(offs)] = rb.used
  BY <1>1, <1>2 DEF IInv, RingInv, FramesMatchRing, FramesContiguous
<1>4. rb.used = 0
  BY <1>3
<1>5. msg[p] \in Seq(Byte) /\ Len(msg[p]) <= max_msg_size
      /\ max_msg_size \in 0 .. DYNMBOX_MAX_SIZE
  BY DEF IInv, CtlInv, CtlType, SizeInv
<1>6. Len(msg[p]) \in Int
  BY <1>5
<1>7. \A n \in Int : n <= max_msg_size => ~(ALLOCATED_LEN - 0 < n + HdrSize)
  BY <1>5, MaxSizeAssumption DEF ALLOCATED_LEN, HdrSize
<1> QED BY <1>4, <1>5, <1>6, <1>7, Zenon DEF NoRoom, rbuf_space_left

\* dynmbox_push refuses, and dynmbox_push_block waits, only while a message is
\* in the mailbox.
THEOREM EmptyAccepts == Spec => RefusedOnlyWhenOccupied
<1>1. ASSUME IInv, [Next]_vars
      PROVE  [\A p \in Producers : PushRefused(p) \/ PushWait(p) => queue # <<>>]_vars
  BY <1>1, EmptyHasRoom DEF PushRefused, PushWait
<1> QED BY <1>1, Invariance, PTL DEF Spec, RefusedOnlyWhenOccupied

\* pthread_cond_signal wakes one producer only, and yet no blocked producer is
\* left behind an empty mailbox with nobody on the way to fill it.
THEOREM NobodyForgotten == Spec => []SleepersAreWoken
<1>1. Init => SleepersAreWoken
  BY DEF Init, SleepersAreWoken, Waiting
<1>2. IInv /\ IInv' /\ SleepersAreWoken /\ [Next]_vars => SleepersAreWoken'
  <2> SUFFICES ASSUME IInv, IInv', SleepersAreWoken, [Next]_vars PROVE SleepersAreWoken'
    OBVIOUS
  <2> DEFINE OnTheWay == \E p \in Producers : ppc[p] \in {"lock", "hdr", "data"}
  <2>0. /\ ppc \in [Producers -> {"idle", "lock", "wait", "expired", "hdr", "data", "notify"}]
        /\ queue \in Seq(Seq(Byte)) /\ Waiting # {} /\ queue = <<>> => OnTheWay
    BY DEF IInv, CtlInv, CtlType, RingInv, RingType, SleepersAreWoken
  <2>1. CASE Lifecycle
    <3>1. ppc' = ppc /\ \A p \in Producers : ppc[p] = "idle"
      BY <2>1 DEF Lifecycle, NewBox, NewBufmem, NewChannel, dynmbox_destroy,
                  IInv, CtlInv, LifeInv
    <3> QED BY <3>1 DEF SleepersAreWoken, Waiting
  <2>2. ASSUME NEW p \in Producers, Producer(p) PROVE SleepersAreWoken'
    <3>1. CASE \E m \in Messages : PushInvalid(p, m) \/ PushNoClock(p, m)
      BY <2>0, <3>1 DEF PushInvalid, PushNoClock, history, SleepersAreWoken, Waiting
    <3>2. CASE \/ \E m \in Messages, md \in Modes : PushCall(p, m, md)
               \/ PushSpurious(p) \/ PushLock(p) \/ PushHdr(p)
      <4>1. ppc'[p] \in {"lock", "hdr", "data"}
        BY <2>0, <3>2 DEF PushCall, PushSpurious, PushLock, PushHdr
      <4> QED BY <4>1 DEF SleepersAreWoken
    <3>3. CASE PushRefused(p) \/ PushWait(p)
      <4>1. queue # <<>> /\ queue' = queue
        BY <3>3, EmptyHasRoom DEF PushRefused, PushWait, history
      <4> QED BY <4>1 DEF SleepersAreWoken
    <3>4. CASE PushExpire(p) \/ PushTimedOut(p) \/ push_notify(p)
      <4>1. /\ queue' = queue /\ ppc[p] \notin {"lock", "hdr", "data"}
            /\ ppc'[p] # "wait"
            /\ \A q \in Producers : q # p => ppc'[q] = ppc[q]
        BY <2>0, <3>4 DEF PushExpire, PushTimedOut, push_notify, Return, history
      <4> QED BY <2>0, <4>1 DEF SleepersAreWoken, Waiting
    <3>5. CASE PushData(p)
      <4>1. queue' # <<>>
        BY <2>0, <3>5 DEF PushData
      <4> QED BY <4>1 DEF SleepersAreWoken
    <3> QED BY <2>2, <3>1, <3>2, <3>3, <3>4, <3>5 DEF Producer
  <2>3. CASE Consumer
    <3>1. CASE PeekData
      <4>1. CASE Waiting = {} /\ ppc' = ppc
        BY <4>1 DEF SleepersAreWoken, Waiting
      <4>2. ASSUME NEW p \in Waiting, ppc' = [ppc EXCEPT ![p] = "lock"]
            PROVE  SleepersAreWoken'
        <5>1. p \in Producers /\ ppc'[p] = "lock"
          BY <2>0, <4>2 DEF Waiting
        <5> QED BY <5>1 DEF SleepersAreWoken
      <4> QED BY <3>1, <4>1, <4>2 DEF PeekData, cond_signal
    <3>2. CASE ~PeekData
      <4>1. ppc' = ppc /\ queue' = queue
        BY <2>3, <3>2 DEF Consumer, PeekCall, PeekEmpty, PeekLock, pop_notify, PeekHdr, history
      <4> QED BY <4>1 DEF SleepersAreWoken, Waiting
    <3> QED BY <3>1, <3>2
  <2>4. CASE UNCHANGED vars
    BY <2>4 DEF vars, history, SleepersAreWoken, Waiting
  <2> QED BY <2>1, <2>2, <2>3, <2>4 DEF Next
<1> QED BY <1>1, <1>2, Invariance, PTL DEF Spec

-----------------------------------------------------------------------------
(* Layer 3: notifications.                                                 *)

BalInv == Surplus >= 0 /\ Surplus <= Cardinality(Producers)

\* A ring of ALLOCATED_LEN bytes has no room for more frames than headers.
LEMMA UnreadFits ==
  ASSUME IInv
  PROVE  Unread \in Int /\ Unread <= ALLOCATED_LEN \div HdrSize
<1> DEFINE N == Len(queue)
<1>1. /\ N \in Nat /\ offs \in Seq(Int) /\ Len(offs) = N + 1
      /\ offs[1] = (IF cpc = "data" THEN -HdrSize ELSE 0) /\ offs[N + 1] = Framed
  BY DEF IInv, RingInv, RingType, FramesMatchRing, FramesContiguous
<1>2. rb.used \in Int /\ rb.used <= ALLOCATED_LEN /\ Framed \in Int /\ Framed <= rb.used
      /\ ALLOCATED_LEN \in Nat
  BY AllocatedLen DEF IInv, RingInv, RingType, Ring, Framed, HdrSize
<1>3. Framed >= offs[1] + HdrSize * N
  <2>1. CASE N = 0
    BY <1>1, <1>2, <2>1 DEF HdrSize
  <2>2. CASE N > 0
    <3>1. 1 \in 1 .. Len(offs) /\ N + 1 \in 1 .. Len(offs) /\ 1 < N + 1 /\ (N + 1) - 1 = N
      BY <1>1, <2>2
    <3>2. offs[N + 1] >= offs[1] + HdrSize * ((N + 1) - 1)
      BY <3>1, Zenon DEF IInv, RingInv, OffsOrdered
    <3> QED BY <1>1, <3>1, <3>2, Zenon
  <2> QED BY <1>1, <2>1, <2>2
<1>4. Unread \in Int /\ HdrSize * Unread <= ALLOCATED_LEN
  BY <1>1, <1>2, <1>3 DEF Unread, HdrSize
<1>5. \A u \in Int, a \in Nat : 4 * u <= a => u <= a \div 4
  BY Z3
<1> QED BY <1>2, <1>4, <1>5, Zenon DEF HdrSize

\* The set of producers about to notify is finite.
LEMMA PendingFinite ==
  /\ IsFiniteSet(Pending)
  /\ Cardinality(Pending) \in Nat
  /\ Cardinality(Producers) \in Nat
  /\ Cardinality(Pending) <= Cardinality(Producers)
<1>1. Pending \subseteq Producers
  BY DEF Pending
<1>2. IsFiniteSet(Producers)
  BY ProducersAssumption
<1> QED BY <1>1, <1>2, FS_Subset, FS_CardinalityType

\* While a producer is about to notify, the pipe has room for its byte.
LEMMA PipeHasRoom ==
  ASSUME IInv, BalInv, Pending # {}
  PROVE  pipe < PipeCap
<1>1. Cardinality(Pending) >= 1 /\ Cardinality(Pending) \in Nat /\ Cardinality(Producers) \in Nat
  <2>1. Cardinality(Pending) # 0
    BY PendingFinite, FS_EmptySet
  <2> QED BY <2>1, PendingFinite
<1>2. Unread \in Int /\ Unread <= ALLOCATED_LEN \div HdrSize
  BY UnreadFits
<1>3. pipe \in Nat
  BY DEF IInv, CtlInv, CtlType
<1>4. pipe + Cardinality(Pending) - Unread <= Cardinality(Producers)
  BY DEF BalInv, Surplus
<1>5. PipeCap \in Nat /\ PipeCap >= ALLOCATED_LEN \div HdrSize + Cardinality(Producers)
  BY PipeCapAssumption
<1>6. ALLOCATED_LEN \div HdrSize \in Int
  BY AllocatedLen DEF HdrSize
<1> QED BY <1>1, <1>2, <1>3, <1>4, <1>5, <1>6

\* Only a pop_notify that finds no byte changes the surplus of an open mailbox.
SurplusKept == Surplus' \in {Surplus, 0} \/ (cpc = "pop" /\ pipe = 0)

\* No step of dynmbox.c unbalances notifications and messages.
LEMMA BalStep == IInv /\ IInv' /\ BalInv /\ [Next]_vars => BalInv' /\ SurplusKept
<1> SUFFICES ASSUME IInv, IInv', BalInv, [Next]_vars PROVE BalInv' /\ SurplusKept
  OBVIOUS
<1>0. /\ pipe \in Nat /\ Len(queue) \in Nat /\ queue \in Seq(Seq(Byte))
      /\ ppc \in [Producers -> {"idle", "lock", "wait", "expired", "hdr", "data", "notify"}]
  BY DEF IInv, CtlInv, CtlType, RingInv, RingType
<1>c. Cardinality(Pending) \in Nat /\ IsFiniteSet(Pending)
  BY PendingFinite
<1>s. pipe + Cardinality(Pending) - Unread >= 0
      /\ pipe + Cardinality(Pending) - Unread <= Cardinality(Producers)
  BY DEF BalInv, Surplus
<1>1. CASE Lifecycle
  <2>1. /\ pipe' = pipe \/ pipe' = 0
        /\ \A p \in Producers : ppc'[p] = "idle"
        /\ cpc' = "idle"
        /\ queue' = <<>> /\ pipe' = 0
    BY <1>1 DEF Lifecycle, NewBox, NewBufmem, NewChannel, dynmbox_destroy,
                consVars, history, IInv, CtlInv, LifeInv, RingInv, ClosedInv
  <2>2. Pending' = {} /\ Unread' = 0
    BY <2>1 DEF Pending, Unread
  <2>3. Cardinality(Pending') = 0 /\ Cardinality(Producers) \in Nat
    BY <2>2, FS_EmptySet, PendingFinite
  <2>4. Surplus' = 0
    BY <2>1, <2>2, <2>3 DEF Surplus
  <2> QED BY <2>3, <2>4 DEF BalInv, SurplusKept
<1>2. ASSUME NEW p \in Producers, Producer(p) PROVE BalInv' /\ SurplusKept
  <2>1. CASE PushData(p)
    <3>1. /\ pipe' = pipe /\ cpc' = cpc /\ queue' = Append(queue, msg[p])
          /\ ppc[p] = "data" /\ ppc' = [ppc EXCEPT ![p] = "notify"]
      BY <2>1 DEF PushData, consVars
    <3>2. p \notin Pending /\ Pending' = Pending \cup {p}
      BY <1>0, <3>1 DEF Pending
    <3>3. Cardinality(Pending') = Cardinality(Pending) + 1
      BY <1>c, <3>2, FS_AddElement
    <3>4. Unread' = Unread + 1
      BY <1>0, <3>1 DEF Unread
    <3>5. Surplus' = Surplus
      BY <1>0, <1>c, <3>1, <3>3, <3>4, UnreadFits DEF Surplus
    <3> QED BY <3>5 DEF BalInv, SurplusKept
  <2>2. CASE push_notify(p)
    <3>1. /\ pipe' = (IF pipe < PipeCap THEN pipe + 1 ELSE pipe) /\ cpc' = cpc /\ queue' = queue
          /\ ppc[p] = "notify" /\ ppc' = [ppc EXCEPT ![p] = "idle"]
      BY <2>2 DEF push_notify, Return, consVars, history
    <3>2. p \in Pending /\ Pending' = Pending \ {p}
      BY <1>0, <3>1 DEF Pending
    <3>3. Cardinality(Pending') = Cardinality(Pending) - 1
      BY <1>c, <3>2, FS_RemoveElement
    <3>4. pipe' = pipe + 1
      BY <3>1, <3>2, PipeHasRoom
    <3>5. Unread' = Unread
      BY <3>1 DEF Unread
    <3>6. Surplus' = Surplus
      BY <1>0, <1>c, <3>3, <3>4, <3>5, UnreadFits DEF Surplus
    <3> QED BY <3>6 DEF BalInv, SurplusKept
  <2>3. CASE ~PushData(p) /\ ~push_notify(p)
    <3>1. pipe' = pipe /\ cpc' = cpc /\ queue' = queue
      BY <1>2, <2>3 DEF Producer, PushInvalid, PushNoClock, PushCall, PushRefused, PushWait, PushLock,
         PushSpurious, PushExpire, PushTimedOut, PushHdr, consVars, history
    <3>2. /\ ppc[p] # "notify" /\ ppc'[p] # "notify"
          /\ \A q \in Producers : q # p => ppc'[q] = ppc[q]
      BY <1>0, <1>2, <2>3 DEF Producer, PushInvalid, PushNoClock, PushCall, PushRefused, PushWait,
         PushLock, PushSpurious, PushExpire, PushTimedOut, PushHdr, Return
    <3>3. Pending' = Pending
      BY <3>2 DEF Pending
    <3> QED BY <3>1, <3>3 DEF BalInv, Surplus, Unread, SurplusKept
  <2> QED BY <2>1, <2>2, <2>3
<1>3. CASE Consumer
  <2>1. Pending' = Pending
    <3>1. CASE PeekData
      BY <1>0, <3>1 DEF PeekData, cond_signal, Waiting, Pending
    <3>2. CASE ~PeekData
      BY <1>3, <3>2 DEF Consumer, PeekCall, PeekEmpty, PeekLock, pop_notify, PeekHdr, Pending
    <3> QED BY <3>1, <3>2
  <2>2. CASE pop_notify
    <3>1. /\ cpc = "pop" /\ cpc' = "hdr" /\ queue' = queue
          /\ pipe' = (IF pipe > 0 THEN pipe - 1 ELSE 0)
      BY <2>2 DEF pop_notify, history
    <3>2. queue # <<>>
      BY <3>1 DEF IInv, RingInv, PeekInv
    <3>3. Unread' = Unread - 1 /\ Unread >= 1
      BY <1>0, <3>1, <3>2 DEF Unread
    <3>4. CASE pipe > 0
      <4>1. Surplus' = Surplus
        BY <1>0, <1>c, <2>1, <3>1, <3>3, <3>4, UnreadFits DEF Surplus
      <4> QED BY <4>1 DEF BalInv, SurplusKept
    <3>5. CASE pipe = 0
      <4>1. Surplus' = Cardinality(Pending) - (Unread - 1)
        BY <1>0, <1>c, <2>1, <3>1, <3>3, <3>5, UnreadFits DEF Surplus
      <4>2. Cardinality(Pending) >= Unread
        BY <1>c, <1>s, <3>5, UnreadFits
      <4> QED BY <1>c, <3>1, <3>3, <3>5, <4>1, <4>2, UnreadFits, PendingFinite DEF BalInv, SurplusKept
    <3> QED BY <1>0, <3>4, <3>5
  <2>3. CASE PeekData
    <3>1. /\ cpc = "data" /\ cpc' = "idle" /\ queue' = Tail(queue) /\ pipe' = pipe
      BY <2>3 DEF PeekData
    <3>2. queue # <<>>
      BY <3>1 DEF IInv, RingInv, PeekInv
    <3>3. Unread' = Unread
      BY <1>0, <3>1, <3>2 DEF Unread
    <3> QED BY <2>1, <3>1, <3>3 DEF BalInv, Surplus, SurplusKept
  <2>4. CASE ~pop_notify /\ ~PeekData
    <3>1. pipe' = pipe /\ Unread' = Unread
      BY <1>3, <2>4 DEF Consumer, PeekCall, PeekEmpty, PeekLock, PeekHdr, Unread, history
    <3> QED BY <2>1, <3>1 DEF BalInv, Surplus, SurplusKept
  <2> QED BY <2>2, <2>3, <2>4
<1>4. CASE UNCHANGED vars
  BY <1>4 DEF vars, consVars, history, BalInv, Surplus, Unread, Pending, SurplusKept
<1> QED BY <1>1, <1>2, <1>3, <1>4 DEF Next

\* The balance holds in every reachable state.
LEMMA Balanced == Spec => []BalInv
<1>1. Init => BalInv
  <2> SUFFICES ASSUME Init PROVE BalInv
    OBVIOUS
  <2>1. Pending = {} /\ Unread = 0 /\ pipe = 0
    BY DEF Init, Pending, Unread
  <2>2. Cardinality(Pending) = 0 /\ Cardinality(Producers) \in Nat
    BY <2>1, FS_EmptySet, PendingFinite
  <2> QED BY <2>1, <2>2 DEF BalInv, Surplus
<1> QED BY <1>1, BalStep, Invariance, PTL DEF Spec

\* push_notify runs outside the mutex and its failure is only logged, and yet
\* no notification is lost and the pipe never fills up, with any consumer.
THEOREM NotificationsBalance == Spec => []NotificationBalance
<1>1. IInv /\ BalInv => NotificationBalance
  BY PipeHasRoom DEF BalInv, NotificationBalance
<1> QED BY <1>1, Balanced, Invariance, PTL

\* With one peek per readable descriptor no notification is ever overtaken.
OnceInv == Surplus = 0 /\ (cpc \in {"lock", "pop"} => pipe > 0)

\* Steps of such a consumer, and of any producers, keep the count exact.
LEMMA OnceStep ==
  ASSUME Policy = "once", IInv, IInv', BalInv, OnceInv, [Next]_vars
  PROVE  OnceInv'
<1>1. Surplus' = 0
  <2>1. SurplusKept
    BY BalStep
  <2>2. ~(cpc = "pop" /\ pipe = 0)
    BY DEF OnceInv
  <2> QED BY <2>1, <2>2 DEF SurplusKept, OnceInv
<1>2. cpc' \in {"lock", "pop"} => pipe' > 0
  <2>1. CASE Lifecycle
    BY <2>1 DEF Lifecycle, NewBox, NewBufmem, NewChannel, dynmbox_destroy,
                consVars, IInv, CtlInv, LifeInv
  <2>2. ASSUME NEW p \in Producers, Producer(p) PROVE cpc' = cpc /\ pipe' >= pipe
    <3>1. pipe \in Nat
      BY DEF IInv, CtlInv, CtlType
    <3> QED BY <2>2, <3>1 DEF Producer, PushInvalid, PushNoClock, PushCall, PushRefused, PushWait, PushLock,
            PushSpurious, PushExpire, PushTimedOut, PushHdr, PushData, push_notify, consVars
  <2>3. CASE Consumer
    BY <2>3 DEF Consumer, PeekCall, PeekEmpty, PeekLock, pop_notify, PeekHdr, PeekData,
                MayPeek, Readable, OnceInv
  <2>4. CASE UNCHANGED vars
    BY <2>4 DEF vars, consVars, OnceInv
  <2>5. pipe \in Nat /\ pipe' \in Nat
    BY DEF IInv, CtlInv, CtlType
  <2> QED BY <2>1, <2>2, <2>3, <2>4, <2>5 DEF Next, OnceInv
<1> QED BY <1>1, <1>2 DEF OnceInv

\* A consumer that calls dynmbox_peek once per readable descriptor never finds
\* it readable without a message, with any number of producers.
THEOREM OncePerWakeup ==
  ASSUME Policy = "once"
  PROVE  Spec => []ReadableMeansMessage
<1>1. Init => OnceInv
  <2> SUFFICES ASSUME Init PROVE OnceInv
    OBVIOUS
  <2>1. Pending = {} /\ Unread = 0 /\ pipe = 0 /\ cpc = "idle"
    BY DEF Init, Pending, Unread
  <2>2. Cardinality(Pending) = 0
    BY <2>1, FS_EmptySet
  <2> QED BY <2>1, <2>2 DEF OnceInv, Surplus
<1>2. IInv /\ IInv' /\ BalInv /\ OnceInv /\ [Next]_vars => OnceInv'
  BY OnceStep
<1>3. IInv /\ OnceInv => ReadableMeansMessage
  <2> SUFFICES ASSUME IInv, OnceInv, Readable, cpc = "idle" PROVE queue # <<>>
    BY DEF ReadableMeansMessage
  <2>1. pipe > 0 /\ pipe \in Nat
    BY DEF Readable, IInv, CtlInv, CtlType
  <2>2. pipe + Cardinality(Pending) - Unread = 0 /\ Unread = Len(queue) - 0
    BY DEF OnceInv, Surplus, Unread
  <2>3. Unread > 0
    BY <2>1, <2>2, UnreadFits, PendingFinite
  <2> QED BY <2>2, <2>3
<1> QED BY <1>1, <1>2, <1>3, Balanced, Invariance, PTL DEF Spec

=============================================================================
