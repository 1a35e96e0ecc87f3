----------------------------- MODULE MboxProofs -----------------------------
(***************************************************************************)
(* Proofs about Mbox, for every number of producers, every message size,   *)
(* every PIPE_BUF and every pipe that holds at least that much.            *)
(*                                                                         *)
(* The pipe holds bytes and the mailbox promises messages: the inductive   *)
(* invariant says that what is in the pipe is a whole number of messages,  *)
(* and that a producer whose poll() returned has its room unless another   *)
(* one wrote since.                                                        *)
(***************************************************************************)
EXTENDS Mbox, SequenceTheorems, TLAPS

-----------------------------------------------------------------------------
(* A sequence of bytes cut in pieces of n bytes.                           *)

Pieces(s, n) == [k \in 1 .. (Len(s) \div n) |-> SubSeq(s, (k - 1) * n + 1, k * n)]

\* Where the pieces of a sequence of whole messages begin and end.
LEMMA PieceBounds ==
  ASSUME NEW k \in Nat, NEW n \in Nat \ {0}
  PROVE  /\ (k * n) \div n = k
         /\ (k + 1) * n = k * n + n
         /\ \A i \in 1 .. k : /\ (i - 1) * n \in Nat /\ i * n \in Nat
                              /\ (i - 1) * n + n = i * n /\ i * n <= k * n
<1>1. (k * n) \div n = k
  OBVIOUS
<1>2. (k + 1) * n = k * n + n
  OBVIOUS
<1>3. \A i \in 1 .. k : /\ (i - 1) * n \in Nat /\ i * n \in Nat
                        /\ (i - 1) * n + n = i * n /\ i * n <= k * n
  OBVIOUS
<1> QED BY <1>1, <1>2, <1>3

\* s is k pieces of n items.
Cut(S, s, n, k) ==
  /\ Pieces(s, n) \in Seq(Seq(S)) /\ Len(Pieces(s, n)) = k
  /\ \A i \in 1 .. k : Pieces(s, n)[i] = SubSeq(s, (i - 1) * n + 1, i * n)

\* The pieces are as many messages.
LEMMA PiecesType ==
  ASSUME NEW S, NEW s \in Seq(S), NEW n \in Nat \ {0}, NEW k \in Nat, Len(s) = k * n
  PROVE  Cut(S, s, n, k)
<1>1. Len(s) \div n = k
  BY PieceBounds
<1>2. \A i \in 1 .. k : SubSeq(s, (i - 1) * n + 1, i * n) \in Seq(S)
  <2>1. SUFFICES ASSUME NEW i \in 1 .. k
                 PROVE  SubSeq(s, (i - 1) * n + 1, i * n) \in Seq(S)
    OBVIOUS
  <2>2. (i - 1) * n \in Nat /\ i * n \in Nat /\ i * n <= Len(s)
    BY PieceBounds
  <2>3. \A j \in (i - 1) * n + 1 .. i * n : s[j] \in S
    BY <2>2
  <2> QED BY <2>2, <2>3, SubSeqProperties
<1> DEFINE P == [i \in 1 .. k |-> SubSeq(s, (i - 1) * n + 1, i * n)]
<1>3. Pieces(s, n) = P
  BY <1>1 DEF Pieces
<1>4. P \in [1 .. k -> Seq(S)] /\ \A i \in 1 .. k : P[i] = SubSeq(s, (i - 1) * n + 1, i * n)
  BY <1>2
<1> HIDE DEF P
<1>5. P \in Seq(Seq(S)) /\ Len(P) = k
  BY <1>4
<1> QED BY <1>3, <1>4, <1>5 DEF Cut

\* A message written to the pipe is one piece more.
LEMMA PiecesAppend ==
  ASSUME NEW S, NEW s \in Seq(S), NEW n \in Nat \ {0}, NEW k \in Nat, Len(s) = k * n,
         NEW m \in Seq(S)
  PROVE  Len(m) = n => Pieces(s \o m, n) = Append(Pieces(s, n), m)
<1> SUFFICES ASSUME Len(m) = n
             PROVE  Pieces(s \o m, n) = Append(Pieces(s, n), m)
  OBVIOUS
<1>1. k + 1 \in Nat /\ s \o m \in Seq(S) /\ Len(s \o m) = (k + 1) * n
  BY ConcatProperties, PieceBounds
<1>2. /\ Pieces(s \o m, n) \in Seq(Seq(S)) /\ Len(Pieces(s \o m, n)) = k + 1
      /\ \A i \in 1 .. k + 1 : Pieces(s \o m, n)[i] = SubSeq(s \o m, (i - 1) * n + 1, i * n)
  <2>1. Cut(S, s \o m, n, k + 1)
    BY <1>1, PiecesType
  <2> QED BY <2>1 DEF Cut
<1>3. /\ Pieces(s, n) \in Seq(Seq(S)) /\ Len(Pieces(s, n)) = k
      /\ \A i \in 1 .. k : Pieces(s, n)[i] = SubSeq(s, (i - 1) * n + 1, i * n)
  <2>1. Cut(S, s, n, k)
    BY PiecesType
  <2> QED BY <2>1 DEF Cut
<1>4. /\ Append(Pieces(s, n), m) \in Seq(Seq(S)) /\ Len(Append(Pieces(s, n), m)) = k + 1
      /\ \A i \in 1 .. k : Append(Pieces(s, n), m)[i] = Pieces(s, n)[i]
      /\ Append(Pieces(s, n), m)[k + 1] = m
  BY <1>3, AppendProperties
<1>5. ASSUME NEW i \in 1 .. k
      PROVE  SubSeq(s \o m, (i - 1) * n + 1, i * n) = SubSeq(s, (i - 1) * n + 1, i * n)
  <2>1. (i - 1) * n + 1 \in 1 .. Len(s) /\ i * n \in 1 .. Len(s)
    <3>1. (i - 1) * n \in Nat /\ i * n \in Nat /\ (i - 1) * n + n = i * n /\ i * n <= k * n
      BY PieceBounds
    <3> QED BY <3>1
  <2> QED BY <2>1, SubSeqOfConcat1
<1>6. SubSeq(s \o m, ((k + 1) - 1) * n + 1, (k + 1) * n) = m
  <2>1. k * n \in Nat /\ (k + 1) * n = Len(s) + n /\ ((k + 1) - 1) * n = Len(s)
    BY PieceBounds
  <2>2. Len(s) + 1 \in Len(s) + 1 .. Len(s) + Len(m) /\ Len(s) + n \in Len(s) + 1 .. Len(s) + Len(m)
    OBVIOUS
  <2>3. SubSeq(s \o m, Len(s) + 1, Len(s) + n)
          = SubSeq(m, Len(s) + 1 - Len(s), Len(s) + n - Len(s))
    BY <2>2, SubSeqOfConcat2
  <2>4. SubSeq(m, 1, n) = m
    BY SubSeqFull
  <2> QED BY <2>1, <2>3, <2>4
<1>7. \A i \in 1 .. k + 1 : Pieces(s \o m, n)[i] = Append(Pieces(s, n), m)[i]
  <2>1. SUFFICES ASSUME NEW i \in 1 .. k + 1
                 PROVE  Pieces(s \o m, n)[i] = Append(Pieces(s, n), m)[i]
    OBVIOUS
  <2>2. CASE i \in 1 .. k
    <3>1. Pieces(s \o m, n)[i] = SubSeq(s \o m, (i - 1) * n + 1, i * n)
      BY <1>2, <2>1
    <3>2. SubSeq(s \o m, (i - 1) * n + 1, i * n) = SubSeq(s, (i - 1) * n + 1, i * n)
      BY <1>5, <2>2
    <3>3. Append(Pieces(s, n), m)[i] = SubSeq(s, (i - 1) * n + 1, i * n)
      BY <1>3, <1>4, <2>2
    <3> QED BY <3>1, <3>2, <3>3
  <2>3. CASE i = k + 1
    <3>1. k + 1 \in 1 .. k + 1
      OBVIOUS
    <3>2. Pieces(s \o m, n)[k + 1] = SubSeq(s \o m, ((k + 1) - 1) * n + 1, (k + 1) * n)
      BY <1>2, <3>1, Zenon
    <3>3. Append(Pieces(s, n), m)[k + 1] = m
      BY <1>4
    <3>4. Pieces(s \o m, n)[k + 1] = Append(Pieces(s, n), m)[k + 1]
      BY <1>6, <3>2, <3>3
    <3> QED BY <2>3, <3>4
  <2>4. i \in 1 .. k \/ i = k + 1
    BY <2>1
  <2> QED BY <2>2, <2>3, <2>4
<1> QED BY <1>2, <1>4, <1>7, SeqEqual

\* The first piece of s, and the others.
FirstOff(s, n) ==
  /\ Pieces(s, n) # <<>>
  /\ Head(Pieces(s, n)) = SubSeq(s, 1, n)
  /\ Tail(Pieces(s, n)) = Pieces(SubSeq(s, n + 1, Len(s)), n)

\* A message read from the pipe is the first piece, and the others are left.
LEMMA PiecesTail ==
  ASSUME NEW S, NEW s \in Seq(S), NEW n \in Nat \ {0},
         NEW k \in Nat, Len(s) = (k + 1) * n
  PROVE  /\ SubSeq(s, n + 1, Len(s)) \in Seq(S)
         /\ Len(SubSeq(s, n + 1, Len(s))) = k * n
         /\ FirstOff(s, n)
<1> DEFINE r == SubSeq(s, n + 1, Len(s))
<1>1. k * n \in Nat /\ Len(s) = k * n + n
  BY PieceBounds
<1>2. r \in Seq(S) /\ Len(r) = k * n /\ \A i \in 1 .. k * n : r[i] = s[n + i]
  <2>1. \A i \in n + 1 .. Len(s) : s[i] \in S
    BY <1>1
  <2>2. r \in Seq(S) /\ Len(r) = (IF n + 1 <= Len(s) THEN Len(s) - (n + 1) + 1 ELSE 0)
        /\ \A i \in 1 .. Len(s) - (n + 1) + 1 : r[i] = s[n + 1 + i - 1]
    BY <1>1, <2>1, SubSeqProperties
  <2>3. Len(s) - (n + 1) + 1 = k * n
    BY <1>1
  <2> QED BY <1>1, <2>2, <2>3
<1> HIDE DEF r
<1>3. /\ Pieces(s, n) \in Seq(Seq(S)) /\ Len(Pieces(s, n)) = k + 1
      /\ \A i \in 1 .. k + 1 : Pieces(s, n)[i] = SubSeq(s, (i - 1) * n + 1, i * n)
  <2>1. k + 1 \in Nat
    OBVIOUS
  <2>2. Cut(S, s, n, k + 1)
    BY <2>1, PiecesType
  <2> QED BY <2>2 DEF Cut
<1>4. /\ Pieces(r, n) \in Seq(Seq(S)) /\ Len(Pieces(r, n)) = k
      /\ \A i \in 1 .. k : Pieces(r, n)[i] = SubSeq(r, (i - 1) * n + 1, i * n)
  <2>1. Cut(S, r, n, k)
    BY <1>2, PiecesType
  <2> QED BY <2>1 DEF Cut
<1>5. Pieces(s, n) # <<>> /\ Head(Pieces(s, n)) = SubSeq(s, 1, n)
  <2>1. (1 - 1) * n + 1 = 1 /\ 1 * n = n
    OBVIOUS
  <2> QED BY <1>3, <2>1
<1>6. /\ Tail(Pieces(s, n)) \in Seq(Seq(S)) /\ Len(Tail(Pieces(s, n))) = k
      /\ \A i \in 1 .. k : Tail(Pieces(s, n))[i] = Pieces(s, n)[i + 1]
  BY <1>3, <1>5, HeadTailProperties
<1>7. ASSUME NEW i \in 1 .. k
      PROVE  SubSeq(r, (i - 1) * n + 1, i * n) = SubSeq(s, ((i + 1) - 1) * n + 1, (i + 1) * n)
  <2> DEFINE lo == (i - 1) * n
  <2>1. lo \in Nat /\ i * n = lo + n /\ lo + n <= k * n
        /\ ((i + 1) - 1) * n = lo + n /\ (i + 1) * n = lo + n + n
    BY PieceBounds
  <2> HIDE DEF lo
  <2>2. /\ SubSeq(r, lo + 1, lo + n) \in Seq(S) /\ Len(SubSeq(r, lo + 1, lo + n)) = n
        /\ \A j \in 1 .. n : SubSeq(r, lo + 1, lo + n)[j] = r[lo + j]
    <3>1. \A j \in lo + 1 .. lo + n : r[j] \in S
      BY <1>2, <2>1
    <3> QED BY <2>1, <3>1, SubSeqProperties
  <2>3. /\ SubSeq(s, lo + n + 1, lo + n + n) \in Seq(S)
        /\ Len(SubSeq(s, lo + n + 1, lo + n + n)) = n
        /\ \A j \in 1 .. n : SubSeq(s, lo + n + 1, lo + n + n)[j] = s[lo + n + j]
    <3>1. \A j \in lo + n + 1 .. lo + n + n : s[j] \in S
      BY <1>1, <2>1
    <3> QED BY <2>1, <3>1, SubSeqProperties
  <2>4. \A j \in 1 .. n : r[lo + j] = s[lo + n + j]
    <3>1. \A j \in 1 .. n : lo + j \in 1 .. k * n /\ n + (lo + j) = lo + n + j
      BY <2>1
    <3> QED BY <1>2, <3>1
  <2>5. SubSeq(r, lo + 1, lo + n) = SubSeq(s, lo + n + 1, lo + n + n)
    <3> DEFINE u == SubSeq(r, lo + 1, lo + n)
               v == SubSeq(s, lo + n + 1, lo + n + n)
    <3>1. u \in Seq(S) /\ v \in Seq(S) /\ Len(u) = n /\ Len(v) = n
      BY <2>2, <2>3
    <3>2. \A j \in 1 .. n : u[j] = v[j]
      BY <2>2, <2>3, <2>4
    <3> HIDE DEF u, v
    <3>3. u = v
      BY <3>1, <3>2, SeqEqual
    <3> QED BY <3>3 DEF u, v
  <2> QED BY <2>1, <2>5 DEF lo
<1>8. \A i \in 1 .. k : Tail(Pieces(s, n))[i] = Pieces(r, n)[i]
  <2>1. \A i \in 1 .. k : i + 1 \in 1 .. k + 1
    OBVIOUS
  <2> QED BY <1>3, <1>4, <1>6, <1>7, <2>1, Zenon
<1>9. Tail(Pieces(s, n)) = Pieces(r, n)
  BY <1>4, <1>6, <1>8, SeqEqual
<1> QED BY <1>2, <1>5, <1>9 DEF r, FirstOff

-----------------------------------------------------------------------------
(* The inductive invariant.                                                *)

\* The pipe holds whole messages, each of fewer than PIPE_BUF bytes.
BoxInv ==
  /\ life \in {"none", "pipe", "open"} /\ msg_size \in Nat
  /\ life # "none" => msg_size # 0 /\ msg_size < PIPE_BUF
  /\ pipe \in Seq(Byte)
  /\ life # "open" => pipe = <<>>
  /\ \E k \in Nat : Len(pipe) = k * msg_size

\* A thread inside a call has a message of the right size.
CallInv ==
  /\ ppc \in [Producers -> {"idle", "poll", "write"}]
  /\ msg \in [Producers -> Seq(Byte)]
  /\ block \in [Producers -> BOOLEAN] /\ raced \in [Producers -> BOOLEAN]
  /\ ret \in [Producers -> {"none", "0", "EAGAIN", "ETIMEDOUT", "EINVAL", "errno"}]
  /\ \A p \in Producers : ppc[p] # "idle" =>
       life = "open" /\ msg[p] \in Messages /\ Len(msg[p]) = msg_size

\* The room that poll() saw is there until another producer takes it.
RoomInv == \A p \in Producers : ppc[p] = "write" /\ block[p] /\ ~raced[p] => Writable

IInv == BoxInv /\ CallInv /\ RoomInv /\ RefusedOnlyIfRaced

\* The size of the message that a thread is about to write: all or nothing.
LEMMA WriteIsAtomic ==
  ASSUME IInv, NEW p \in Producers, ppc[p] = "write"
  PROVE  /\ WriteSizes = {} <=> msg_size > PipeCap - Len(pipe)
         /\ WriteSizes # {} => WriteSizes = {msg_size}
         /\ SubSeq(msg[p], 1, msg_size) = msg[p]
         /\ msg[p] \in Messages /\ msg[p] \in Seq(Byte) /\ Len(msg[p]) = msg_size
         /\ life = "open" /\ msg_size \in Nat \ {0}
<1>1. /\ life = "open" /\ msg[p] \in Messages /\ Len(msg[p]) = msg_size
      /\ msg[p] \in Seq(Byte)
  BY DEF IInv, CallInv
<1>2. msg_size \in Nat \ {0} /\ msg_size < PIPE_BUF /\ pipe \in Seq(Byte)
  BY <1>1 DEF IInv, BoxInv
<1>3. SubSeq(msg[p], 1, msg_size) = msg[p]
  BY <1>1, SubSeqFull
<1>4. Len(pipe) \in Nat
  BY <1>2
<1>5. /\ WriteSizes = {} <=> msg_size > PipeCap - Len(pipe)
      /\ WriteSizes # {} => WriteSizes = {msg_size}
  BY <1>2, <1>4, PipeAssumption DEF WriteSizes
<1> QED BY <1>1, <1>2, <1>3, <1>5

\* mbox_new and mbox_destroy.
LEMMA LifecycleKeeps == ASSUME IInv, Lifecycle PROVE IInv'
<1>1. ASSUME NEW n \in Sizes, NewBox(n) PROVE IInv'
  <2>1. /\ life = "none" /\ life' = "pipe" /\ msg_size' = n /\ n # 0 /\ n < PIPE_BUF /\ n \in Nat
        /\ UNCHANGED <<pipe, ppc, msg, block, timeout, raced, ret>>
    BY <1>1, InputsAssumption DEF NewBox, ValidSize, callVars
  <2>2. pipe' = <<>> /\ 0 = 0 * n
    BY <2>1 DEF IInv, BoxInv
  <2>3. BoxInv'
    BY <2>1, <2>2 DEF IInv, BoxInv
  <2>4. CallInv' /\ RoomInv' /\ RefusedOnlyIfRaced'
    BY <2>1 DEF IInv, CallInv, RoomInv, RefusedOnlyIfRaced
  <2> QED BY <2>3, <2>4 DEF IInv
<1>2. ASSUME NEW ok \in BOOLEAN, NewPipe(ok) PROVE IInv'
  <2>1. /\ life = "pipe" /\ life' \in {"none", "open"}
        /\ UNCHANGED <<msg_size, pipe, ppc, msg, block, timeout, raced, ret>>
    BY <1>2 DEF NewPipe, callVars
  <2>2. BoxInv'
    BY <2>1 DEF IInv, BoxInv
  <2>3. CallInv' /\ RoomInv' /\ RefusedOnlyIfRaced'
    BY <2>1 DEF IInv, CallInv, RoomInv, RefusedOnlyIfRaced, Writable
  <2> QED BY <2>2, <2>3 DEF IInv
<1>3. ASSUME mbox_destroy PROVE IInv'
  <2>1. /\ life' = "none" /\ pipe' = <<>> /\ \A p \in Producers : ppc[p] = "idle"
        /\ UNCHANGED <<msg_size, ppc, msg, block, timeout, raced, ret>>
    BY <1>3 DEF mbox_destroy, callVars
  <2>2. msg_size \in Nat /\ 0 = 0 * msg_size
    BY DEF IInv, BoxInv
  <2>3. BoxInv'
    BY <2>1, <2>2 DEF IInv, BoxInv
  <2>4. CallInv' /\ RoomInv' /\ RefusedOnlyIfRaced'
    BY <2>1 DEF IInv, CallInv, RoomInv, RefusedOnlyIfRaced
  <2> QED BY <2>3, <2>4 DEF IInv
<1> QED BY <1>1, <1>2, <1>3 DEF Lifecycle

\* mbox_peek takes one message.
LEMMA PeekTakesOne ==
  ASSUME IInv, Peek
  PROVE  /\ out' = SubSeq(pipe, 1, msg_size)
         /\ pipe' = SubSeq(pipe, msg_size + 1, Len(pipe))
         /\ msg_size \in Nat \ {0} /\ pipe \in Seq(Byte)
         /\ \E k \in Nat : Len(pipe) = (k + 1) * msg_size
<1>1. msg_size \in Nat \ {0} /\ pipe \in Seq(Byte) /\ pipe # <<>>
  BY DEF IInv, BoxInv, Peek
<1>2. PICK k \in Nat : Len(pipe) = k * msg_size
  BY DEF IInv, BoxInv
<1>3. Len(pipe) > 0
  BY <1>1
<1>4. k # 0
  BY <1>1, <1>2, <1>3
<1>5. k - 1 \in Nat /\ Len(pipe) = ((k - 1) + 1) * msg_size
  BY <1>2, <1>4
<1>6. Len(pipe) >= msg_size
  BY <1>1, <1>2, <1>4
<1>7. Shorter(msg_size, Len(pipe)) = msg_size
  BY <1>1, <1>3, <1>6 DEF Shorter
<1> QED BY <1>1, <1>5, <1>7 DEF Peek

LEMMA PeekKeeps == ASSUME IInv, Peek \/ PeekEmpty PROVE IInv'
<1>1. CASE PeekEmpty
  <2>1. UNCHANGED <<life, held, msg_size, pipe, ppc, msg, block, timeout, raced, ret>>
    BY <1>1 DEF PeekEmpty, boxVars, callVars
  <2> QED BY <2>1 DEF IInv, BoxInv, CallInv, RoomInv, RefusedOnlyIfRaced, Writable
<1>2. CASE Peek
  <2>1. UNCHANGED <<life, held, msg_size, ppc, msg, block, timeout, raced, ret>> /\ life = "open"
    BY <1>2 DEF Peek, boxVars, callVars
  <2>2. PICK k \in Nat : Len(pipe) = (k + 1) * msg_size
    BY <1>2, PeekTakesOne
  <2>3. pipe' \in Seq(Byte) /\ Len(pipe') = k * msg_size /\ msg_size \in Nat \ {0}
    <3>1. /\ pipe' = SubSeq(pipe, msg_size + 1, Len(pipe))
          /\ msg_size \in Nat \ {0} /\ pipe \in Seq(Byte)
      BY <1>2, PeekTakesOne
    <3>2. /\ SubSeq(pipe, msg_size + 1, Len(pipe)) \in Seq(Byte)
          /\ Len(SubSeq(pipe, msg_size + 1, Len(pipe))) = k * msg_size
      BY <2>2, <3>1, PiecesTail
    <3> QED BY <3>1, <3>2
  <2>4. Len(pipe') \in Nat /\ Len(pipe) \in Nat /\ Len(pipe') <= Len(pipe)
    BY <2>2, <2>3, PieceBounds
  <2>5. BoxInv'
    BY <2>1, <2>3 DEF IInv, BoxInv
  <2>6. CallInv' /\ RefusedOnlyIfRaced'
    BY <2>1 DEF IInv, CallInv, RefusedOnlyIfRaced
  <2>7. Writable => Writable'
    BY <2>4, PipeAssumption DEF Writable
  <2>8. RoomInv'
    BY <2>1, <2>7 DEF IInv, RoomInv
  <2> QED BY <2>5, <2>6, <2>8 DEF IInv
<1> QED BY <1>1, <1>2

\* The calls of a producer up to its write().
LEMMA CallKeeps ==
  ASSUME IInv, NEW p \in Producers,
         \/ \E m \in Messages : PushCall(p, m)
         \/ \E m \in Messages, t \in Timeouts : PushBlockCall(p, m, t)
         \/ \E t \in Timeouts : PushBlockInvalid(p, t)
         \/ PollReady(p) \/ PollTimeout(p) \/ PollFails(p)
  PROVE  IInv'
<1>1. UNCHANGED <<life, held, msg_size, pipe>> /\ (Writable' <=> Writable)
  BY DEF PushCall, PushBlockCall, PushBlockInvalid, PollReady, PollTimeout, PollFails,
         boxVars, Writable
<1>2. BoxInv'
  BY <1>1 DEF IInv, BoxInv
<1>3. ASSUME NEW m \in Messages, NEW b \in BOOLEAN, NEW t, Call(p, m, b, t),
             \/ ~b /\ ppc' = [ppc EXCEPT ![p] = "write"]
             \/ ppc' = [ppc EXCEPT ![p] = "poll"]
      PROVE  CallInv' /\ RoomInv' /\ RefusedOnlyIfRaced'
  <2>1. m \in Seq(Byte) /\ Len(m) = msg_size /\ life = "open"
    BY <1>3, InputsAssumption DEF Call
  <2>2. /\ msg' = [msg EXCEPT ![p] = m] /\ block' = [block EXCEPT ![p] = b]
        /\ raced' = [raced EXCEPT ![p] = FALSE] /\ ret' = [ret EXCEPT ![p] = "none"]
    BY <1>3 DEF Call
  <2>3. CallInv'
    BY <1>1, <1>3, <2>1, <2>2 DEF IInv, CallInv
  <2>4. RefusedOnlyIfRaced'
    BY <2>2 DEF IInv, CallInv, RefusedOnlyIfRaced
  <2>5. RoomInv'
    BY <1>1, <1>3, <2>2 DEF IInv, CallInv, RoomInv
  <2> QED BY <2>3, <2>4, <2>5
<1>4. ASSUME NEW t \in Timeouts, PushBlockInvalid(p, t)
      PROVE  CallInv' /\ RoomInv' /\ RefusedOnlyIfRaced'
  BY <1>1, <1>4 DEF PushBlockInvalid, callVars, IInv, CallInv, RoomInv, RefusedOnlyIfRaced
<1>5. ASSUME PollReady(p) PROVE CallInv' /\ RoomInv' /\ RefusedOnlyIfRaced'
  BY <1>1, <1>5 DEF PollReady, callVars, IInv, CallInv, RoomInv, RefusedOnlyIfRaced
<1>6. ASSUME PollTimeout(p) \/ PollFails(p) PROVE CallInv' /\ RoomInv' /\ RefusedOnlyIfRaced'
  <2>1. PICK r \in {"ETIMEDOUT", "errno"} :
          /\ ppc' = [ppc EXCEPT ![p] = "idle"] /\ msg' = [msg EXCEPT ![p] = <<>>]
          /\ ret' = [ret EXCEPT ![p] = r] /\ UNCHANGED <<block, raced>>
    BY <1>6 DEF PollTimeout, PollFails, Return
  <2> QED BY <1>1, <2>1 DEF IInv, CallInv, RoomInv, RefusedOnlyIfRaced
<1>7. CallInv' /\ RoomInv' /\ RefusedOnlyIfRaced'
  <2>1. ASSUME NEW m \in Messages, PushCall(p, m) PROVE CallInv' /\ RoomInv' /\ RefusedOnlyIfRaced'
    BY <1>3, <2>1 DEF PushCall
  <2>2. ASSUME NEW m \in Messages, NEW t \in Timeouts, PushBlockCall(p, m, t)
        PROVE  CallInv' /\ RoomInv' /\ RefusedOnlyIfRaced'
    BY <1>3, <2>2 DEF PushBlockCall
  <2> QED BY <1>4, <1>5, <1>6, <2>1, <2>2
<1> QED BY <1>2, <1>7 DEF IInv

\* A write() is refused, or takes the message and nothing less.
LEMMA WriteCases ==
  ASSUME IInv, NEW p \in Producers, Write(p)
  PROVE  /\ ppc[p] = "write" /\ UNCHANGED <<life, held, msg_size, out, cret>>
         /\ ppc' = [ppc EXCEPT ![p] = "idle"] /\ msg' = [msg EXCEPT ![p] = <<>>]
         /\ UNCHANGED block
         /\ \/ /\ msg_size > PipeCap - Len(pipe) /\ UNCHANGED <<pipe, raced>>
               /\ ret' = [ret EXCEPT ![p] = "EAGAIN"]
            \/ /\ pipe' = pipe \o msg[p] /\ ret' = [ret EXCEPT ![p] = "0"]
               /\ raced' = [q \in Producers |-> raced[q] \/ (q # p /\ ppc[q] = "write")]
<1>1. ppc[p] = "write" /\ UNCHANGED <<life, held, msg_size, out, cret>>
  BY DEF Write, boxVars, readVars
<1>2. CASE WriteSizes = {}
  BY <1>1, <1>2, WriteIsAtomic DEF Write, Return
<1>3. CASE WriteSizes # {}
  <2>1. WriteSizes = {msg_size} /\ SubSeq(msg[p], 1, msg_size) = msg[p]
    BY <1>1, <1>3, WriteIsAtomic
  <2> QED BY <1>1, <1>3, <2>1 DEF Write, Return
<1> QED BY <1>2, <1>3

LEMMA WriteKeeps ==
  ASSUME IInv, NEW p \in Producers, Write(p)
  PROVE  IInv'
<1>1. /\ ppc[p] = "write" /\ UNCHANGED <<life, msg_size>>
      /\ ppc' = [ppc EXCEPT ![p] = "idle"] /\ msg' = [msg EXCEPT ![p] = <<>>]
      /\ UNCHANGED block
  BY WriteCases
<1>2. /\ msg[p] \in Seq(Byte) /\ Len(msg[p]) = msg_size /\ life = "open"
      /\ msg_size \in Nat \ {0} /\ msg_size < PIPE_BUF /\ pipe \in Seq(Byte)
  BY <1>1, WriteIsAtomic DEF IInv, BoxInv
<1>3. CASE /\ msg_size > PipeCap - Len(pipe) /\ UNCHANGED <<pipe, raced>>
           /\ ret' = [ret EXCEPT ![p] = "EAGAIN"]
  <2>1. Len(pipe) \in Nat
    BY <1>2
  <2>2. ~Writable /\ (Writable' <=> Writable)
    BY <1>2, <1>3, <2>1, PipeAssumption DEF Writable
  <2>3. block[p] => raced[p]
    BY <1>1, <2>2 DEF IInv, RoomInv
  <2>4. /\ BoxInv'
        /\ CallInv'
        /\ RoomInv'
    <3>1. BoxInv'
      BY <1>1, <1>3 DEF IInv, BoxInv
    <3>2. CallInv'
      BY <1>1, <1>3 DEF IInv, CallInv
    <3>3. RoomInv'
      BY <1>1, <1>3, <2>2 DEF IInv, CallInv, RoomInv
    <3> QED BY <3>1, <3>2, <3>3
  <2>5. RefusedOnlyIfRaced'
    BY <1>1, <1>3, <2>3 DEF IInv, CallInv, RefusedOnlyIfRaced
  <2> QED BY <2>4, <2>5 DEF IInv
<1>4. CASE /\ pipe' = pipe \o msg[p] /\ ret' = [ret EXCEPT ![p] = "0"]
           /\ raced' = [q \in Producers |-> raced[q] \/ (q # p /\ ppc[q] = "write")]
  <2>1. PICK k \in Nat : Len(pipe) = k * msg_size
    BY DEF IInv, BoxInv
  <2>2. pipe' \in Seq(Byte) /\ Len(pipe') = Len(pipe) + msg_size
    BY <1>2, <1>4, ConcatProperties
  <2>3. k + 1 \in Nat /\ Len(pipe') = (k + 1) * msg_size
    BY <1>2, <2>1, <2>2, PieceBounds
  <2>4. BoxInv'
    BY <1>1, <1>2, <2>2, <2>3 DEF IInv, BoxInv
  <2>5. raced' \in [Producers -> BOOLEAN]
    BY <1>4
  <2>6. CallInv'
    BY <1>1, <1>4, <2>5 DEF IInv, CallInv
  <2>7. \A q \in Producers : raced[q] \/ (q # p /\ ppc[q] = "write") => raced'[q]
    BY <1>4
  <2>8. RoomInv'
    BY <1>1, <2>7 DEF IInv, CallInv, RoomInv
  <2>9. RefusedOnlyIfRaced'
    BY <1>1, <1>4, <2>7 DEF IInv, CallInv, RefusedOnlyIfRaced
  <2> QED BY <2>4, <2>6, <2>8, <2>9 DEF IInv
<1> QED BY <1>3, <1>4, WriteCases

LEMMA InitHolds == Init => IInv
<1> SUFFICES ASSUME Init PROVE IInv
  OBVIOUS
<1>1. 0 \in Nat /\ Len(pipe) = 0 * 0 /\ pipe \in Seq(Byte)
  BY DEF Init
<1>2. BoxInv
  BY <1>1 DEF Init, BoxInv
<1>3. CallInv
  BY DEF Init, CallInv
<1>4. RoomInv /\ RefusedOnlyIfRaced
  BY DEF Init, RoomInv, RefusedOnlyIfRaced
<1> QED BY <1>2, <1>3, <1>4 DEF IInv

LEMMA StepKeeps == ASSUME IInv, [Next]_vars PROVE IInv'
<1>1. ASSUME NEW p \in Producers, Producer(p) PROVE IInv'
  <2>1. CASE Write(p)
    BY <2>1, WriteKeeps
  <2>2. CASE ~Write(p)
    BY <1>1, <2>2, CallKeeps DEF Producer
  <2> QED BY <2>1, <2>2
<1>2. ASSUME UNCHANGED vars PROVE IInv'
  BY <1>2 DEF vars, boxVars, callVars, readVars, IInv, BoxInv, CallInv, RoomInv,
     RefusedOnlyIfRaced, Writable
<1> QED BY <1>1, <1>2, LifecycleKeeps, PeekKeeps DEF Next

-----------------------------------------------------------------------------
(* The theorems.                                                           *)

\* The pipe always holds whole messages, and poll() is not lied to.
THEOREM Invariance == Spec => []IInv
<1>1. IInv /\ [Next]_vars => IInv'
  BY StepKeeps
<1> QED BY <1>1, InitHolds, PTL DEF Spec

\* mbox_push_block() fails with -EAGAIN only if another producer wrote between
\* its poll() and its write(), whatever the sizes: poll() waits for PIPE_BUF
\* bytes and mbox_new() refuses messages that are as large.
THEOREM RefusalIsARace == Spec => []RefusedOnlyIfRaced
<1>1. IInv => RefusedOnlyIfRaced
  BY DEF IInv
<1> QED BY <1>1, Invariance, PTL

-----------------------------------------------------------------------------
(* Refinement.                                                             *)

\* The abstract queue in terms of the pipe.
LEMMA QueuedValue ==
  ASSUME msg_size \in Nat
  PROVE  /\ msg_size # 0 => Queued = Pieces(pipe, msg_size)
         /\ pipe = <<>> => Queued = <<>>
<1>1. msg_size # 0 => Queued = Pieces(pipe, msg_size)
  BY DEF Queued, Pieces
<1>2. ASSUME pipe = <<>> PROVE Queued = <<>>
  <2>1. Len(pipe) = 0
    BY <1>2
  <2>2. (IF msg_size = 0 THEN 0 ELSE Len(pipe) \div msg_size) = 0
    BY <2>1
  <2> QED BY <2>2 DEF Queued
<1> QED BY <1>1, <1>2

\* A step that leaves the pipe and the message size alone leaves the queue alone.
LEMMA QueuedKept ==
  ASSUME UNCHANGED <<pipe, msg_size>>
  PROVE  Queued' = Queued
BY DEF Queued

\* A write() that succeeds is a push.
LEMMA WriteRefines ==
  ASSUME IInv, NEW p \in Producers, Write(p)
  PROVE  MB!Push(msg[p]) \/ UNCHANGED MB!vars
<1>1. /\ ppc[p] = "write" /\ UNCHANGED <<life, msg_size, out>>
      /\ \/ UNCHANGED pipe
         \/ pipe' = pipe \o msg[p]
  BY WriteCases
<1>2. CASE UNCHANGED pipe
  BY <1>1, <1>2, QueuedKept DEF MB!vars
<1>3. CASE pipe' = pipe \o msg[p]
  <2>1. /\ msg[p] \in Seq(Byte) /\ Len(msg[p]) = msg_size /\ life = "open"
        /\ msg_size \in Nat \ {0} /\ pipe \in Seq(Byte)
    BY <1>1, WriteIsAtomic DEF IInv, BoxInv
  <2>2. PICK k \in Nat : Len(pipe) = k * msg_size
    BY DEF IInv, BoxInv
  <2>3. Pieces(pipe \o msg[p], msg_size) = Append(Pieces(pipe, msg_size), msg[p])
    BY <2>1, <2>2, PiecesAppend
  <2>4. Queued = Pieces(pipe, msg_size)
    BY <2>1, QueuedValue
  <2>5. Queued' = Pieces(pipe', msg_size')
    BY <1>1, <2>1 DEF Queued, Pieces
  <2>6. Queued' = Append(Queued, msg[p])
    BY <1>1, <1>3, <2>3, <2>4, <2>5
  <2> QED BY <1>1, <2>1, <2>6 DEF MB!Push
<1> QED BY <1>1, <1>2, <1>3

\* mbox_peek takes the oldest message.
LEMMA PeekRefines ==
  ASSUME IInv, Peek
  PROVE  MB!Pop
<1>1. /\ out' = SubSeq(pipe, 1, msg_size)
      /\ pipe' = SubSeq(pipe, msg_size + 1, Len(pipe))
      /\ msg_size \in Nat \ {0} /\ pipe \in Seq(Byte)
  BY PeekTakesOne
<1>2. PICK k \in Nat : Len(pipe) = (k + 1) * msg_size
  BY PeekTakesOne
<1>3. life = "open" /\ UNCHANGED <<life, msg_size>>
  BY DEF Peek, boxVars
<1>4. Queued = Pieces(pipe, msg_size)
  BY <1>1, QueuedValue
<1>5. Queued' = Pieces(pipe', msg_size)
  BY <1>1, <1>3 DEF Queued, Pieces
<1>6. FirstOff(pipe, msg_size)
  BY <1>1, <1>2, PiecesTail
<1>7. Queued # <<>> /\ out' = Head(Queued) /\ Queued' = Tail(Queued)
  BY <1>1, <1>4, <1>5, <1>6 DEF FirstOff
<1> QED BY <1>3, <1>7 DEF MB!Pop

\* A step of mbox.c is a step of the abstract queue or leaves it alone.
LEMMA StepRefines == ASSUME IInv, [Next]_vars PROVE MB!Next \/ UNCHANGED MB!vars
<1>1. ASSUME NEW n \in Sizes, NewBox(n) PROVE UNCHANGED MB!vars
  <2>1. /\ life = "none" /\ life' = "pipe" /\ UNCHANGED <<pipe, out>>
        /\ msg_size \in Nat /\ msg_size' \in Nat
    BY <1>1, InputsAssumption DEF NewBox, readVars, IInv, BoxInv
  <2>2. pipe = <<>>
    BY <2>1 DEF IInv, BoxInv
  <2>3. Queued = <<>>
    BY <2>1, <2>2, QueuedValue
  <2>4. Queued' = <<>>
    <3>1. Len(pipe') = 0 /\ msg_size' \in Nat
      BY <2>1, <2>2
    <3>2. \A n1 \in Nat \ {0} : 0 \div n1 = 0
      OBVIOUS
    <3>3. msg_size' # 0 => Len(pipe') \div msg_size' = 0
      BY <3>1, <3>2
    <3>4. (IF msg_size' = 0 THEN 0 ELSE Len(pipe') \div msg_size') = 0
      BY <3>3
    <3> QED BY <3>4 DEF Queued
  <2> QED BY <2>1, <2>3, <2>4 DEF MB!vars
<1>2. ASSUME NEW ok \in BOOLEAN, NewPipe(ok) PROVE MB!Create \/ UNCHANGED MB!vars
  <2>1. /\ life = "pipe" /\ life' \in {"none", "open"} /\ UNCHANGED <<pipe, msg_size, out>>
    BY <1>2 DEF NewPipe, readVars
  <2> QED BY <2>1, QueuedKept DEF MB!Create, MB!vars
<1>3. ASSUME mbox_destroy PROVE MB!Destroy
  <2>1. /\ life = "open" /\ life' = "none" /\ pipe' = <<>> /\ UNCHANGED <<msg_size, out>>
        /\ msg_size \in Nat
    BY <1>3 DEF mbox_destroy, IInv, BoxInv
  <2>2. Queued' = <<>>
    <3>1. Len(pipe') = 0
      BY <2>1
    <3>2. (IF msg_size' = 0 THEN 0 ELSE Len(pipe') \div msg_size') = 0
      BY <2>1, <3>1
    <3> QED BY <3>2 DEF Queued
  <2> QED BY <2>1, <2>2 DEF MB!Destroy
<1>4. ASSUME NEW p \in Producers, Producer(p) PROVE MB!Next \/ UNCHANGED MB!vars
  <2>1. CASE Write(p)
    <3>1. msg[p] \in Messages
      BY <2>1, WriteIsAtomic DEF Write
    <3> QED BY <2>1, <3>1, WriteRefines DEF MB!Next
  <2>2. CASE ~Write(p)
    <3>1. UNCHANGED <<life, msg_size, pipe, out>>
      BY <1>4, <2>2 DEF Producer, PushCall, PushBlockCall, PushBlockInvalid, PollReady,
         PollTimeout, PollFails, boxVars, readVars
    <3> QED BY <3>1, QueuedKept DEF MB!vars
  <2> QED BY <2>1, <2>2
<1>5. ASSUME PeekEmpty \/ UNCHANGED vars PROVE UNCHANGED MB!vars
  <2>1. UNCHANGED <<life, msg_size, pipe, out>>
    BY <1>5 DEF PeekEmpty, vars, boxVars, readVars
  <2> QED BY <2>1, QueuedKept DEF MB!vars
<1> QED BY <1>1, <1>2, <1>3, <1>4, <1>5, PeekRefines DEF Next, Lifecycle, MB!Next

\* mbox.c implements the queue of whole messages: every successful write() is a
\* push at the end of it and every peek returns the oldest message, entire,
\* although the pipe knows nothing but bytes.
THEOREM MailboxImplemented == Spec => ImplementsMailbox
<1>1. Init => MB!Init
  <2> SUFFICES ASSUME Init PROVE MB!Init
    OBVIOUS
  <2>1. life = "none" /\ pipe = <<>> /\ out = <<>> /\ msg_size = 0
    BY DEF Init
  <2>2. Queued = <<>>
    BY <2>1, QueuedValue
  <2> QED BY <2>1, <2>2 DEF MB!Init
<1>2. IInv /\ [Next]_vars => [MB!Next]_(MB!vars)
  BY StepRefines
<1> QED BY <1>1, <1>2, Invariance, PTL DEF Spec, ImplementsMailbox, MB!Spec
=============================================================================
