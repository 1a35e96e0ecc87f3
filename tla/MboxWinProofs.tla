--------------------------- MODULE MboxWinProofs ---------------------------
(***************************************************************************)
(* Proofs about MboxWin, for every number of producers, every message size *)
(* and every capacity of the sockets.                                      *)
(*                                                                         *)
(* The inductive invariant for the stream says whose message is the last   *)
(* one on the tape: as long as nothing is broken, at most one push is in   *)
(* the middle of its message, the last byte on the tape is the last that   *)
(* it sent, and when there is none the last message is complete.           *)
(***************************************************************************)
EXTENDS MboxWin, SequenceTheorems, TLAPS

-----------------------------------------------------------------------------
(* Sequences of bytes.                                                     *)

Byte == Messages \X Nat

\* Byte b follows byte a in messages of n bytes.
After(a, b, n) == \/ b[1] = a[1] /\ b[2] = a[2] + 1
                  \/ a[2] = n /\ b[2] = 1

Chain(s, n) == \A k \in 1 .. Len(s) - 1 : After(s[k], s[k + 1], n)

LEMMA ByteConcat ==
  ASSUME NEW s \in Seq(Byte), NEW t \in Seq(Byte), NEW u \in Seq(Byte)
  PROVE  (s \o t) \o u = s \o (t \o u)
BY ConcatAssociative

\* A chain that is continued.
LEMMA ChainGrows ==
  ASSUME NEW s \in Seq(Byte), NEW t \in Seq(Byte), NEW n, Chain(s, n), Chain(t, n),
         t # <<>>, s # <<>> => After(s[Len(s)], t[1], n)
  PROVE  /\ s \o t \in Seq(Byte) /\ s \o t # <<>> /\ Len(s \o t) = Len(s) + Len(t)
         /\ Chain(s \o t, n) /\ (s \o t)[Len(s \o t)] = t[Len(t)]
<1> DEFINE u == s \o t
<1>1. /\ Len(s) \in Nat /\ Len(t) \in Nat \ {0}
      /\ s # <<>> => Len(s) # 0
  BY EmptySeq, LenProperties
<1>2. /\ u \in Seq(Byte) /\ Len(u) = Len(s) + Len(t)
      /\ \A i \in 1 .. Len(s) + Len(t) : u[i] = IF i <= Len(s) THEN s[i] ELSE t[i - Len(s)]
  BY ConcatProperties
<1> HIDE DEF u
<1>3. u # <<>>
  BY <1>1, <1>2, EmptySeq
<1>4. u[Len(u)] = t[Len(t)]
  <2>1. Len(u) \in 1 .. Len(s) + Len(t) /\ ~(Len(u) <= Len(s)) /\ Len(u) - Len(s) = Len(t)
    BY <1>1, <1>2
  <2> QED BY <1>2, <2>1
<1>5. ASSUME NEW k \in 1 .. Len(u) - 1
      PROVE  After(u[k], u[k + 1], n)
  <2>0. /\ u[k] = IF k <= Len(s) THEN s[k] ELSE t[k - Len(s)]
        /\ u[k + 1] = IF k + 1 <= Len(s) THEN s[k + 1] ELSE t[(k + 1) - Len(s)]
        /\ k \in Int
    BY <1>1, <1>2
  <2>1. CASE k + 1 <= Len(s)
    <3>1. k \in 1 .. Len(s) - 1 /\ u[k] = s[k] /\ u[k + 1] = s[k + 1]
      BY <1>1, <2>0, <2>1
    <3> QED BY <3>1 DEF Chain
  <2>2. CASE k = Len(s)
    <3>1. u[k] = s[Len(s)] /\ u[k + 1] = t[1] /\ s # <<>>
      BY <1>1, <2>0, <2>2, EmptySeq
    <3> QED BY <3>1
  <2>3. CASE k > Len(s)
    <3> DEFINE j == k - Len(s)
    <3>1. j \in 1 .. Len(t) - 1 /\ u[k] = t[j] /\ u[k + 1] = t[j + 1]
      BY <1>1, <1>2, <2>0, <2>3
    <3> QED BY <3>1 DEF Chain
  <2>4. k + 1 <= Len(s) \/ k = Len(s) \/ k > Len(s)
    BY <1>1, <2>0
  <2> QED BY <2>1, <2>2, <2>3, <2>4
<1>6. Chain(u, n)
  BY <1>5 DEF Chain
<1> QED BY <1>2, <1>3, <1>4, <1>6 DEF u

\* The end of a chain is one.
LEMMA ChainEnd ==
  ASSUME NEW s \in Seq(Byte), NEW t \in Seq(Byte), NEW n, Chain(s \o t, n), t # <<>>
  PROVE  Chain(t, n) /\ (s \o t)[Len(s \o t)] = t[Len(t)] /\ s \o t # <<>>
<1> DEFINE u == s \o t
<1>1. Len(s) \in Nat /\ Len(t) \in Nat \ {0}
  BY EmptySeq, LenProperties
<1>2. /\ u \in Seq(Byte) /\ Len(u) = Len(s) + Len(t)
      /\ \A i \in 1 .. Len(s) + Len(t) : u[i] = IF i <= Len(s) THEN s[i] ELSE t[i - Len(s)]
  BY ConcatProperties
<1>3. Chain(u, n)
  OBVIOUS
<1> HIDE DEF u
<1>4. ASSUME NEW j \in 1 .. Len(t)
      PROVE  u[Len(s) + j] = t[j]
  <2>1. Len(s) + j \in 1 .. Len(s) + Len(t) /\ ~(Len(s) + j <= Len(s)) /\ (Len(s) + j) - Len(s) = j
    BY <1>1
  <2> QED BY <1>2, <2>1
<1>5. ASSUME NEW j \in 1 .. Len(t) - 1
      PROVE  After(t[j], t[j + 1], n)
  <2>1. /\ j \in 1 .. Len(t) /\ j + 1 \in 1 .. Len(t) /\ Len(s) + j \in 1 .. Len(u) - 1
        /\ Len(s) + (j + 1) = (Len(s) + j) + 1
    BY <1>1, <1>2
  <2>2. u[Len(s) + j] = t[j] /\ u[(Len(s) + j) + 1] = t[j + 1]
    BY <1>4, <2>1
  <2> QED BY <1>3, <2>1, <2>2 DEF Chain
<1>6. u[Len(u)] = t[Len(t)]
  BY <1>1, <1>2, <1>4
<1>7. u # <<>>
  BY <1>1, <1>2, EmptySeq
<1> QED BY <1>5, <1>6, <1>7 DEF Chain, u

\* What send() puts on the stream of message m, of which d bytes are there.
Bytes(m, d, n) == [j \in 1 .. n |-> <<m, d + j>>]

LEMMA BytesChain ==
  ASSUME NEW m \in Messages, NEW d \in Nat, NEW n \in Nat \ {0}, NEW size
  PROVE  /\ Bytes(m, d, n) \in Seq(Byte) /\ Len(Bytes(m, d, n)) = n /\ Bytes(m, d, n) # <<>>
         /\ Bytes(m, d, n)[1] = <<m, d + 1>> /\ Bytes(m, d, n)[n] = <<m, d + n>>
         /\ Chain(Bytes(m, d, n), size)
<1> DEFINE s == Bytes(m, d, n)
<1>1. \A j \in 1 .. n : <<m, d + j>> \in Byte
  BY DEF Byte
<1>2. s \in Seq(Byte) /\ Len(s) = n
  BY <1>1 DEF Bytes
<1>3. \A j \in 1 .. n : s[j] = <<m, d + j>>
  BY DEF Bytes
<1> HIDE DEF s
<1>4. s[1] = <<m, d + 1>> /\ s[n] = <<m, d + n>>
  BY <1>3
<1>5. s # <<>>
  BY <1>2, EmptySeq
<1>6. ASSUME NEW k \in 1 .. Len(s) - 1
      PROVE  After(s[k], s[k + 1], size)
  <2>1. k \in 1 .. n /\ k + 1 \in 1 .. n /\ d + (k + 1) = (d + k) + 1
    BY <1>2
  <2>2. s[k] = <<m, d + k>> /\ s[k + 1] = <<m, (d + k) + 1>>
    BY <1>3, <2>1
  <2> QED BY <2>2 DEF After
<1> QED BY <1>2, <1>4, <1>5, <1>6 DEF Chain, s

-----------------------------------------------------------------------------
(* The inductive invariant.                                                *)

TypeInv ==
  /\ step \in -1 .. Len(NewCalls)
  /\ msg_size \in Nat /\ (step # -1 => msg_size # 0)
  /\ stream \in Seq(Byte) /\ out \in Seq(Byte) /\ Len(stream) <= SockCap
  /\ ppc \in [Producers -> {"idle", "push", "select", "send"}]
  /\ msg \in [Producers -> Messages]
  /\ done \in [Producers -> Nat]

\* What the calls of mbox_new() have opened so far.
HeldInv ==
  held = (IF step >= 0 THEN {"box"} ELSE {}) \cup (IF step >= 1 THEN {"server"} ELSE {})
           \cup (IF step >= 5 THEN {"wfd"} ELSE {}) \cup (IF step >= 7 THEN {"rfd"} ELSE {})

\* Nothing happens to a box that is not open.
QuietInv ==
  ~Open => /\ stream = <<>> /\ out = <<>>
           /\ \A p \in Producers : ppc[p] = "idle"

\* A push sends once, and mbox_push_block goes on while bytes are left.
LeftInv ==
  \A p \in Producers : /\ ppc[p] = "push" => done[p] = 0
                       /\ ppc[p] \in {"select", "send"} => done[p] < msg_size

\* p's is the unfinished message at the end of the tape.
Unfinished(p) ==
  /\ Tape # <<>> /\ Tape[Len(Tape)] = <<msg[p], done[p]>>
  /\ \A q \in Producers : Begun(q) => q = p

OrderInv ==
  broken = FALSE =>
    /\ Chain(Tape, msg_size)
    /\ \A p \in Producers : Begun(p) => Unfinished(p)
    /\ (\A p \in Producers : ~Begun(p)) => Tape = <<>> \/ Tape[Len(Tape)][2] = msg_size

WinInv == TypeInv /\ HeldInv /\ QuietInv /\ LeftInv /\ broken \in BOOLEAN /\ OrderInv

LEMMA NewCallsLen ==
  /\ Len(NewCalls) = 9
  /\ NewCalls[1] = "server" /\ NewCalls[2] = "none" /\ NewCalls[3] = "none"
  /\ NewCalls[4] = "none" /\ NewCalls[5] = "wfd" /\ NewCalls[6] = "none"
  /\ NewCalls[7] = "rfd" /\ NewCalls[8] = "none" /\ NewCalls[9] = "none"
BY DEF NewCalls

LEMMA InitHolds == Init => WinInv
<1> SUFFICES ASSUME Init
             PROVE  WinInv
  OBVIOUS
<1>1. <<>> \in Seq(Byte) /\ Len(<<>>) = 0
  BY EmptySeq
<1>2. TypeInv
  BY <1>1, NewCallsLen, SocketAssumption DEF Init, TypeInv
<1>3. HeldInv
  BY DEF Init, HeldInv
<1>4. QuietInv /\ LeftInv /\ broken \in BOOLEAN
  BY DEF Init, QuietInv, LeftInv
<1>5. OrderInv
  <2>1. Tape = <<>> \o <<>>
    BY DEF Init, Tape
  <2>2. Tape = <<>>
    BY <1>1, <2>1, ConcatEmptySeq
  <2>3. \A p \in Producers : ~Begun(p)
    BY DEF Init, Begun
  <2>4. Chain(Tape, msg_size)
    BY <1>1, <2>2 DEF Chain
  <2> QED BY <2>2, <2>3, <2>4 DEF OrderInv
<1> QED BY <1>2, <1>3, <1>4, <1>5 DEF WinInv

-----------------------------------------------------------------------------
(* mbox_new and mbox_destroy.                                              *)

\* Nothing was written yet.
LEMMA EmptyOrder ==
  ASSUME stream' = <<>>, out' = <<>>, \A p \in Producers : ppc'[p] = "idle"
  PROVE  OrderInv'
<1>1. <<>> \in Seq(Byte) /\ Len(<<>>) = 0
  BY EmptySeq
<1>2. Tape' = <<>>
  <2>1. Tape' = <<>> \o <<>>
    BY DEF Tape
  <2> QED BY <1>1, <2>1, ConcatEmptySeq
<1>3. \A p \in Producers : ~Begun(p)'
  BY DEF Begun
<1>4. Chain(Tape, msg_size)'
  BY <1>1, <1>2 DEF Chain
<1> QED BY <1>2, <1>3, <1>4 DEF OrderInv

LEMMA NewBoxKeeps ==
  ASSUME WinInv, NEW n \in Sizes, NewBox(n)
  PROVE  WinInv'
<1>1. step = -1 /\ step' = 0 /\ n \in Nat /\ n # 0
  BY SocketAssumption DEF NewBox
<1>2. /\ held' = {"box"} /\ msg_size' = n /\ stream' = stream /\ ppc' = ppc /\ msg' = msg
      /\ done' = done /\ out' = out /\ broken' = broken
  BY DEF NewBox, callVars, readVars
<1>3. ~Open
  BY <1>1, NewCallsLen DEF Open
<1>4. stream = <<>> /\ out = <<>> /\ \A p \in Producers : ppc[p] = "idle"
  BY <1>3 DEF WinInv, QuietInv
<1>5. TypeInv'
  BY <1>1, <1>2, NewCallsLen DEF WinInv, TypeInv
<1>6. HeldInv'
  BY <1>1, <1>2 DEF HeldInv
<1>7. QuietInv' /\ LeftInv' /\ broken' \in BOOLEAN
  BY <1>2, <1>4 DEF QuietInv, LeftInv, WinInv
<1>8. OrderInv'
  BY <1>2, <1>4, EmptyOrder
<1> QED BY <1>5, <1>6, <1>7, <1>8 DEF WinInv

\* The error label closes what is open.
LEMMA ReleaseHeld ==
  ASSUME TypeInv, HeldInv, Release
  PROVE  HeldInv' /\ step' = -1
<1>1. step' = -1 /\ held' = held \ {"server", "rfd", "wfd", "box"}
  BY DEF Release
<1>2. held \subseteq {"server", "rfd", "wfd", "box"}
  BY DEF HeldInv
<1>3. held' = {}
  BY <1>1, <1>2
<1> QED BY <1>1, <1>3 DEF HeldInv

LEMMA NewStepHeld ==
  ASSUME TypeInv, HeldInv, step \in 0 .. Len(NewCalls) - 1, step' = step + 1,
         held' = held \cup ({NewCalls[step + 1]} \ {"none"})
  PROVE  HeldInv'
<1>1. \/ step = 0 \/ step = 1 \/ step = 2 \/ step = 3 \/ step = 4
      \/ step = 5 \/ step = 6 \/ step = 7 \/ step = 8
  BY NewCallsLen
<1>2. CASE step = 0
  <2>1. held = {"box"} /\ step' = 1 /\ held' = held \cup {"server"}
    BY <1>2, NewCallsLen DEF HeldInv
  <2> QED BY <2>1 DEF HeldInv
<1>3. CASE step \in {1, 2, 3}
  <2>1. held = {"box", "server"} /\ step' \in {2, 3, 4} /\ held' = held
    BY <1>3, NewCallsLen DEF HeldInv
  <2> QED BY <2>1 DEF HeldInv
<1>4. CASE step = 4
  <2>1. held = {"box", "server"} /\ step' = 5 /\ held' = held \cup {"wfd"}
    BY <1>4, NewCallsLen DEF HeldInv
  <2> QED BY <2>1 DEF HeldInv
<1>5. CASE step = 5
  <2>1. held = {"box", "server", "wfd"} /\ step' = 6 /\ held' = held
    BY <1>5, NewCallsLen DEF HeldInv
  <2> QED BY <2>1 DEF HeldInv
<1>6. CASE step = 6
  <2>1. held = {"box", "server", "wfd"} /\ step' = 7 /\ held' = held \cup {"rfd"}
    BY <1>6, NewCallsLen DEF HeldInv
  <2> QED BY <2>1 DEF HeldInv
<1>7. CASE step \in {7, 8}
  <2>1. held = {"box", "server", "wfd", "rfd"} /\ step' \in {8, 9} /\ held' = held
    BY <1>7, NewCallsLen DEF HeldInv
  <2>2. step' >= 0 /\ step' >= 1 /\ step' >= 5 /\ step' >= 7
    BY <2>1
  <2>3. held' = {"box"} \cup {"server"} \cup {"wfd"} \cup {"rfd"}
    BY <2>1
  <2> QED BY <2>2, <2>3 DEF HeldInv
<1> QED BY <1>1, <1>2, <1>3, <1>4, <1>5, <1>6, <1>7

LEMMA NewStepKeeps ==
  ASSUME WinInv, NEW ok \in BOOLEAN, NewStep(ok)
  PROVE  WinInv'
<1>1. /\ step \in 0 .. Len(NewCalls) - 1
      /\ msg_size' = msg_size /\ stream' = stream /\ ppc' = ppc /\ msg' = msg
      /\ done' = done /\ out' = out /\ broken' = broken
  BY DEF NewStep, callVars, readVars
<1>2. ~Open /\ step # -1
  BY <1>1, NewCallsLen DEF Open
<1>3. stream = <<>> /\ out = <<>> /\ \A p \in Producers : ppc[p] = "idle"
  BY <1>2 DEF WinInv, QuietInv
<1>4. TypeInv /\ HeldInv
  BY DEF WinInv
<1>5. HeldInv' /\ step' \in -1 .. Len(NewCalls)
  <2>1. CASE ok
    <3>1. step' = step + 1 /\ held' = held \cup ({NewCalls[step + 1]} \ {"none"})
      BY <2>1 DEF NewStep
    <3> QED BY <1>1, <1>4, <3>1, NewStepHeld, NewCallsLen
  <2>2. CASE ~ok
    <3>1. Release
      BY <2>2 DEF NewStep
    <3> QED BY <1>4, <3>1, ReleaseHeld, NewCallsLen
  <2> QED BY <2>1, <2>2
<1>6. TypeInv'
  BY <1>1, <1>2, <1>4, <1>5 DEF TypeInv
<1>7. QuietInv' /\ LeftInv' /\ broken' \in BOOLEAN
  BY <1>1, <1>3 DEF QuietInv, LeftInv, WinInv
<1>8. OrderInv'
  BY <1>1, <1>3, EmptyOrder
<1> QED BY <1>5, <1>6, <1>7, <1>8 DEF WinInv

LEMMA DestroyKeeps ==
  ASSUME WinInv, mbox_destroy
  PROVE  WinInv'
<1>1. /\ \A p \in Producers : ppc[p] = "idle"
      /\ Release /\ stream' = <<>> /\ out' = <<>> /\ done' = [p \in Producers |-> 0]
      /\ broken' = FALSE /\ msg_size' = msg_size /\ ppc' = ppc /\ msg' = msg
  BY DEF mbox_destroy
<1>2. HeldInv' /\ step' = -1
  BY <1>1, ReleaseHeld DEF WinInv
<1>3. <<>> \in Seq(Byte) /\ Len(<<>>) = 0
  BY EmptySeq
<1>4. TypeInv'
  BY <1>1, <1>2, <1>3, NewCallsLen, SocketAssumption DEF WinInv, TypeInv
<1>5. QuietInv' /\ LeftInv' /\ broken' \in BOOLEAN
  BY <1>1 DEF QuietInv, LeftInv
<1>6. OrderInv'
  BY <1>1, EmptyOrder
<1> QED BY <1>2, <1>4, <1>5, <1>6 DEF WinInv

-----------------------------------------------------------------------------
(* Steps of a producer that send nothing.                                  *)

\* The tape and the messages begun are what they were.
LEMMA OrderKept ==
  ASSUME OrderInv, UNCHANGED <<stream, out, msg_size>>,
         broken' = FALSE =>
           /\ broken = FALSE
           /\ \A q \in Producers : Begun(q)' <=> Begun(q)
           /\ \A q \in Producers : Begun(q) => msg'[q] = msg[q] /\ done'[q] = done[q]
  PROVE  OrderInv'
<1> SUFFICES ASSUME broken' = FALSE
             PROVE  /\ Chain(Tape, msg_size)'
                    /\ \A p \in Producers : Begun(p)' => Unfinished(p)'
                    /\ (\A p \in Producers : ~Begun(p)') =>
                         Tape' = <<>> \/ Tape'[Len(Tape')][2] = msg_size'
  BY DEF OrderInv
<1>1. /\ Chain(Tape, msg_size)
      /\ \A p \in Producers : Begun(p) => Unfinished(p)
      /\ (\A p \in Producers : ~Begun(p)) => Tape = <<>> \/ Tape[Len(Tape)][2] = msg_size
  BY DEF OrderInv
<1>2. Tape' = Tape /\ msg_size' = msg_size
  BY DEF Tape
<1>3. Chain(Tape, msg_size)'
  BY <1>1, <1>2 DEF Chain
<1>4. ASSUME NEW p \in Producers, Begun(p)'
      PROVE  Unfinished(p)'
  <2>1. Begun(p) /\ Unfinished(p) /\ msg'[p] = msg[p] /\ done'[p] = done[p]
    BY <1>1, <1>4
  <2>2. \A q \in Producers : Begun(q)' => q = p
    BY <2>1 DEF Unfinished
  <2>3. Tape' # <<>> /\ Tape'[Len(Tape')] = <<msg'[p], done'[p]>>
    BY <1>2, <2>1 DEF Unfinished
  <2> QED BY <2>2, <2>3 DEF Unfinished
<1> QED BY <1>1, <1>2, <1>3, <1>4

\* The invariant but for the order, when a producer's call goes on to pc or
\* returns without a byte sent.
LEMMA GoesOn ==
  ASSUME WinInv, NEW p \in Producers, NEW pc \in {"idle", "select", "send"},
         ppc[p] # "idle", ppc' = [ppc EXCEPT ![p] = pc],
         pc # "idle" => ppc[p] \in {"select", "send"},
         UNCHANGED <<boxVars, stream, msg, done, out>>, broken' \in BOOLEAN
  PROVE  TypeInv' /\ HeldInv' /\ QuietInv' /\ LeftInv' /\ broken' \in BOOLEAN
<1>1. /\ step' = step /\ held' = held /\ msg_size' = msg_size /\ stream' = stream
      /\ msg' = msg /\ done' = done /\ out' = out
  BY DEF boxVars
<1>2. TypeInv'
  BY <1>1 DEF WinInv, TypeInv
<1>3. HeldInv'
  BY <1>1 DEF WinInv, HeldInv
<1>4. Open' <=> Open
  BY <1>1 DEF Open
<1>5. QuietInv'
  <2>1. Open
    BY DEF WinInv, QuietInv
  <2> QED BY <1>4, <2>1 DEF QuietInv
<1>6. LeftInv'
  <2> SUFFICES ASSUME NEW q \in Producers
               PROVE  /\ ppc'[q] = "push" => done'[q] = 0
                      /\ ppc'[q] \in {"select", "send"} => done'[q] < msg_size'
    BY DEF LeftInv
  <2>1. /\ ppc[q] = "push" => done[q] = 0
        /\ ppc[q] \in {"select", "send"} => done[q] < msg_size
        /\ ppc \in [Producers -> {"idle", "push", "select", "send"}]
    BY DEF WinInv, LeftInv, TypeInv
  <2>2. CASE q = p
    BY <1>1, <2>1, <2>2
  <2>3. CASE q # p
    BY <1>1, <2>1, <2>3
  <2> QED BY <2>2, <2>3
<1> QED BY <1>2, <1>3, <1>5, <1>6

LEMMA CallKeeps ==
  ASSUME WinInv, NEW p \in Producers, NEW m \in Messages, NEW t, NEW pc \in {"push", "select"},
         Call(p, m, t, pc)
  PROVE  WinInv'
<1>1. /\ Open /\ ppc[p] = "idle" /\ msg' = [msg EXCEPT ![p] = m]
      /\ done' = [done EXCEPT ![p] = 0] /\ ppc' = [ppc EXCEPT ![p] = pc]
      /\ step' = step /\ held' = held /\ msg_size' = msg_size /\ stream' = stream
      /\ out' = out /\ broken' = broken
  BY DEF Call, boxVars, readVars
<1>2. /\ ppc \in [Producers -> {"idle", "push", "select", "send"}]
      /\ msg \in [Producers -> Messages] /\ done \in [Producers -> Nat] /\ msg_size \in Nat
      /\ msg_size # 0
  <2>1. step # -1
    BY <1>1, NewCallsLen DEF Open
  <2> QED BY <2>1 DEF WinInv, TypeInv
<1>3. TypeInv'
  <2>1. /\ ppc' \in [Producers -> {"idle", "push", "select", "send"}]
        /\ msg' \in [Producers -> Messages] /\ done' \in [Producers -> Nat]
    BY <1>1, <1>2
  <2> QED BY <1>1, <2>1 DEF WinInv, TypeInv
<1>4. HeldInv' /\ broken' \in BOOLEAN
  BY <1>1 DEF WinInv, HeldInv
<1>5. QuietInv'
  BY <1>1 DEF QuietInv, Open
<1>6. LeftInv'
  <2> SUFFICES ASSUME NEW q \in Producers
               PROVE  /\ ppc'[q] = "push" => done'[q] = 0
                      /\ ppc'[q] \in {"select", "send"} => done'[q] < msg_size'
    BY DEF LeftInv
  <2>1. CASE q = p
    BY <1>1, <1>2, <2>1
  <2>2. CASE q # p
    BY <1>1, <1>2, <2>2 DEF WinInv, LeftInv
  <2> QED BY <2>1, <2>2
<1>7. OrderInv'
  <2>1. ASSUME NEW q \in Producers
        PROVE  /\ Begun(q)' <=> Begun(q)
               /\ Begun(q) => msg'[q] = msg[q] /\ done'[q] = done[q]
    <3>1. CASE q = p
      <4>1. ~Begun(q) /\ done'[q] = 0
        BY <1>1, <1>2, <3>1 DEF Begun
      <4> QED BY <4>1 DEF Begun
    <3>2. CASE q # p
      <4>1. ppc'[q] = ppc[q] /\ done'[q] = done[q] /\ msg'[q] = msg[q]
        BY <1>1, <1>2, <3>2
      <4> QED BY <4>1 DEF Begun
    <3> QED BY <3>1, <3>2
  <2> QED BY <1>1, <2>1, OrderKept DEF WinInv
<1> QED BY <1>3, <1>4, <1>5, <1>6, <1>7 DEF WinInv

\* A call returns without a byte sent: if it was in the middle of its message
\* the stream is broken.
LEMMA ReturnKeeps ==
  ASSUME WinInv, NEW p \in Producers, NEW r, ppc[p] # "idle", Return(p, r),
         UNCHANGED <<boxVars, stream, msg, done, out>>,
         broken' \in BOOLEAN, broken' = FALSE => broken = FALSE /\ ~Begun(p)
  PROVE  WinInv'
<1>1. ppc' = [ppc EXCEPT ![p] = "idle"]
  BY DEF Return
<1>2. TypeInv' /\ HeldInv' /\ QuietInv' /\ LeftInv' /\ broken' \in BOOLEAN
  BY <1>1, GoesOn
<1>3. ppc \in [Producers -> {"idle", "push", "select", "send"}]
  BY DEF WinInv, TypeInv
<1>4. ASSUME broken' = FALSE, NEW q \in Producers
      PROVE  Begun(q)' <=> Begun(q)
  <2>1. CASE q = p
    <3>1. ppc'[q] = "idle"
      BY <1>1, <1>3, <2>1
    <3> QED BY <1>4, <2>1, <3>1 DEF Begun
  <2>2. CASE q # p
    <3>1. ppc'[q] = ppc[q]
      BY <1>1, <1>3, <2>2
    <3> QED BY <3>1 DEF Begun
  <2> QED BY <2>1, <2>2
<1>5. OrderInv'
  <2>1. UNCHANGED <<stream, out, msg_size>> /\ msg' = msg /\ done' = done
    BY DEF boxVars
  <2> QED BY <1>4, <2>1, OrderKept DEF WinInv
<1> QED BY <1>2, <1>5 DEF WinInv

LEMMA SelectReadyKeeps ==
  ASSUME WinInv, NEW p \in Producers, SelectReady(p)
  PROVE  WinInv'
<1>1. /\ ppc[p] = "select" /\ ppc' = [ppc EXCEPT ![p] = "send"]
      /\ UNCHANGED <<boxVars, stream, msg, done, out>> /\ broken' = broken
  BY DEF SelectReady, callVars, readVars
<1>2. ppc \in [Producers -> {"idle", "push", "select", "send"}] /\ broken \in BOOLEAN
  BY DEF WinInv, TypeInv
<1>3. TypeInv' /\ HeldInv' /\ QuietInv' /\ LeftInv' /\ broken' \in BOOLEAN
  BY <1>1, <1>2, GoesOn
<1>4. ASSUME NEW q \in Producers
      PROVE  Begun(q)' <=> Begun(q)
  <2>1. ppc'[q] # "idle" <=> ppc[q] # "idle"
    BY <1>1, <1>2
  <2> QED BY <1>1, <2>1 DEF Begun
<1>5. OrderInv'
  <2>1. UNCHANGED <<stream, out, msg_size>> /\ msg' = msg /\ done' = done
    BY <1>1 DEF boxVars
  <2> QED BY <1>1, <1>4, <2>1, OrderKept DEF WinInv
<1> QED BY <1>3, <1>5 DEF WinInv

-----------------------------------------------------------------------------
(* Steps that send and receive.                                            *)

\* If nothing is broken, what p sends continues the tape.
LEMMA SentOnTape ==
  ASSUME WinInv, NEW p \in Producers, NEW n \in Nat \ {0}, Sent(p, n), ppc[p] # "idle",
         UNCHANGED <<msg_size, out>>, broken = FALSE, ~Intrudes(p)
  PROVE  /\ Chain(Tape, msg_size)'
         /\ Tape' # <<>> /\ Tape'[Len(Tape')] = <<msg[p], done[p] + n>>
         /\ \A q \in Producers : Begun(q) => q = p
<1> DEFINE s == Bytes(msg[p], done[p], n)
<1>1. /\ stream \in Seq(Byte) /\ out \in Seq(Byte) /\ msg[p] \in Messages /\ done[p] \in Nat
  BY DEF WinInv, TypeInv
<1>2. /\ Chain(Tape, msg_size)
      /\ \A q \in Producers : Begun(q) => Unfinished(q)
      /\ (\A q \in Producers : ~Begun(q)) => Tape = <<>> \/ Tape[Len(Tape)][2] = msg_size
  BY DEF WinInv, OrderInv
<1>3. \A q \in Producers : Begun(q) => q = p
  BY DEF Intrudes
<1>4. /\ s \in Seq(Byte) /\ Len(s) = n /\ s # <<>> /\ s[1] = <<msg[p], done[p] + 1>>
      /\ s[n] = <<msg[p], done[p] + n>> /\ Chain(s, msg_size)
  BY <1>1, BytesChain
<1>5. stream' = stream \o s /\ out' = out /\ msg_size' = msg_size
  BY DEF Sent, Bytes
<1> HIDE DEF s
<1>6. Tape \in Seq(Byte)
  BY <1>1, ConcatProperties DEF Tape
<1>7. Tape' = Tape \o s
  <2>1. (out \o stream) \o s = out \o (stream \o s)
    <3>1. out \in Seq(Byte) /\ stream \in Seq(Byte) /\ s \in Seq(Byte)
      BY <1>1, <1>4
    <3> QED BY <3>1, ByteConcat
  <2> QED BY <1>5, <2>1 DEF Tape
<1>8. ASSUME Tape # <<>>
      PROVE  After(Tape[Len(Tape)], s[1], msg_size)
  <2>1. CASE Begun(p)
    <3>1. Tape[Len(Tape)] = <<msg[p], done[p]>>
      BY <1>2, <2>1 DEF Unfinished
    <3> QED BY <1>4, <3>1 DEF After
  <2>2. CASE ~Begun(p)
    <3>1. Tape[Len(Tape)][2] = msg_size
      BY <1>2, <1>3, <1>8, <2>2
    <3>2. done[p] = 0
      BY <1>1, <2>2 DEF Begun
    <3>3. s[1][2] = 1
      BY <1>4, <3>2
    <3> QED BY <3>1, <3>3 DEF After
  <2> QED BY <2>1, <2>2
<1>9. /\ Tape \o s # <<>> /\ Chain(Tape \o s, msg_size)
      /\ (Tape \o s)[Len(Tape \o s)] = s[Len(s)]
  BY <1>2, <1>4, <1>6, <1>8, ChainGrows
<1>10. Chain(Tape, msg_size)'
  BY <1>5, <1>7, <1>9 DEF Chain
<1> QED BY <1>3, <1>4, <1>7, <1>9, <1>10

\* A send: the call returns, or goes on if bytes are left.
LEMMA SendKeeps ==
  ASSUME WinInv, NEW p \in Producers, NEW n \in Nat \ {0}, Sent(p, n), n <= Room,
         ppc[p] # "idle", NEW pc \in {"idle", "select"}, ppc' = [ppc EXCEPT ![p] = pc],
         pc = "select" => done[p] + n < msg_size,
         UNCHANGED <<boxVars, msg, out>>, broken' \in BOOLEAN,
         broken' = FALSE => /\ broken = FALSE /\ ~Intrudes(p)
                            /\ (pc = "idle" => done[p] + n = msg_size)
  PROVE  WinInv'
<1>1. /\ step' = step /\ held' = held /\ msg_size' = msg_size /\ msg' = msg /\ out' = out
      /\ stream' = stream \o Bytes(msg[p], done[p], n)
      /\ done' = [done EXCEPT ![p] = done[p] + n]
  BY DEF boxVars, Sent, Bytes
<1>2. /\ stream \in Seq(Byte) /\ out \in Seq(Byte) /\ Len(stream) <= SockCap /\ SockCap \in Nat
      /\ ppc \in [Producers -> {"idle", "push", "select", "send"}]
      /\ msg \in [Producers -> Messages] /\ done \in [Producers -> Nat] /\ msg_size \in Nat
  BY SocketAssumption DEF WinInv, TypeInv
<1>3. TypeInv'
  <2>1. /\ Bytes(msg[p], done[p], n) \in Seq(Byte) /\ Len(Bytes(msg[p], done[p], n)) = n
        /\ Chain(Bytes(msg[p], done[p], n), msg_size)
    BY <1>2, BytesChain
  <2>2. stream' \in Seq(Byte) /\ Len(stream') = Len(stream) + n
    BY <1>1, <1>2, <2>1, ConcatProperties
  <2>3. Len(stream') <= SockCap
    <3>1. Len(stream) \in Nat
      BY <1>2, LenProperties
    <3> QED BY <1>2, <2>2, <3>1 DEF Room
  <2>4. done' \in [Producers -> Nat] /\ ppc' \in [Producers -> {"idle", "push", "select", "send"}]
    BY <1>1, <1>2
  <2>5. step \in -1 .. Len(NewCalls) /\ (step # -1 => msg_size # 0)
    BY DEF WinInv, TypeInv
  <2> QED BY <1>1, <1>2, <2>2, <2>3, <2>4, <2>5 DEF TypeInv
<1>4. HeldInv'
  BY <1>1 DEF WinInv, HeldInv
<1>5. QuietInv'
  <2>1. Open /\ (Open' <=> Open)
    BY <1>1 DEF WinInv, QuietInv, Open
  <2> QED BY <2>1 DEF QuietInv
<1>6. LeftInv'
  <2> SUFFICES ASSUME NEW q \in Producers
               PROVE  /\ ppc'[q] = "push" => done'[q] = 0
                      /\ ppc'[q] \in {"select", "send"} => done'[q] < msg_size'
    BY DEF LeftInv
  <2>1. CASE q = p
    <3>1. ppc'[q] = pc /\ done'[q] = done[p] + n
      BY <1>1, <1>2, <2>1
    <3> QED BY <1>1, <3>1
  <2>2. CASE q # p
    <3>1. ppc'[q] = ppc[q] /\ done'[q] = done[q]
      BY <1>1, <1>2, <2>2
    <3> QED BY <1>1, <3>1 DEF WinInv, LeftInv
  <2> QED BY <2>1, <2>2
<1>7. ASSUME broken' = FALSE
      PROVE  /\ Chain(Tape, msg_size)'
             /\ \A q \in Producers : Begun(q)' => Unfinished(q)'
             /\ (\A q \in Producers : ~Begun(q)') =>
                  Tape' = <<>> \/ Tape'[Len(Tape')][2] = msg_size'
  <2>1. broken = FALSE /\ ~Intrudes(p) /\ (pc = "idle" => done[p] + n = msg_size)
    BY <1>7
  <2>2. /\ Chain(Tape, msg_size)'
        /\ Tape' # <<>> /\ Tape'[Len(Tape')] = <<msg[p], done[p] + n>>
        /\ \A q \in Producers : Begun(q) => q = p
    BY <1>1, <2>1, SentOnTape
  <2>3. ppc'[p] = pc /\ done'[p] = done[p] + n /\ msg'[p] = msg[p]
    BY <1>1, <1>2
  <2>4. ASSUME NEW q \in Producers, Begun(q)'
        PROVE  q = p
    <3>1. CASE q # p
      <4>1. ppc'[q] = ppc[q] /\ done'[q] = done[q]
        BY <1>1, <1>2, <3>1
      <4>2. Begun(q)
        BY <2>4, <4>1 DEF Begun
      <4> QED BY <2>2, <4>2
    <3> QED BY <3>1
  <2>5. Unfinished(p)'
    BY <2>2, <2>3, <2>4 DEF Unfinished
  <2>6. \A q \in Producers : Begun(q)' => Unfinished(q)'
    BY <2>4, <2>5
  <2>7. ASSUME ~Begun(p)'
        PROVE  Tape'[Len(Tape')][2] = msg_size'
    <3>1. done'[p] > 0
      BY <1>2, <2>3
    <3>2. pc = "idle"
      BY <2>3, <2>7, <3>1 DEF Begun
    <3>3. done[p] + n = msg_size
      BY <2>1, <3>2
    <3> QED BY <1>1, <2>2, <3>3
  <2> QED BY <2>2, <2>6, <2>7
<1>8. OrderInv'
  BY <1>7 DEF OrderInv
<1> QED BY <1>3, <1>4, <1>5, <1>6, <1>8 DEF WinInv

\* What send() takes.
LEMMA SendSizeBounds ==
  ASSUME TypeInv, NEW n \in Nat \ {0}, Room > 0
  PROVE  SendSize(n) \in Nat \ {0} /\ SendSize(n) <= Room /\ SendSize(n) <= n
         /\ (~(Room < n) => SendSize(n) = n)
<1>1. Room \in Int
  <2>1. Len(stream) \in Nat /\ SockCap \in Nat
    BY LenProperties, SocketAssumption DEF TypeInv
  <2> QED BY <2>1 DEF Room
<1> QED BY <1>1 DEF SendSize

LEMMA PushSendKeeps ==
  ASSUME WinInv, NEW p \in Producers, PushSend(p)
  PROVE  WinInv'
<1> DEFINE n == SendSize(msg_size)
<1>1. /\ ppc[p] = "push" /\ Room > 0 /\ Sent(p, n)
      /\ broken' = (broken \/ Intrudes(p) \/ Room < msg_size)
      /\ ppc' = [ppc EXCEPT ![p] = "idle"]
      /\ UNCHANGED <<boxVars, msg, out>>
  BY DEF PushSend, Return, readVars
<1>2. done[p] = 0 /\ msg_size \in Nat \ {0}
  <2>1. Open
    BY <1>1 DEF WinInv, QuietInv
  <2>2. step # -1
    BY <2>1, NewCallsLen DEF Open
  <2> QED BY <1>1, <2>2 DEF WinInv, LeftInv, TypeInv
<1>3. n \in Nat \ {0} /\ n <= Room /\ (~(Room < msg_size) => n = msg_size)
  BY <1>1, <1>2, SendSizeBounds DEF WinInv
<1> HIDE DEF n
<1>4. /\ broken' \in BOOLEAN
      /\ broken' = FALSE => ~broken /\ ~Intrudes(p) /\ ~(Room < msg_size)
  BY <1>1, Zenon
<1>5. broken' = FALSE => broken = FALSE /\ ~Intrudes(p) /\ done[p] + n = msg_size
  <2>1. broken \in BOOLEAN
    BY DEF WinInv
  <2>2. 0 + msg_size = msg_size
    BY <1>2
  <2> QED BY <1>2, <1>3, <1>4, <2>1, <2>2
<1> QED BY <1>1, <1>3, <1>4, <1>5, SendKeeps

LEMMA BlockSendKeeps ==
  ASSUME WinInv, NEW p \in Producers, BlockSend(p)
  PROVE  WinInv'
<1> DEFINE n == SendSize(msg_size - done[p])
           pc == IF done[p] + n < msg_size THEN "select" ELSE "idle"
<1>1. /\ ppc[p] = "send" /\ Room > 0 /\ Sent(p, n)
      /\ broken' = (broken \/ Intrudes(p))
      /\ UNCHANGED <<boxVars, msg, out>>
  BY DEF BlockSend, readVars
<1>2. done \in [Producers -> Nat] /\ done[p] \in Nat /\ done[p] < msg_size /\ msg_size \in Nat
  BY <1>1 DEF WinInv, LeftInv, TypeInv
<1>3. msg_size - done[p] \in Nat \ {0}
  BY <1>2
<1>4. n \in Nat \ {0} /\ n <= Room /\ n <= msg_size - done[p]
  BY <1>1, <1>3, SendSizeBounds DEF WinInv
<1> HIDE DEF n
<1>5. done'[p] = done[p] + n
  BY <1>1, <1>2 DEF Sent
<1>6. ppc' = [ppc EXCEPT ![p] = pc]
  <2>1. IF done'[p] < msg_size THEN ppc' = [ppc EXCEPT ![p] = "select"]
                               ELSE ppc' = [ppc EXCEPT ![p] = "idle"]
    BY DEF BlockSend, Return
  <2> QED BY <1>5, <2>1
<1>7. /\ pc \in {"idle", "select"}
      /\ pc = "select" => done[p] + n < msg_size
      /\ pc = "idle" => done[p] + n = msg_size
  BY <1>2, <1>4
<1> HIDE DEF pc
<1>8. broken' \in BOOLEAN /\ (broken' = FALSE => ~broken /\ ~Intrudes(p))
  BY <1>1, Zenon
<1>9. broken' = FALSE => /\ broken = FALSE /\ ~Intrudes(p)
                         /\ (pc = "idle" => done[p] + n = msg_size)
  <2>1. broken \in BOOLEAN
    BY DEF WinInv
  <2> QED BY <1>7, <1>8, <2>1
<1>10. ppc[p] # "idle"
  BY <1>1
<1> QED BY <1>1, <1>4, <1>6, <1>7, <1>8, <1>9, <1>10, SendKeeps

\* A read takes the front of the stream: the tape begins with it.
LEMMA PeekKeeps ==
  ASSUME WinInv, Peek
  PROVE  WinInv'
<1> DEFINE n == IF Len(stream) < msg_size THEN Len(stream) ELSE msg_size
<1>1. /\ Open /\ stream # <<>> /\ out' = SubSeq(stream, 1, n)
      /\ stream' = SubSeq(stream, n + 1, Len(stream))
      /\ step' = step /\ held' = held /\ msg_size' = msg_size /\ ppc' = ppc /\ msg' = msg
      /\ done' = done /\ broken' = broken
  BY DEF Peek, boxVars, callVars
<1>2. /\ stream \in Seq(Byte) /\ out \in Seq(Byte) /\ msg_size \in Nat /\ Len(stream) \in Nat
      /\ Len(stream) <= SockCap /\ SockCap \in Nat
  BY LenProperties, SocketAssumption DEF WinInv, TypeInv
<1>3. n \in 0 .. Len(stream)
  BY <1>2
<1> HIDE DEF n
<1>4. \A i \in 1 .. Len(stream) : stream[i] \in Byte
  BY <1>2, ElementOfSeq
<1>5. out' \in Seq(Byte)
  <2>1. 1 \in Int /\ n \in Int /\ \A i \in 1 .. n : stream[i] \in Byte
    BY <1>2, <1>3, <1>4
  <2> QED BY <1>1, <2>1, SubSeqProperties
<1>6. stream' \in Seq(Byte) /\ Len(stream') <= SockCap
  <2>1. /\ n + 1 \in Int /\ Len(stream) \in Int
        /\ \A i \in n + 1 .. Len(stream) : stream[i] \in Byte
    BY <1>2, <1>3, <1>4
  <2>2. /\ stream' \in Seq(Byte)
        /\ Len(stream') = IF n + 1 <= Len(stream) THEN Len(stream) - (n + 1) + 1 ELSE 0
    BY <1>1, <2>1, SubSeqProperties
  <2> QED BY <1>2, <1>3, <2>2
<1>7. Tape' = stream
  <2>1. /\ 1 \in 1 .. Len(stream) + 1 /\ n \in 1 - 1 .. Len(stream)
        /\ Len(stream) \in n .. Len(stream)
    BY <1>2, <1>3
  <2>2. SubSeq(stream, 1, n) \o SubSeq(stream, n + 1, Len(stream)) = SubSeq(stream, 1, Len(stream))
    BY <1>2, <2>1, ConcatAdjacentSubSeq
  <2>3. SubSeq(stream, 1, Len(stream)) = stream
    BY <1>2, SubSeqFull
  <2> QED BY <1>1, <2>2, <2>3 DEF Tape
<1>8. TypeInv'
  BY <1>1, <1>5, <1>6 DEF WinInv, TypeInv
<1>9. HeldInv' /\ broken' \in BOOLEAN
  BY <1>1 DEF WinInv, HeldInv
<1>10. QuietInv' /\ LeftInv'
  BY <1>1 DEF WinInv, QuietInv, LeftInv, Open
<1>11. ASSUME broken' = FALSE
       PROVE  /\ Chain(Tape, msg_size)'
              /\ \A q \in Producers : Begun(q)' => Unfinished(q)'
              /\ (\A q \in Producers : ~Begun(q)') =>
                   Tape' = <<>> \/ Tape'[Len(Tape')][2] = msg_size'
  <2>1. /\ Chain(Tape, msg_size)
        /\ \A q \in Producers : Begun(q) => Unfinished(q)
        /\ (\A q \in Producers : ~Begun(q)) => Tape = <<>> \/ Tape[Len(Tape)][2] = msg_size
    BY <1>1, <1>11 DEF WinInv, OrderInv
  <2>2. Chain(stream, msg_size) /\ Tape[Len(Tape)] = stream[Len(stream)] /\ Tape # <<>>
    BY <1>1, <1>2, <2>1, ChainEnd DEF Tape
  <2>3. Chain(Tape, msg_size)'
    BY <1>1, <1>7, <2>2 DEF Chain
  <2>4. \A q \in Producers : Begun(q)' <=> Begun(q)
    BY <1>1 DEF Begun
  <2>5. ASSUME NEW q \in Producers, Begun(q)'
        PROVE  Unfinished(q)'
    <3>1. Unfinished(q)
      BY <2>1, <2>4, <2>5
    <3>2. Tape' # <<>> /\ Tape'[Len(Tape')] = <<msg'[q], done'[q]>>
      BY <1>1, <1>7, <2>2, <3>1 DEF Unfinished
    <3>3. \A r \in Producers : Begun(r)' => r = q
      BY <2>4, <3>1 DEF Unfinished
    <3> QED BY <3>2, <3>3 DEF Unfinished
  <2>6. ASSUME \A q \in Producers : ~Begun(q)'
        PROVE  Tape'[Len(Tape')][2] = msg_size'
    <3>1. Tape[Len(Tape)][2] = msg_size
      BY <2>1, <2>2, <2>4, <2>6
    <3> QED BY <1>1, <1>7, <2>2, <3>1
  <2> QED BY <2>3, <2>5, <2>6
<1>12. OrderInv'
  BY <1>11 DEF OrderInv
<1> QED BY <1>8, <1>9, <1>10, <1>12 DEF WinInv

-----------------------------------------------------------------------------
(* The theorems.                                                           *)

LEMMA ProducerKeeps ==
  ASSUME WinInv, NEW p \in Producers, Producer(p)
  PROVE  WinInv'
<1>0. broken \in BOOLEAN
  BY DEF WinInv
<1>1. ASSUME NEW m \in Messages, PushCall(p, m)
      PROVE  WinInv'
  BY <1>1, CallKeeps DEF PushCall
<1>2. ASSUME NEW m \in Messages, NEW t \in BOOLEAN, PushBlockCall(p, m, t)
      PROVE  WinInv'
  BY <1>2, CallKeeps DEF PushBlockCall
<1>3. ASSUME PushWouldBlock(p)
      PROVE  WinInv'
  <2>1. /\ ppc[p] = "push" /\ Return(p, "EAGAIN")
        /\ UNCHANGED <<boxVars, stream, msg, done, out>> /\ broken' = broken
    BY <1>3 DEF PushWouldBlock, readVars
  <2>2. ~Begun(p)
    BY <2>1 DEF WinInv, LeftInv, Begun
  <2> QED BY <1>0, <2>1, <2>2, ReturnKeeps
<1>4. ASSUME SelectTimeout(p)
      PROVE  WinInv'
  <2>1. /\ ppc[p] = "select" /\ done[p] = 0 /\ Return(p, "ETIMEDOUT")
        /\ UNCHANGED <<boxVars, stream, msg, done, out>> /\ broken' = broken
    BY <1>4 DEF SelectTimeout, readVars
  <2>2. ~Begun(p)
    BY <2>1 DEF Begun
  <2> QED BY <1>0, <2>1, <2>2, ReturnKeeps
<1>5. ASSUME broken' = (broken \/ Begun(p))
      PROVE  broken' \in BOOLEAN /\ (broken' = FALSE => broken = FALSE /\ ~Begun(p))
  <2>1. broken' \in BOOLEAN /\ (broken' = FALSE => ~broken /\ ~Begun(p))
    BY <1>5, Zenon
  <2> QED BY <1>0, <2>1
<1>6. ASSUME BlockSendWouldBlock(p)
      PROVE  WinInv'
  <2>1. /\ ppc[p] = "send" /\ Return(p, "error")
        /\ UNCHANGED <<boxVars, stream, msg, done, out>> /\ broken' = (broken \/ Begun(p))
    BY <1>6 DEF BlockSendWouldBlock, readVars
  <2>2. broken' \in BOOLEAN /\ (broken' = FALSE => broken = FALSE /\ ~Begun(p))
    BY <1>5, <2>1
  <2>3. ppc[p] # "idle"
    BY <2>1
  <2> QED BY <2>1, <2>2, <2>3, ReturnKeeps
<1>7. ASSUME PushError(p)
      PROVE  WinInv'
  <2>1. /\ ppc[p] \in {"push", "select", "send"} /\ Return(p, "error")
        /\ UNCHANGED <<boxVars, stream, msg, done, out>> /\ broken' = (broken \/ Begun(p))
    BY <1>7 DEF PushError, readVars
  <2>2. broken' \in BOOLEAN /\ (broken' = FALSE => broken = FALSE /\ ~Begun(p))
    BY <1>5, <2>1
  <2>3. ppc[p] # "idle"
    BY <2>1
  <2> QED BY <2>1, <2>2, <2>3, ReturnKeeps
<1> QED BY <1>1, <1>2, <1>3, <1>4, <1>6, <1>7, PushSendKeeps, SelectReadyKeeps, BlockSendKeeps
        DEF Producer

LEMMA Stutters ==
  ASSUME WinInv, UNCHANGED <<boxVars, stream, ppc, callVars, out, broken>>
  PROVE  WinInv'
<1>1. /\ step' = step /\ held' = held /\ msg_size' = msg_size /\ stream' = stream
      /\ ppc' = ppc /\ msg' = msg /\ done' = done /\ out' = out /\ broken' = broken
  BY DEF boxVars, callVars
<1>2. TypeInv' /\ HeldInv' /\ QuietInv' /\ LeftInv' /\ broken' \in BOOLEAN
  BY <1>1 DEF WinInv, TypeInv, HeldInv, QuietInv, LeftInv, Open
<1>3. \A q \in Producers : Begun(q)' <=> Begun(q)
  BY <1>1 DEF Begun
<1>4. OrderInv'
  BY <1>1, <1>3, OrderKept DEF WinInv
<1> QED BY <1>2, <1>4 DEF WinInv

\* The sockets that are open, and whose message is at the end of the stream,
\* after any interleaving of calls (mbox.c, Windows).
THEOREM Invariance == Spec => []WinInv
<1>1. ASSUME WinInv, [Next]_vars
      PROVE  WinInv'
  <2>1. ASSUME PeekFail
        PROVE  WinInv'
    <3>1. UNCHANGED <<boxVars, stream, ppc, callVars, out, broken>>
      BY <2>1 DEF PeekFail
    <3> QED BY <1>1, <3>1, Stutters
  <2>2. ASSUME UNCHANGED vars
        PROVE  WinInv'
    <3>1. UNCHANGED <<boxVars, stream, ppc, callVars, out, broken>>
      BY <2>2 DEF vars, readVars
    <3> QED BY <1>1, <3>1, Stutters
  <2>3. ASSUME Next
        PROVE  WinInv'
    BY <1>1, <2>1, <2>3, NewBoxKeeps, NewStepKeeps, DestroyKeeps, ProducerKeeps, PeekKeeps
    DEF Next
  <2> QED BY <1>1, <2>2, <2>3
<1> QED BY <1>1, InitHolds, PTL DEF Spec

\* Whatever call of mbox_new() fails, everything opened is closed and freed.
THEOREM NothingLeaks == Spec => []NoLeak
<1>1. ASSUME WinInv
      PROVE  NoLeak
  <2>1. HeldInv
    BY <1>1 DEF WinInv
  <2>2. step = -1 => held = {}
    BY <2>1 DEF HeldInv
  <2>3. Open => held = {"box", "server", "rfd", "wfd"}
    <3>1. Open => held = {"box"} \cup {"server"} \cup {"wfd"} \cup {"rfd"}
      BY <2>1, NewCallsLen DEF HeldInv, Open
    <3>2. {"box"} \cup {"server"} \cup {"wfd"} \cup {"rfd"} = {"box", "server", "rfd", "wfd"}
      OBVIOUS
    <3> QED BY <3>1, <3>2
  <2> QED BY <2>2, <2>3 DEF NoLeak
<1> QED BY <1>1, Invariance, PTL

\* As long as no push failed in the middle of its message, none took a partial
\* send() for a success and no two overlapped, a reader gets whole messages one
\* after the other, with only the end of one being sent missing.
THEOREM StreamIsWhole == Spec => []StreamHasNoGap
<1>1. ASSUME WinInv
      PROVE  StreamHasNoGap
  <2>1. CASE broken
    BY <2>1 DEF StreamHasNoGap
  <2>2. CASE ~broken
    <3>1. broken = FALSE
      BY <1>1, <2>2 DEF WinInv
    <3>2. /\ Chain(Tape, msg_size)
          /\ \A p \in Producers : Begun(p) => Unfinished(p)
          /\ (\A p \in Producers : ~Begun(p)) => Tape = <<>> \/ Tape[Len(Tape)][2] = msg_size
      BY <1>1, <3>1 DEF WinInv, OrderInv
    <3>3. \A k \in 1 .. Len(Tape) - 1 : Follows(Tape[k], Tape[k + 1])
      BY <3>2 DEF Chain, After, Follows
    <3>4. ASSUME Tape # <<>>
          PROVE  Tape[Len(Tape)][2] = msg_size \/ \E p \in Producers :
                   Begun(p) /\ Tape[Len(Tape)] = <<msg[p], done[p]>>
      <4>1. ASSUME NEW p \in Producers, Begun(p)
            PROVE  Begun(p) /\ Tape[Len(Tape)] = <<msg[p], done[p]>>
        BY <3>2, <4>1 DEF Unfinished
      <4> QED BY <3>2, <3>4, <4>1
    <3> QED BY <3>3, <3>4 DEF StreamHasNoGap
  <2> QED BY <2>1, <2>2
<1> QED BY <1>1, Invariance, PTL
=============================================================================
