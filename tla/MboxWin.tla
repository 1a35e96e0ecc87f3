------------------------------ MODULE MboxWin ------------------------------
(***************************************************************************)
(* The Windows half of src/src/mbox.c: the same interface over a connected *)
(* pair of non-blocking stream sockets.  A stream keeps no boundaries:     *)
(* send() takes as many bytes as fit in the socket buffers, and recv()     *)
(* returns what has arrived, up to a message.                              *)
(***************************************************************************)
EXTENDS Integers, Sequences

CONSTANTS Producers,    \* threads that push
          Messages,     \* what they may push; byte j of m is <<m, j>>
          Sizes,        \* the sizes mbox_new() may be asked for
          SockCap,      \* bytes the two sockets can buffer
          Errors        \* whether select(), send() and recv() may fail

ASSUME SocketAssumption ==
  /\ SockCap \in Nat \ {0} /\ Sizes \subseteq Nat
  /\ Errors \in BOOLEAN

VARIABLES
  step,       \* calls of mbox_new that succeeded; "closed" is -1
  held,       \* what is allocated or open
  msg_size,   \* box->msg_size
  stream,     \* bytes sent and not received
  ppc,        \* where each producer is: "idle", "push", "select", "send"
  msg,        \* its message
  timed,      \* its timeout_ms is not 0
  done,       \* bytes of it that were sent
  ret,        \* what its last call returned
  out,        \* what the last recv() gave
  cret,       \* what the last peek returned
  broken      \* history: a message was left unfinished, or another one went
              \* into the middle of it

boxVars == <<step, held, msg_size>>
callVars == <<msg, timed, done>>
readVars == <<out, cret>>
vars == <<boxVars, stream, ppc, callVars, ret, readVars, broken>>

\* The calls of mbox_new after calloc, and the socket each one opens.
NewCalls == << "server",                \* socket
               "none", "none", "none",  \* bind, listen, getsockname
               "wfd", "none",           \* socket, connect
               "rfd",                   \* accept
               "none", "none" >>        \* ioctlsocket, twice

Open == step = Len(NewCalls)

Init == /\ step = -1
        /\ held = {}
        /\ msg_size = 0
        /\ stream = <<>>
        /\ ppc = [p \in Producers |-> "idle"]
        /\ msg \in [Producers -> Messages]
        /\ timed = [p \in Producers |-> FALSE]
        /\ done = [p \in Producers |-> 0]
        /\ ret = [p \in Producers |-> "none"]
        /\ out = <<>>
        /\ cret = "none"
        /\ broken = FALSE

-----------------------------------------------------------------------------
(* mbox_new and mbox_destroy.                                              *)

NewBox(n) ==
  /\ step = -1
  /\ n # 0
  /\ held' = {"box"}
  /\ msg_size' = n
  /\ step' = 0
  /\ UNCHANGED <<stream, ppc, callVars, ret, readVars, broken>>

\* Close the sockets that are not INVALID_SOCKET, free the box.
Release == /\ held' = held \ {"server", "rfd", "wfd", "box"}
           /\ step' = -1

\* Mutant: the error label frees the box only.
NewStep_free_only(ok) ==
  /\ step \in 0 .. Len(NewCalls) - 1
  /\ IF ok THEN /\ held' = held \cup ({NewCalls[step + 1]} \ {"none"})
                /\ step' = step + 1
           ELSE held' = held \ {"box"} /\ step' = -1
  /\ UNCHANGED <<msg_size, stream, ppc, callVars, ret, readVars, broken>>

NewStep(ok) ==
  /\ step \in 0 .. Len(NewCalls) - 1
  /\ IF ok THEN /\ held' = held \cup ({NewCalls[step + 1]} \ {"none"})
                /\ step' = step + 1
           ELSE Release
  /\ UNCHANGED <<msg_size, stream, ppc, callVars, ret, readVars, broken>>

\* The caller guarantees that no call is in progress.
mbox_destroy ==
  /\ Open
  /\ \A p \in Producers : ppc[p] = "idle"
  /\ Release
  /\ stream' = <<>>
  /\ out' = <<>> /\ cret' = "none"
  /\ done' = [p \in Producers |-> 0]
  /\ ret' = [p \in Producers |-> "none"]
  /\ broken' = FALSE
  /\ UNCHANGED <<msg_size, ppc, msg, timed>>

-----------------------------------------------------------------------------
(* mbox_push and mbox_push_block.                                          *)

Room == SockCap - Len(stream)

\* What send() takes of n bytes: all that fits.
SendSize(n) == IF Room < n THEN Room ELSE n

\* p has sent some bytes of its message and not all.
Begun(p) == ppc[p] # "idle" /\ done[p] > 0

\* n more bytes of p's message are on their way.
Sent(p, n) ==
  /\ stream' = stream \o [j \in 1 .. n |-> <<msg[p], done[p] + j>>]
  /\ done' = [done EXCEPT ![p] = done[p] + n]

Intrudes(p) == \E q \in Producers \ {p} : Begun(q)

Return(p, r) == /\ ppc' = [ppc EXCEPT ![p] = "idle"]
                /\ timed' = [timed EXCEPT ![p] = FALSE]
                /\ ret' = [ret EXCEPT ![p] = r]

Call(p, m, t, pc) ==
  /\ Open
  /\ ppc[p] = "idle"
  /\ msg' = [msg EXCEPT ![p] = m]
  /\ timed' = [timed EXCEPT ![p] = t]
  /\ done' = [done EXCEPT ![p] = 0]
  /\ ret' = [ret EXCEPT ![p] = "none"]
  /\ ppc' = [ppc EXCEPT ![p] = pc]
  /\ UNCHANGED <<boxVars, stream, readVars, broken>>

PushCall(p, m) == Call(p, m, FALSE, "push")

PushBlockCall(p, m, t) == Call(p, m, t, "select")

\* mbox_push: one send(); any number of bytes is a success.
PushSend(p) ==
  /\ ppc[p] = "push"
  /\ Room > 0
  /\ Sent(p, SendSize(msg_size))
  /\ broken' = (broken \/ Intrudes(p) \/ Room < msg_size)
  /\ Return(p, "0")
  /\ UNCHANGED <<boxVars, msg, readVars>>

PushWouldBlock(p) ==
  /\ ppc[p] = "push"
  /\ Room = 0
  /\ Return(p, "EAGAIN")
  /\ UNCHANGED <<boxVars, stream, msg, done, readVars, broken>>

\* Mutant: waits on the descriptor in the wrong set.
SelectReady_readfds(p) ==
  /\ ppc[p] = "select"
  /\ stream # <<>>
  /\ ppc' = [ppc EXCEPT ![p] = "send"]
  /\ UNCHANGED <<boxVars, stream, callVars, ret, readVars, broken>>

\* mbox_push_block: select() says that send() has room ...
SelectReady(p) ==
  /\ ppc[p] = "select"
  /\ Room > 0
  /\ ppc' = [ppc EXCEPT ![p] = "send"]
  /\ UNCHANGED <<boxVars, stream, callVars, ret, readVars, broken>>

\* ... or the time is up, which counts only before the first byte.
SelectTimeout(p) ==
  /\ ppc[p] = "select"
  /\ Room = 0
  /\ timed[p] /\ done[p] = 0
  /\ Return(p, "ETIMEDOUT")
  /\ UNCHANGED <<boxVars, stream, msg, done, readVars, broken>>

\* Mutant: a partial send ends the loop.
BlockSend_once(p) ==
  /\ ppc[p] = "send"
  /\ Room > 0
  /\ Sent(p, SendSize(msg_size - done[p]))
  /\ broken' = (broken \/ Intrudes(p))
  /\ Return(p, "0")
  /\ UNCHANGED <<boxVars, msg, readVars>>

\* Send what the sockets take; once more if that is not all.
BlockSend(p) ==
  /\ ppc[p] = "send"
  /\ Room > 0
  /\ Sent(p, SendSize(msg_size - done[p]))
  /\ broken' = (broken \/ Intrudes(p))
  /\ IF done'[p] < msg_size
     THEN ppc' = [ppc EXCEPT ![p] = "select"] /\ UNCHANGED <<ret, timed>>
     ELSE Return(p, "0")
  /\ UNCHANGED <<boxVars, msg, readVars>>

\* Another producer took the room: the error is returned, whatever was sent.
BlockSendWouldBlock(p) ==
  /\ ppc[p] = "send"
  /\ Room = 0
  /\ Return(p, "error")
  /\ broken' = (broken \/ Begun(p))
  /\ UNCHANGED <<boxVars, stream, msg, done, readVars>>

\* select() or send() fails.
PushError(p) ==
  /\ Errors
  /\ ppc[p] \in {"push", "select", "send"}
  /\ Return(p, "error")
  /\ broken' = (broken \/ Begun(p))
  /\ UNCHANGED <<boxVars, stream, msg, done, readVars>>

-----------------------------------------------------------------------------
(* mbox_peek: recv() of up to a message; any number of bytes is a success. *)

Peek ==
  /\ Open
  /\ stream # <<>>
  /\ LET n == IF Len(stream) < msg_size THEN Len(stream) ELSE msg_size
     IN  /\ out' = SubSeq(stream, 1, n)
         /\ stream' = SubSeq(stream, n + 1, Len(stream))
  /\ cret' = "0"
  /\ UNCHANGED <<boxVars, ppc, callVars, ret, broken>>

PeekFail ==
  /\ Open
  /\ \/ stream = <<>> /\ cret' = "EAGAIN"
     \/ Errors /\ cret' = "EIO"
  /\ UNCHANGED <<boxVars, stream, ppc, callVars, ret, out, broken>>

-----------------------------------------------------------------------------

Producer(p) ==
  \/ \E m \in Messages : PushCall(p, m)
  \/ \E m \in Messages, t \in BOOLEAN : PushBlockCall(p, m, t)
  \/ PushSend(p) \/ PushWouldBlock(p)
  \/ SelectReady(p) \/ SelectTimeout(p)
  \/ BlockSend(p) \/ BlockSendWouldBlock(p) \/ PushError(p)

Next == \/ \E n \in Sizes : NewBox(n)
        \/ \E ok \in BOOLEAN : NewStep(ok)
        \/ mbox_destroy
        \/ \E p \in Producers : Producer(p)
        \/ Peek \/ PeekFail

Spec == Init /\ [][Next]_vars

\* A reader whose socket is readable reads, and a thread whose call can return
\* goes on.
Fairness == /\ WF_vars(Peek)
            /\ \A p \in Producers : WF_vars(SelectReady(p) \/ BlockSend(p))

FairSpec == Spec /\ Fairness

-----------------------------------------------------------------------------
(* Properties.                                                             *)

\* Whatever call of mbox_new() fails, the sockets opened so far are closed and
\* the box freed; destroy releases all.
NoLeak == /\ step = -1 => held = {}
          /\ Open => held = {"box", "server", "rfd", "wfd"}

\* Byte b follows byte a: in the same message, or in the next one.
Follows(a, b) == \/ b[1] = a[1] /\ b[2] = a[2] + 1
                 \/ a[2] = msg_size /\ b[2] = 1

\* The bytes read last and those to be read.
Tape == out \o stream

\* As long as no push failed in the middle of its message, none took a partial
\* send() for a success and no two pushes overlapped, a reader gets the messages
\* one after the other without a gap; only the end of one being sent is missing.
StreamHasNoGap ==
  broken \/
    /\ \A k \in 1 .. Len(Tape) - 1 : Follows(Tape[k], Tape[k + 1])
    /\ Tape # <<>> => LET b == Tape[Len(Tape)]
                      IN  b[2] = msg_size \/ \E p \in Producers :
                            Begun(p) /\ b = <<msg[p], done[p]>>

\* Once a message has begun, mbox_push_block returns if the reader goes on
\* reading and no other producer competes for the room, although it no longer
\* looks at its timeout.
BegunIsFinished ==
  \A p \in Producers :
    ppc[p] = "select" /\ done[p] > 0
      ~> \/ ppc[p] = "idle"
         \/ \E q \in Producers \ {p} : ppc[q] # "idle"

=============================================================================
