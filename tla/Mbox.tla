-------------------------------- MODULE Mbox --------------------------------
(***************************************************************************)
(* The fixed-size mailbox of src/src/mbox.c (POSIX): a non-blocking pipe   *)
(* in which every message is one write() of fewer than PIPE_BUF bytes.     *)
(*                                                                         *)
(* The pipe is modelled by what the code relies on: a write of at most     *)
(* PIPE_BUF bytes is all or nothing, poll() reports the write end ready    *)
(* when PIPE_BUF bytes fit, a read takes what there is up to its size.     *)
(* write(), read() and poll() repeat after EINTR, which changes nothing;   *)
(* as poll() then starts again with the FULL timeout, nothing is said of   *)
(* when a call times out: it may, whenever poll() finds no room.           *)
(***************************************************************************)
EXTENDS Integers, Sequences, FiniteSets

CONSTANTS Producers,    \* threads that push
          Messages,     \* byte sequences they may push
          Sizes,        \* the sizes mbox_new() may be asked for
          PIPE_BUF,     \* largest atomic write; 4096 on Linux
          PipeCap,      \* bytes the pipe holds; 65536 on Linux
          Timeouts,     \* timeout_ms values; 0 means for ever
          INT_MAX       \* largest timeout poll() takes

ASSUME PipeAssumption ==
  /\ PIPE_BUF \in Nat /\ PipeCap \in Nat
  /\ 0 < PIPE_BUF /\ PIPE_BUF <= PipeCap

Byte == 0 .. 255

ASSUME InputsAssumption ==
  /\ Messages \subseteq Seq(Byte)
  /\ Sizes \subseteq Nat /\ Timeouts \subseteq Nat
  /\ INT_MAX \in Nat

VARIABLES
  life,       \* how far mbox_new() got: "none", "pipe", "open"
  held,       \* resources allocated and not freed
  msg_size,   \* box->msg_size
  pipe,       \* bytes in the pipe
  ppc,        \* where each producer is: "idle", "poll", "write"
  msg,        \* its message
  block,      \* whether its last call is mbox_push_block
  timeout,    \* its timeout_ms
  raced,      \* history: another producer wrote since its poll() returned
  ret,        \* what its last call returned
  out,        \* the reader's buffer after the last successful peek
  cret        \* what the last peek returned

boxVars == <<life, held, msg_size>>
callVars == <<msg, block, timeout, raced>>
readVars == <<out, cret>>
vars == <<boxVars, pipe, ppc, callVars, ret, readVars>>

Init == /\ life = "none"
        /\ held = {}
        /\ msg_size = 0
        /\ pipe = <<>>
        /\ ppc = [p \in Producers |-> "idle"]
        /\ msg = [p \in Producers |-> <<>>]
        /\ block = [p \in Producers |-> FALSE]
        /\ timeout = [p \in Producers |-> 0]
        /\ raced = [p \in Producers |-> FALSE]
        /\ ret = [p \in Producers |-> "none"]
        /\ out = <<>>
        /\ cret = "none"

-----------------------------------------------------------------------------
(* mbox_new and mbox_destroy.                                              *)

ValidSize(n) == n # 0 /\ n < PIPE_BUF

NewBox(n) ==
  /\ life = "none"
  /\ ValidSize(n)
  /\ held' = {"box"}
  /\ msg_size' = n
  /\ life' = "pipe"
  /\ UNCHANGED <<pipe, ppc, callVars, ret, readVars>>

NewPipe(ok) ==
  /\ life = "pipe"
  /\ IF ok THEN held' = held \cup {"fds"} /\ life' = "open"
           ELSE held' = held \ {"box"} /\ life' = "none"
  /\ UNCHANGED <<msg_size, pipe, ppc, callVars, ret, readVars>>

\* The caller guarantees that no call is in progress.
mbox_destroy ==
  /\ life = "open"
  /\ \A p \in Producers : ppc[p] = "idle"
  /\ held' = held \ {"fds", "box"}
  /\ life' = "none"
  /\ pipe' = <<>>
  /\ cret' = "none"
  /\ UNCHANGED <<msg_size, ppc, callVars, ret, out>>

-----------------------------------------------------------------------------
(* mbox_push and mbox_push_block.                                          *)

Call(p, m, b, t) ==
  /\ life = "open"
  /\ ppc[p] = "idle"
  /\ Len(m) = msg_size
  /\ msg' = [msg EXCEPT ![p] = m]
  /\ block' = [block EXCEPT ![p] = b]
  /\ timeout' = [timeout EXCEPT ![p] = t]
  /\ raced' = [raced EXCEPT ![p] = FALSE]
  /\ ret' = [ret EXCEPT ![p] = "none"]

PushCall(p, m) ==
  /\ Call(p, m, FALSE, 0)
  /\ ppc' = [ppc EXCEPT ![p] = "write"]
  /\ UNCHANGED <<boxVars, pipe, readVars>>

PushBlockCall(p, m, t) ==
  /\ Call(p, m, TRUE, t)
  /\ t <= INT_MAX
  /\ ppc' = [ppc EXCEPT ![p] = "poll"]
  /\ UNCHANGED <<boxVars, pipe, readVars>>

PushBlockInvalid(p, t) ==
  /\ life = "open"
  /\ ppc[p] = "idle"
  /\ t > INT_MAX
  /\ ret' = [ret EXCEPT ![p] = "EINVAL"]
  /\ UNCHANGED <<boxVars, pipe, ppc, callVars, readVars>>

\* Leave the call: its locals are dead.
Return(p, r) ==
  /\ ppc' = [ppc EXCEPT ![p] = "idle"]
  /\ msg' = [msg EXCEPT ![p] = <<>>]
  /\ timeout' = [timeout EXCEPT ![p] = 0]
  /\ ret' = [ret EXCEPT ![p] = r]
  /\ UNCHANGED block

\* What poll() looks at.
Writable == PipeCap - Len(pipe) >= PIPE_BUF

\* Mutant: polls the read end for input.
PollReady_read_end(p) ==
  /\ ppc[p] = "poll"
  /\ pipe # <<>>
  /\ ppc' = [ppc EXCEPT ![p] = "write"]
  /\ UNCHANGED <<boxVars, pipe, callVars, ret, readVars>>

\* Mutant: goes on after a time-out as if there were room.
PollReady_any_result(p) ==
  /\ ppc[p] = "poll"
  /\ Writable \/ timeout[p] # 0
  /\ ppc' = [ppc EXCEPT ![p] = "write"]
  /\ UNCHANGED <<boxVars, pipe, callVars, ret, readVars>>

PollReady(p) ==
  /\ ppc[p] = "poll"
  /\ Writable
  /\ ppc' = [ppc EXCEPT ![p] = "write"]
  /\ UNCHANGED <<boxVars, pipe, callVars, ret, readVars>>

PollTimeout(p) ==
  /\ ppc[p] = "poll"
  /\ ~Writable
  /\ timeout[p] # 0
  /\ Return(p, "ETIMEDOUT")
  /\ UNCHANGED <<boxVars, pipe, raced, readVars>>

\* poll() fails for another reason than a signal.
PollFails(p) ==
  /\ ppc[p] = "poll"
  /\ Return(p, "errno")
  /\ UNCHANGED <<boxVars, pipe, raced, readVars>>

\* How many bytes the write() takes: all if they fit, else none if the message
\* is atomic, and as many as fit if it is not.
WriteSizes ==
  LET room == PipeCap - Len(pipe)
  IN  IF msg_size <= room THEN {msg_size}
      ELSE IF msg_size <= PIPE_BUF THEN {} ELSE 1 .. room

\* Mutant: the retry loop repeats a write that succeeded.
Write_twice(p) ==
  /\ ppc[p] = "write"
  /\ IF Len(pipe) + 2 * msg_size <= PipeCap
     THEN pipe' = pipe \o msg[p] \o msg[p] /\ Return(p, "0")
     ELSE UNCHANGED pipe /\ Return(p, "EAGAIN")
  /\ UNCHANGED <<boxVars, raced, readVars>>

\* The write(); a result of 0 or more bytes is taken for all of them.
Write(p) ==
  /\ ppc[p] = "write"
  /\ IF WriteSizes = {}
     THEN Return(p, "EAGAIN") /\ UNCHANGED <<pipe, raced>>
     ELSE \E n \in WriteSizes :
            /\ pipe' = pipe \o SubSeq(msg[p], 1, n)
            /\ Return(p, "0")
            /\ raced' = [q \in Producers |-> raced[q] \/ (q # p /\ ppc[q] = "write")]
  /\ UNCHANGED <<boxVars, readVars>>

-----------------------------------------------------------------------------
(* mbox_peek.  The write end is open as long as the box, so an empty pipe  *)
(* is -EAGAIN and never the end of file that the code maps to -EPIPE.      *)

Shorter(a, b) == IF a < b THEN a ELSE b

Peek ==
  /\ life = "open"
  /\ pipe # <<>>
  /\ LET n == Shorter(msg_size, Len(pipe))
     IN  /\ out' = SubSeq(pipe, 1, n)
         /\ pipe' = SubSeq(pipe, n + 1, Len(pipe))
  /\ cret' = "0"
  /\ UNCHANGED <<boxVars, ppc, callVars, ret>>

PeekEmpty ==
  /\ life = "open"
  /\ pipe = <<>>
  /\ cret' = "EAGAIN"
  /\ UNCHANGED <<boxVars, pipe, ppc, callVars, ret, out>>

-----------------------------------------------------------------------------

Producer(p) ==
  \/ \E m \in Messages : PushCall(p, m)
  \/ \E m \in Messages, t \in Timeouts : PushBlockCall(p, m, t)
  \/ \E t \in Timeouts : PushBlockInvalid(p, t)
  \/ PollReady(p) \/ PollTimeout(p) \/ PollFails(p) \/ Write(p)

Lifecycle == \/ \E n \in Sizes : NewBox(n)
             \/ \E ok \in BOOLEAN : NewPipe(ok)
             \/ mbox_destroy

Next == \/ Lifecycle
        \/ \E p \in Producers : Producer(p)
        \/ Peek \/ PeekEmpty

Spec == Init /\ [][Next]_vars

\* The reader reads when the descriptor is readable, and a thread whose system
\* call can return goes on.  Nobody has to push, and no call has to time out.
Fairness == /\ WF_vars(Peek)
            /\ \A p \in Producers : WF_vars(PollReady(p) \/ Write(p))

FairSpec == Spec /\ Fairness

-----------------------------------------------------------------------------
(* Properties.                                                             *)

\* It comes back with -EAGAIN only if another producer took the room between
\* its poll() and its write(): room for PIPE_BUF bytes is room for a message.
RefusedOnlyIfRaced ==
  \A p \in Producers : ret[p] = "EAGAIN" /\ block[p] => raced[p]

\* A mbox_push_block() with no timeout returns, if the reader goes on reading
\* and no other producer competes for the room: poll() needs PIPE_BUF free
\* bytes, more than a message.
BlockedPushReturns ==
  \A p \in Producers :
    ppc[p] = "poll" /\ timeout[p] = 0
      ~> \/ ppc[p] = "idle"
         \/ \E q \in Producers \ {p} : ppc[q] # "idle"

\* The messages in the pipe, oldest first.
Queued == [k \in 1 .. (IF msg_size = 0 THEN 0 ELSE Len(pipe) \div msg_size) |->
             SubSeq(pipe, (k - 1) * msg_size + 1, k * msg_size)]

MB == INSTANCE Mailbox WITH
        Message   <- Messages,
        open      <- life = "open",
        queue     <- Queued,
        delivered <- out

\* The pipe is the abstract queue of whole messages ("Simple mailbox mechanism
\* guaranteeing atomic read/write", mbox.h), for several producers.
ImplementsMailbox == MB!Spec

=============================================================================
