------------------------------ MODULE Dynmbox ------------------------------
(***************************************************************************)
(* The variable-size mailbox of src/src/dynmbox.c: a byte ring protected   *)
(* by a mutex, a condition variable for producers that wait for room, and  *)
(* a pipe that carries one byte per message so that the consumer can       *)
(* select() on it.                                                         *)
(*                                                                         *)
(* One action is one stretch of code with no scheduling point that another *)
(* thread could see: taking the mutex and testing the ring, each ring      *)
(* copy, each system call on the pipe.  The byte is written to the pipe    *)
(* AFTER the mutex is released, so a message and its notification are two  *)
(* events; a peek of an empty ring returns WITHOUT reading the pipe.       *)
(*                                                                         *)
(* dynmbox.h asks for a single producer and checks nothing; the mutex      *)
(* makes several possible, so Producers is any finite set.                 *)
(***************************************************************************)
EXTENDS RingBuf, FiniteSets

CONSTANTS Producers,    \* threads that push
          Messages,     \* what they may push: byte sequences
          MaxSizes,     \* the sizes dynmbox_new() may be asked for
          PipeCap,      \* bytes the notification pipe can hold
          Policy        \* when the consumer calls dynmbox_peek:
                        \*   "once"  one call each time the fd is readable
                        \*   "drain" when readable, then until -EAGAIN
                        \*   "any"   whenever it likes

ASSUME ProducersAssumption ==
  /\ IsFiniteSet(Producers)
  /\ "none" \notin Producers /\ "consumer" \notin Producers

ASSUME MessagesAssumption == Messages \subseteq Seq(Byte)

ASSUME MaxSizesAssumption == MaxSizes \subseteq Nat

\* A frame is at least a header long: ALLOCATED_LEN \div HdrSize messages fill
\* the ring.  A Linux pipe holds 65536 bytes, the ring 16384 headers.
ASSUME PipeCapAssumption ==
  /\ PipeCap \in Nat
  /\ PipeCap >= ALLOCATED_LEN \div HdrSize + Cardinality(Producers)

VARIABLES
  life,         \* how far dynmbox_new() got: "none", "bufmem", "channel", "open"
  held,         \* resources allocated and not freed
  max_msg_size, \* box->max_msg_size
  rb,           \* the ring
  lock,         \* box->lock: "none", "consumer" or a producer
  pipe,         \* bytes in the notification pipe
  ppc,          \* where each producer is
  msg,          \* its message
  mode,         \* "nonblock" (dynmbox_push), "forever" or "timed"
  ret,          \* what its last call returned
  cpc,          \* where the consumer is
  hdrlen,       \* do_peek's hdr
  out,          \* the caller's buffer after the last successful peek
  cret,         \* what the last peek returned
  queue,        \* history: the messages in the ring, oldest first
  offs          \* history: offs[k] is the offset of message k's frame from the
                \* read cursor, and the last element the end of the last frame

boxVars == <<life, held, max_msg_size>>
prodVars == <<msg, mode, ret>>
consVars == <<cpc, hdrlen, out, cret>>
history == <<queue, offs>>
vars == <<boxVars, rb, lock, pipe, ppc, prodVars, consVars, history>>

Modes == {"nonblock", "forever", "timed"}

Init == /\ life = "none"
        /\ held = {}
        /\ max_msg_size = 0
        /\ rb = EmptyRing
        /\ lock = "none"
        /\ pipe = 0
        /\ ppc = [p \in Producers |-> "idle"]
        /\ msg = [p \in Producers |-> <<>>]
        /\ mode = [p \in Producers |-> "nonblock"]
        /\ ret = [p \in Producers |-> "none"]
        /\ cpc = "idle"
        /\ hdrlen = 0
        /\ out = <<>>
        /\ cret = "none"
        /\ queue = <<>>
        /\ offs = <<0>>

-----------------------------------------------------------------------------
(* dynmbox_new: three allocations, the failure labels free what came       *)
(* before.  A failure of the first one changes nothing.  The requested     *)
(* size is stored here when it is accepted; the code stores it last, but   *)
(* nobody has the handle before.                                           *)

NewBox(n) ==
  /\ life = "none"
  /\ n <= DYNMBOX_MAX_SIZE
  /\ held' = {"box"}
  /\ max_msg_size' = n
  /\ life' = "bufmem"
  /\ UNCHANGED <<rb, lock, pipe, ppc, prodVars, consVars, history>>

NewBufmem(ok) ==
  /\ life = "bufmem"
  /\ IF ok
     THEN held' = held \cup {"bufmem"} /\ life' = "channel"
     ELSE held' = held \ {"box"} /\ life' = "none"          \* fail_bufmem
  /\ rb' = EmptyRing
  /\ UNCHANGED <<max_msg_size, lock, pipe, ppc, prodVars, consVars, history>>

\* Mutant: fail_notify_channel forgets the ring.
NewChannel_leak(ok) ==
  /\ life = "channel"
  /\ IF ok
     THEN held' = held \cup {"pipe"} /\ life' = "open"
     ELSE held' = held \ {"box"} /\ life' = "none"
  /\ UNCHANGED <<max_msg_size, rb, lock, pipe, ppc, prodVars, consVars, history>>

NewChannel(ok) ==
  /\ life = "channel"
  /\ IF ok
     THEN held' = held \cup {"pipe"} /\ life' = "open"
     ELSE held' = held \ {"bufmem", "box"} /\ life' = "none" \* fail_notify_channel
  /\ UNCHANGED <<max_msg_size, rb, lock, pipe, ppc, prodVars, consVars, history>>

\* dynmbox_destroy: the caller guarantees that no call is in progress.
dynmbox_destroy ==
  /\ life = "open"
  /\ cpc = "idle"
  /\ \A p \in Producers : ppc[p] = "idle"
  /\ held' = held \ {"pipe", "bufmem", "box"}
  /\ life' = "none"
  /\ pipe' = 0
  /\ rb' = EmptyRing
  /\ queue' = <<>>
  /\ offs' = <<0>>
  /\ cret' = "none"
  /\ UNCHANGED <<max_msg_size, lock, ppc, prodVars, cpc, hdrlen, out>>

-----------------------------------------------------------------------------
(* dynmbox_push and dynmbox_push_block.                                    *)

\* Mutant: asks for one byte more than the frame needs.
NoRoom_strict(p) == rbuf_space_left(rb) <= Len(msg[p]) + HdrSize

NoRoom(p) == rbuf_space_left(rb) < Len(msg[p]) + HdrSize

PushInvalid(p, m) ==
  /\ life = "open"
  /\ ppc[p] = "idle"
  /\ Len(m) > max_msg_size
  /\ ret' = [ret EXCEPT ![p] = "EINVAL"]
  /\ UNCHANGED <<boxVars, rb, lock, pipe, ppc, msg, mode, consVars, history>>

\* gettimeofday() fails in a push that has a timeout: no lock is taken yet.
PushNoClock(p, m) ==
  /\ life = "open"
  /\ ppc[p] = "idle"
  /\ Len(m) <= max_msg_size
  /\ ret' = [ret EXCEPT ![p] = "errno"]
  /\ UNCHANGED <<boxVars, rb, lock, pipe, ppc, msg, mode, consVars, history>>

PushCall(p, m, md) ==
  /\ life = "open"
  /\ ppc[p] = "idle"
  /\ Len(m) <= max_msg_size
  /\ msg' = [msg EXCEPT ![p] = m]
  /\ mode' = [mode EXCEPT ![p] = md]
  /\ ret' = [ret EXCEPT ![p] = "none"]
  /\ ppc' = [ppc EXCEPT ![p] = "lock"]
  /\ UNCHANGED <<boxVars, rb, lock, pipe, consVars, history>>

\* Leave the call: its locals are dead.
Return(p, r) ==
  /\ ppc' = [ppc EXCEPT ![p] = "idle"]
  /\ msg' = [msg EXCEPT ![p] = <<>>]
  /\ mode' = [mode EXCEPT ![p] = "nonblock"]
  /\ ret' = [ret EXCEPT ![p] = r]

\* dynmbox_push: no room, unlock and return -EAGAIN.
PushRefused(p) ==
  /\ ppc[p] = "lock" /\ lock = "none"
  /\ NoRoom(p)
  /\ mode[p] = "nonblock"
  /\ Return(p, "EAGAIN")
  /\ UNCHANGED <<boxVars, rb, lock, pipe, consVars, history>>

\* dynmbox_push_block: no room, wait on the condition (releases the mutex).
PushWait(p) ==
  /\ ppc[p] = "lock" /\ lock = "none"
  /\ NoRoom(p)
  /\ mode[p] # "nonblock"
  /\ ppc' = [ppc EXCEPT ![p] = "wait"]
  /\ UNCHANGED <<boxVars, rb, lock, pipe, prodVars, consVars, history>>

\* There is room: keep the mutex and go on to do_push.
PushLock(p) ==
  /\ ppc[p] = "lock" /\ lock = "none"
  /\ ~NoRoom(p)
  /\ lock' = p
  /\ ppc' = [ppc EXCEPT ![p] = "hdr"]
  /\ UNCHANGED <<boxVars, rb, pipe, prodVars, consVars, history>>

\* A spurious wake-up of pthread_cond_wait: back to the test of the loop.
PushSpurious(p) ==
  /\ ppc[p] = "wait"
  /\ ppc' = [ppc EXCEPT ![p] = "lock"]
  /\ UNCHANGED <<boxVars, rb, lock, pipe, prodVars, consVars, history>>

\* The deadline of pthread_cond_timedwait passes: no longer a waiter.
PushExpire(p) ==
  /\ ppc[p] = "wait" /\ mode[p] = "timed"
  /\ ppc' = [ppc EXCEPT ![p] = "expired"]
  /\ UNCHANGED <<boxVars, rb, lock, pipe, prodVars, consVars, history>>

\* It has the mutex again, and returns without testing the ring.
PushTimedOut(p) ==
  /\ ppc[p] = "expired" /\ lock = "none"
  /\ Return(p, "ETIMEDOUT")
  /\ UNCHANGED <<boxVars, rb, lock, pipe, consVars, history>>

\* do_push, the header ...
PushHdr(p) ==
  /\ ppc[p] = "hdr"
  /\ rb' = rbuf_write(rb, EncodeHdr(Len(msg[p])))
  /\ ppc' = [ppc EXCEPT ![p] = "data"]
  /\ UNCHANGED <<boxVars, lock, pipe, prodVars, consVars, history>>

\* ... then the data; unlock.
PushData(p) ==
  /\ ppc[p] = "data"
  /\ rb' = rbuf_write(rb, msg[p])
  /\ queue' = Append(queue, msg[p])
  /\ offs' = Append(offs, rb.used + Len(msg[p]))
  /\ lock' = "none"
  /\ ppc' = [ppc EXCEPT ![p] = "notify"]
  /\ UNCHANGED <<boxVars, pipe, prodVars, consVars>>

\* Mutant: notifies only if the pipe is empty.
push_notify_if_empty(p) ==
  /\ ppc[p] = "notify"
  /\ pipe' = IF pipe = 0 THEN 1 ELSE pipe
  /\ Return(p, "0")
  /\ UNCHANGED <<boxVars, rb, lock, consVars, history>>

\* push_notify: a write to a full pipe fails, and the failure is only logged.
push_notify(p) ==
  /\ ppc[p] = "notify"
  /\ pipe' = IF pipe < PipeCap THEN pipe + 1 ELSE pipe
  /\ Return(p, "0")
  /\ UNCHANGED <<boxVars, rb, lock, consVars, history>>

-----------------------------------------------------------------------------
(* dynmbox_peek.                                                           *)

\* dynmbox_get_read_fd()'s descriptor is readable.
Readable == life = "open" /\ pipe > 0

MayPeek == \/ Policy = "any"
           \/ Readable
           \/ Policy = "drain" /\ cret = "ok"

PeekCall ==
  /\ life = "open"
  /\ cpc = "idle"
  /\ MayPeek
  /\ cpc' = "lock"
  /\ UNCHANGED <<boxVars, rb, lock, pipe, ppc, prodVars, hdrlen, out, cret, history>>

\* Empty: unlock and return -EAGAIN; the pipe is left as it is.
PeekEmpty ==
  /\ cpc = "lock" /\ lock = "none"
  /\ rbuf_is_empty(rb)
  /\ cpc' = "idle"
  /\ cret' = "EAGAIN"
  /\ UNCHANGED <<boxVars, rb, lock, pipe, ppc, prodVars, hdrlen, out, history>>

PeekLock ==
  /\ cpc = "lock" /\ lock = "none"
  /\ ~rbuf_is_empty(rb)
  /\ lock' = "consumer"
  /\ cpc' = "pop"
  /\ UNCHANGED <<boxVars, rb, pipe, ppc, prodVars, hdrlen, out, cret, history>>

\* Mutant: reads everything the pipe holds.
pop_notify_all ==
  /\ cpc = "pop"
  /\ pipe' = 0
  /\ cpc' = "hdr"
  /\ UNCHANGED <<boxVars, rb, lock, ppc, prodVars, hdrlen, out, cret, history>>

\* Mutant: forgets to read the byte.
pop_notify_none ==
  /\ cpc = "pop"
  /\ cpc' = "hdr"
  /\ UNCHANGED <<boxVars, rb, lock, pipe, ppc, prodVars, hdrlen, out, cret, history>>

\* pop_notify: the failure of a read from an empty pipe is only logged.
pop_notify ==
  /\ cpc = "pop"
  /\ pipe' = IF pipe > 0 THEN pipe - 1 ELSE 0
  /\ cpc' = "hdr"
  /\ UNCHANGED <<boxVars, rb, lock, ppc, prodVars, hdrlen, out, cret, history>>

\* do_peek, the header ...
PeekHdr ==
  /\ cpc = "hdr"
  /\ hdrlen' = DecodeHdr(rbuf_read_bytes(rb, HdrSize))
  /\ rb' = rbuf_read(rb, HdrSize)
  /\ offs' = [k \in 1 .. Len(offs) |-> offs[k] - HdrSize]
  /\ cpc' = "data"
  /\ UNCHANGED <<boxVars, lock, pipe, ppc, prodVars, out, cret, queue>>

Waiting == {p \in Producers : ppc[p] = "wait"}

\* Mutant: nobody is signalled.
cond_signal_none == ppc' = ppc

\* pthread_cond_signal: wakes one waiter if there is any.
cond_signal == \/ Waiting = {} /\ ppc' = ppc
               \/ \E p \in Waiting : ppc' = [ppc EXCEPT ![p] = "lock"]

\* Mutant: the copy stops at the end of bufmem.
PeekData_first_chunk ==
  /\ cpc = "data"
  /\ out' = rbuf_read_bytes(rb, chunklen(rb.read_idx, hdrlen))
  /\ rb' = rbuf_read(rb, hdrlen)
  /\ queue' = Tail(queue)
  /\ offs' = [k \in 1 .. Len(offs) - 1 |-> offs[k + 1] - hdrlen]
  /\ hdrlen' = 0
  /\ cond_signal
  /\ lock' = "none"
  /\ cpc' = "idle"
  /\ cret' = "ok"
  /\ UNCHANGED <<boxVars, pipe, prodVars>>

\* ... then the data; signal, unlock.
PeekData ==
  /\ cpc = "data"
  /\ out' = rbuf_read_bytes(rb, hdrlen)
  /\ rb' = rbuf_read(rb, hdrlen)
  /\ queue' = Tail(queue)
  /\ offs' = [k \in 1 .. Len(offs) - 1 |-> offs[k + 1] - hdrlen]
  /\ hdrlen' = 0
  /\ cond_signal
  /\ lock' = "none"
  /\ cpc' = "idle"
  /\ cret' = "ok"
  /\ UNCHANGED <<boxVars, pipe, prodVars>>

-----------------------------------------------------------------------------

Producer(p) ==
  \/ \E m \in Messages : PushInvalid(p, m) \/ PushNoClock(p, m)
  \/ \E m \in Messages, md \in Modes : PushCall(p, m, md)
  \/ PushRefused(p) \/ PushWait(p) \/ PushLock(p)
  \/ PushSpurious(p) \/ PushExpire(p) \/ PushTimedOut(p)
  \/ PushHdr(p) \/ PushData(p) \/ push_notify(p)

Consumer == \/ PeekCall \/ PeekEmpty \/ PeekLock
            \/ pop_notify \/ PeekHdr \/ PeekData

Lifecycle == \/ \E n \in MaxSizes : NewBox(n)
             \/ \E ok \in BOOLEAN : NewBufmem(ok)
             \/ \E ok \in BOOLEAN : NewChannel(ok)
             \/ dynmbox_destroy

Next == \/ Lifecycle
        \/ \E p \in Producers : Producer(p)
        \/ Consumer

Spec == Init /\ [][Next]_vars

\* Threads that run are scheduled, and a consumer that sees the descriptor
\* readable calls peek.  Nothing forces a call to push, a time-out or a
\* spurious wake-up, and nobody has to create or destroy the mailbox.
Fairness == /\ WF_vars(Consumer)
            /\ \A p \in Producers :
                 WF_vars(\/ PushRefused(p) \/ PushWait(p) \/ PushLock(p)
                         \/ PushTimedOut(p) \/ PushHdr(p) \/ PushData(p)
                         \/ push_notify(p))

FairSpec == Spec /\ Fairness

-----------------------------------------------------------------------------
(* Properties.                                                             *)

\* The state has its types; the ring's indices stay inside bufmem.
TypeOK ==
  /\ life \in {"none", "bufmem", "channel", "open"}
  /\ held \subseteq {"box", "bufmem", "pipe"}
  /\ max_msg_size \in 0 .. DYNMBOX_MAX_SIZE
  /\ rb \in Ring
  /\ lock \in Producers \cup {"none", "consumer"}
  /\ pipe \in 0 .. PipeCap
  /\ ppc \in [Producers -> {"idle", "lock", "wait", "expired",
                            "hdr", "data", "notify"}]
  /\ msg \in [Producers -> Seq(Byte)]
  /\ mode \in [Producers -> Modes]
  /\ ret \in [Producers -> {"none", "0", "EINVAL", "EAGAIN", "ETIMEDOUT", "errno"}]
  /\ cpc \in {"idle", "lock", "pop", "hdr", "data"}
  /\ hdrlen \in Nat
  /\ out \in Seq(Byte)
  /\ cret \in {"none", "ok", "EAGAIN"}
  /\ queue \in Seq(Seq(Byte))
  /\ offs \in Seq(Int)

\* Whatever dynmbox_new() fails at, it gives back what it had allocated, and
\* dynmbox_destroy() gives back everything (the fail_* labels of dynmbox_new).
NoLeak == /\ life = "none" => held = {}
          /\ life = "open" => held = {"box", "bufmem", "pipe"}

\* A producer has written a header and not yet the data behind it.
HalfWritten == \E p \in Producers : ppc[p] = "data"

\* Bytes of the ring that belong to complete frames.
Framed == rb.used - (IF HalfWritten THEN HdrSize ELSE 0)

\* The unread bytes from offset off on are a header for n, or the bytes of m.
HeaderAt(b, off, n) == \A j \in 1 .. HdrSize :
                         UnreadCell(b, off + j - 1) = EncodeHdr(n)[j]

DataAt(b, off, m) == \A j \in 1 .. Len(m) : UnreadCell(b, off + j - 1) = m[j]

\* Header and data of a frame are in the ring at its offset; the header of the
\* one being read is already behind the read cursor.
FrameInRing(b, at, m) == /\ at >= 0 => HeaderAt(b, at, Len(m))
                         /\ DataAt(b, at + HdrSize, m)

\* The frames fill the used part of the ring from the read cursor on, without
\* gap or overlap; while a peek is between header and data the cursor is one
\* header into the first.
FramesContiguous ==
  /\ Len(offs) = Len(queue) + 1
  /\ offs[1] = IF cpc = "data" THEN -HdrSize ELSE 0
  /\ offs[Len(offs)] = Framed
  /\ \A k \in 1 .. Len(queue) : offs[k + 1] = offs[k] + HdrSize + Len(queue[k])

\* The bytes between the read and the write cursor are exactly the frames of
\* the messages pushed and not yet read, in order, across the wrap of the ring
\* and in the middle of a push or a peek (rbuf_write, rbuf_read, do_push,
\* do_peek).
FramesMatchRing ==
  /\ CursorsAgree(rb)
  /\ FramesContiguous
  /\ \A k \in 1 .. Len(queue) : FrameInRing(rb, offs[k], queue[k])
  /\ cpc = "data" => hdrlen = Len(queue[1])
  /\ \A p \in Producers :
       ppc[p] = "data" => HeaderAt(rb, Framed, Len(msg[p]))

\* The assert()s of rbuf_write, rbuf_read, do_peek and dynmbox_push_block hold
\* wherever they are reached.
AssertionsHold ==
  /\ \A p \in Producers :
       /\ ppc[p] = "hdr" => Len(msg[p]) + HdrSize <= rbuf_space_left(rb)
       /\ ppc[p] = "data" => Len(msg[p]) <= rbuf_space_left(rb)
  /\ cpc = "hdr" => rbuf_space_used(rb) >= HdrSize
  /\ cpc = "data" => /\ hdrlen <= max_msg_size
                     /\ rbuf_space_used(rb) >= hdrlen

\* Messages whose notification has not been taken out by pop_notify.
Unread == Len(queue) - (IF cpc \in {"hdr", "data"} THEN 1 ELSE 0)

\* Producers that have unlocked and not yet written to the pipe.
Pending == {p \in Producers : ppc[p] = "notify"}

\* Notifications sent or about to be sent, minus messages to be read.
Surplus == pipe + Cardinality(Pending) - Unread

\* No notification is lost: with a message in the ring the descriptor is
\* readable or a producer is about to make it so.  And at most one stale byte
\* per producer is ever left behind by a peek that overtook push_notify, so
\* the pipe never fills up and push_notify never fails.
NotificationBalance ==
  /\ Surplus >= 0
  /\ Surplus <= Cardinality(Producers)
  /\ Pending # {} => pipe < PipeCap

\* A consumer that peeks once each time the descriptor is readable reads
\* exactly one byte per message: readable means that a message is there
\* (the use made of it by tests/futils_test_dynmbox.c, where -EAGAIN after
\* select() is a failure).
ReadableMeansMessage == Readable /\ cpc = "idle" => queue # <<>>

\* A producer blocked in dynmbox_push_block is not forgotten: once the ring is
\* empty (so that no later peek can signal it) some producer is on its way to
\* put a message in.
SleepersAreWoken ==
  Waiting # {} /\ queue = <<>> =>
    \E p \in Producers : ppc[p] \in {"lock", "hdr", "data"}

\* dynmbox.h: "it is guaranteed that an empty mailbox can queue at least one
\* message of the maximum size": a push is refused, or waits, only while
\* something is queued.
RefusedOnlyWhenOccupied ==
  [][\A p \in Producers : PushRefused(p) \/ PushWait(p) => queue # <<>>]_vars

\* The mailbox delivers whole messages in the order they were pushed.
MB == INSTANCE Mailbox WITH
        Message   <- Messages,
        open      <- life = "open",
        queue     <- queue,
        delivered <- out

\* Every step of the ring, lock and pipe is a step of the abstract queue or
\* changes nothing there (include/futils/dynmbox.h: "read atomically and in the
\* order in which they are sent").
ImplementsMailbox == MB!Spec

\* A dynmbox_push_block() with no timeout returns as long as the consumer
\* answers the descriptor and no other producer competes for the room.
BlockedPushReturns ==
  \A p \in Producers :
    ppc[p] = "wait" /\ mode[p] = "forever"
      ~> \/ ppc[p] = "idle"
         \/ \E q \in Producers \ {p} : ppc[q] # "idle"

\* As long as a message is queued the consumer comes to read another one, unless
\* the mailbox is destroyed first: no notification is lost or left unanswered,
\* and as messages leave in order each of them is delivered.
QueuedIsDelivered == queue # <<>> ~> (cpc = "data" \/ life # "open")

=============================================================================
