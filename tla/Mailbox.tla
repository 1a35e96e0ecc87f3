------------------------------ MODULE Mailbox ------------------------------
(***************************************************************************)
(* What include/futils/dynmbox.h promises of a mailbox: "the messages will *)
(* be read atomically and in the order in which they are sent".  The       *)
(* mailbox is an unbounded queue of whole messages; nothing is said of     *)
(* bytes, locks or notifications.  Dynmbox is shown to implement it.       *)
(***************************************************************************)
EXTENDS Sequences

CONSTANT Message        \* the messages that may be sent

VARIABLES open,         \* whether the mailbox exists
          queue,        \* messages pushed and not yet read, oldest first
          delivered     \* the last message a reader got

vars == <<open, queue, delivered>>

Init == /\ open = FALSE
        /\ queue = <<>>
        /\ delivered = <<>>

\* dynmbox_new
Create == /\ ~open
          /\ open' = TRUE
          /\ UNCHANGED <<queue, delivered>>

\* A push that returns 0.
Push(m) == /\ open
           /\ queue' = Append(queue, m)
           /\ UNCHANGED <<open, delivered>>

\* A peek that returns a length.
Pop == /\ open
       /\ queue # <<>>
       /\ delivered' = Head(queue)
       /\ queue' = Tail(queue)
       /\ UNCHANGED open

\* dynmbox_destroy drops what is queued: the only way to lose a message.
Destroy == /\ open
           /\ open' = FALSE
           /\ queue' = <<>>
           /\ UNCHANGED delivered

Next == \/ Create
        \/ \E m \in Message : Push(m)
        \/ Pop
        \/ Destroy

Spec == Init /\ [][Next]_vars

=============================================================================
