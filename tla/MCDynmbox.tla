----------------------------- MODULE MCDynmbox -----------------------------
(* Constants for checking Dynmbox with TLC.                                *)
EXTENDS Dynmbox

\* A zero-length message, short ones with different bytes, one that fills the
\* mailbox, and one that is too long for it.
MCMessages == { <<>>, <<7>>, <<8, 9>>, <<1, 2, 3, 4, 5>>, <<1, 2, 3, 4, 5, 6>> }

\* Two different messages that fit together, and one that fills the ring.
MCMessagesPair == { <<>>, <<7>>, <<1, 2, 3, 4, 5>> }

\* Two empty messages fill the ring, and so does the long one alone.
MCMessagesTight == { <<>>, <<1, 2, 3, 4>> }
=============================================================================
