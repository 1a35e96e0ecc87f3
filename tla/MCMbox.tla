------------------------------- MODULE MCMbox -------------------------------
(* Constants for checking Mbox with TLC.                                   *)
EXTENDS Mbox

\* Messages of each size, told apart by their bytes, one of more than PIPE_BUF.
MCMessages == { <<1, 2>>, <<3, 4>>, <<5, 6, 7>>, <<1, 2, 3, 4, 5>> }
=============================================================================
