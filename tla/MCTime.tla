------------------------------- MODULE MCTime -------------------------------
(* Constants for checking Timetools with TLC.                              *)
EXTENDS Timetools

MCDeltas == {-SEC - 1, -SEC, -1, 0, 1, SEC - 1, SEC, SEC + 1, -K, K * K}
=============================================================================
