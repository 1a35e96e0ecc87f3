------------------------------- MODULE MCHash -------------------------------
(* Constants for checking Hash with TLC.                                   *)
EXTENDS Hash

Symmetry == Permutations(Cells) \cup Permutations(Data)
=============================================================================
