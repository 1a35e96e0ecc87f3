---------------------------- MODULE MCRandomPool ----------------------------
(* Constants for checking RandomPool with TLC.                             *)
EXTENDS RandomPool

Symmetry == Permutations(Threads)
=============================================================================
