------------------------------ MODULE MCSafew ------------------------------
(* Constants for checking Safew with TLC.                                  *)
EXTENDS Safew

\* Everywhere a program can be interrupted.
Anywhere == Pcs \ {"down"}
=============================================================================
