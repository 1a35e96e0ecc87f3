----------------------------- MODULE MCMboxWin -----------------------------
(* For checking MboxWin with TLC; the constants are given in the cfg.      *)
EXTENDS MboxWin
=============================================================================
