----------------------------- MODULE MCSession -----------------------------
(***************************************************************************)
(* Instance of Session for TLC: two accounts, three calls in progress at a *)
(* time, and one restart.                                                  *)
(***************************************************************************)
EXTENDS Session
==============================================================================
