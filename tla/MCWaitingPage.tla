---------------------------- MODULE MCWaitingPage ----------------------------
(* Small instances of WaitingPage for TLC. *)
EXTENDS WaitingPage, TLC
=============================================================================
