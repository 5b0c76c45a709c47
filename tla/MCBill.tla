------------------------------- MODULE MCBill -------------------------------
(* One conversation, with the bounds of its configurations.                 *)
EXTENDS Bill, TLC
=============================================================================
