---------------------------- MODULE MCSettlement ----------------------------
(* Small instances of Settlement for TLC. *)
EXTENDS Settlement

CONSTANTS Dues, Exps

Init == InitWith(Dues, Exps)
Spec == Init /\ [][Next]_vars
FairSpec == Spec /\ Fairness
=============================================================================
