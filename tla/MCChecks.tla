------------------------------ MODULE MCChecks ------------------------------
(* Small instances of Checks for TLC. *)
EXTENDS Checks

\* None, hours inside one day, and hours across midnight.
MCHours == {None, [from |-> 1, to |-> 3], [from |-> 3, to |-> 1]}
MCFloors == {None, 0, 1, 2, 3, 4}
=============================================================================
