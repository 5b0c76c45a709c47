---------------------------- MODULE MCVerifyCart ----------------------------
(* Small instances of VerifyCart for TLC. *)
EXTENDS VerifyCart, TLC

CONSTANTS r1, r2, r3, c1, c2, c3, u1, u2, food

\* c1 and c2 want the same unit; c1 and c3 do not fit the envelope together.
MCUnitOf == [c \in Carts |-> IF c = c3 THEN u2 ELSE u1]
MCDraw == [c \in Carts |-> [k \in Cats |-> IF k = food THEN 2 ELSE 0]]
MCCap == [k \in Cats |-> 3]
\* c3 is still presentable when the reservations of c1 and c2 have lapsed.
MCCartExp == [c \in Carts |-> IF c = c3 THEN 3 ELSE 1]
MCStandings == {<<"pass", "pass">>, <<"hold", "pass">>, <<"pass", "fail">>}

Symmetry == Permutations(Reqs) \cup Permutations(Keys) \cup Permutations(Payloads)
=============================================================================
