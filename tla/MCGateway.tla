----------------------------- MODULE MCGateway -----------------------------
(* Small instances of Gateway for TLC. *)
EXTENDS Gateway, TLC

CONSTANTS r1, r2, c1, c2, u1, u2, food

\* Two carts, each with a unit of its own, that do not fit the cap together.
MCUnitOf == [c \in Carts |-> IF c = c2 THEN u2 ELSE u1]
MCDraw == [c \in Carts |-> [k \in Cats |-> 2]]
MCCap == [k \in Cats |-> 3]
MCCartExp == [c \in Carts |-> IF c = c1 THEN 1 ELSE MaxTime + 1]
MCIntentExp == [c \in Carts |-> IF c = c1 THEN 2 ELSE 1]
MCOver == {c1}
MCStandings == {<<"pass", "pass">>, <<"hold", "pass">>}

\* What a state is told apart by: not the request that finished and committed
\* nothing, what the checks say of a cart no request waits for, the answer to a
\* finished execution that burned nothing, and the body stored for its replays,
\* which no step and no property of this run reads again.
Waits(c) == \E r \in Txns : pc[r] # "done" /\ (pc[r] = "idle" \/ cmd[r].cart = c)
Rejected(r) == pc[r] = "done" /\ state[r] = "none"
Ended(k) == call[k].pc \in {"done", "dead"} /\ k \notin {burned[t] : t \in Txns}
Seen ==
    <<now, [c \in Carts |-> IF Waits(c) THEN standing[c] ELSE None], pc,
      [r \in Txns |-> IF Rejected(r) THEN None ELSE <<cmd[r], signed[r], reply[r]>>],
      [k \in Callers |-> IF Ended(k) THEN None ELSE <<call[k].pc, call[k].what>>],
      nonce, claim, rsv, state, due, mandateExp, up, crashes, cancelledAt,
      hasOrder, burned, outcomes, timer, poll, railOrder, attempts, lapsed>>

Symmetry == Permutations(Txns) \cup Permutations(Tenants) \cup Permutations(Clients)
=============================================================================
