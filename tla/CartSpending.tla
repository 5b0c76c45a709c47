---------------------------- MODULE CartSpending ----------------------------
(***************************************************************************)
(* What POST /v1/verify-cart promises about one signed cart, with no       *)
(* pipeline, no signing pause and no tables: a presentation of a cart      *)
(* either spends it, in one atomic step and at most once for ever, or ends *)
(* without spending anything.                                              *)
(***************************************************************************)

CONSTANTS
    Reqs,       \* presentations of carts, each with a transaction id of its own
    Carts,      \* signed cart mandates, by jti
    Units,      \* stock units, by the merchant's reservation id
    UnitOf,     \* the unit a cart's signed quote reserves
    None        \* "nobody yet"

VARIABLES
    spent,      \* [Carts -> Reqs \cup {None}]: the presentation that spent a cart
    held,       \* [Units -> Reqs \cup {None}]: the presentation that holds a unit
    closed      \* [Reqs -> BOOLEAN]: the presentation is over

vars == <<spent, held, closed>>

TypeOK ==
    /\ spent \in [Carts -> Reqs \cup {None}]
    /\ held \in [Units -> Reqs \cup {None}]
    /\ closed \in [Reqs -> BOOLEAN]

Init ==
    /\ spent = [c \in Carts |-> None]
    /\ held = [u \in Units |-> None]
    /\ closed = [r \in Reqs |-> FALSE]

\* The cart, its unit and the answer change hands together.
Spend(r, c) ==
    /\ ~closed[r]
    /\ spent[c] = None
    /\ held[UnitOf[c]] = None
    /\ spent' = [spent EXCEPT ![c] = r]
    /\ held' = [held EXCEPT ![UnitOf[c]] = r]
    /\ closed' = [closed EXCEPT ![r] = TRUE]

\* Presentations end with nothing spent: one is refused, replayed or told of a
\* conflict, or the process dies under all it had not answered.
Decline(rs) ==
    /\ \A r \in rs : ~closed[r]
    /\ closed' = [r \in Reqs |-> closed[r] \/ r \in rs]
    /\ UNCHANGED <<spent, held>>

Next ==
    \/ \E rs \in SUBSET Reqs : Decline(rs)
    \/ \E r \in Reqs, c \in Carts : Spend(r, c)

Spec == Init /\ [][Next]_vars
=============================================================================
