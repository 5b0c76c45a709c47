----------------------------- MODULE MCMemory -----------------------------
(***************************************************************************)
(* Small candidates for Memory: one ceiling, one flag, and every channel   *)
(* and type whose treatment differs.                                       *)
(***************************************************************************)
EXTENDS Memory

CONSTANTS cap, flag
MCCeilings == {cap}
MCFlags == {flag}

Said(type, channel, pred, val) ==
    [type |-> type, channel |-> channel, claim |-> None, sig |-> TRUE,
     pred |-> pred, val |-> val]
Write(c) == [sign |-> FALSE, todo |-> <<c>>]
Signing(todo) == [sign |-> TRUE, todo |-> todo]
Bound(pred, val) == Said("constraint", "user_signed_mandate", pred, val)

\* A fact the shopper confirms, a preference an API reports, catalog text, a
\* transcript line, and a claim to less than the channel grants.
Writes ==
    {Write(Said("fact", "user_confirmation", cap, v)) : v \in Values}
    \cup {Write(Said("preference", "verified_api", cap, 0)),
          Write(Said("fact", "untrusted_text", flag, 1)),
          Write(Said("episode", "verified_api", cap, 1)),
          Write([Said("fact", "verified_api", flag, 0) EXCEPT !.claim = 0]),
          Write([Said("fact", "verified_api", flag, 0) EXCEPT !.claim = 2])}
Signings == {Signing(<<Bound(cap, 1), Bound(flag, 1)>>), Signing(<<Bound(cap, 0)>>)}

MCBodies == Writes \cup Signings

RequestSymmetry == Permutations(Requests)

=============================================================================
