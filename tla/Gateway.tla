------------------------------ MODULE Gateway ------------------------------
(***************************************************************************)
(* The gateway process: POST /verify-cart and everything that follows a    *)
(* committed verdict, on one database, one clock and one process that may  *)
(* die.  A request of VerifyCart names the transaction Settlement moves.   *)
(***************************************************************************)
EXTENDS Settlement, FiniteSets, FiniteSetsExt

CONSTANTS
    \* Of VerifyCart, beside what Settlement has: Txns are the requests here.
    Carts, Units, Tenants, Cats, UnitOf, Draw, Cap, Declared, HumanPresent,
    CartExp, Grace, Standings,
    MandateTtl,     \* PAYMENT_MANDATE_TTL_SECONDS, in clock ticks
    HoldTime,       \* hold_seconds of the cool-off rule, in clock ticks
    Over,           \* the carts whose total reaches that rule's threshold
    IntentExp       \* [Carts -> Nat]: the intent's exp

GatewayData ==
    /\ MandateTtl \in Nat /\ HoldTime \in Nat
    /\ Over \subseteq Carts /\ IntentExp \in [Carts -> Nat]
    /\ UnitOf \in [Carts -> Units]
    /\ Draw \in [Carts -> [Cats -> Nat]] /\ Cap \in [Cats -> Nat]
    /\ CartExp \in [Carts -> Nat] /\ Grace \in Nat
    /\ Declared \subseteq Cats /\ IsFiniteSet(Cats)

ASSUME GatewayTimes == GatewayData

VARIABLES
    standing, pc, cmd, signed, reply, nonce, claim,
    lapsed          \* the reservations that stopped counting while they were
                    \* open; history, read by no action

V == INSTANCE VerifyCart WITH Reqs <- Txns, txn <- state

verifyOnly == <<standing, cmd, signed, reply, nonce, claim>>
settleOnly == <<up, crashes, cancelledAt, hasOrder, burned, stored, outcomes,
                timer, call, poll, railOrder, attempts>>
gatewayVars == <<now, verifyOnly, pc, rsv, state, due, mandateExp, settleOnly, lapsed>>

GatewayInit ==
    /\ V!Init
    /\ Quiet
    /\ due = [r \in Txns |-> 0]
    /\ mandateExp = [r \in Txns |-> 0]
    /\ lapsed = {}

\* The mandate's exp is fixed when it is signed.
Sign(r) ==
    mandateExp' = IF pc'[r] = "signing" /\ pc[r] # "signing"
                  THEN [mandateExp EXCEPT ![r] = now + MandateTtl] ELSE mandateExp

\* Of the checks that are not spelled out only the risk review holds.
Reviewed(r) == signed[r][3][2] = "hold"

Wait(c) == IF c \in Over THEN HoldTime ELSE 0

Later(a, b) == IF a < b THEN b ELSE a
Sooner(a, b) == IF a < b THEN a ELSE b

\* The ends of the forbidden hours that may be running: none, when the rule
\* alone asks for the hold; and a window the intent does not outlive refuses.
BlackoutEnds(c) == (IF c \in Over THEN {0} ELSE {}) \cup (now + 1)..IntentExp[c]

\* holdUntilOf: the executes_at of the first check that holds. A review comes
\* before the cool-off and asks for no time; the cool-off asks for the later of
\* rule and window, clamped to the intent's exp, before which alone it holds.
HoldEnds(r) ==
    LET c == cmd[r].cart IN
    IF Reviewed(r) THEN {now}
    ELSE {Sooner(Later(now + Wait(c), b), IntentExp[c]) :
            b \in IF now < IntentExp[c] THEN BlackoutEnds(c) ELSE {}}

\* cooloff_until is fixed when the row is opened. Nothing arms a timer.
Park(r) ==
    IF state'[r] = "pending_cooloff" /\ state[r] = "none"
    THEN \E end \in HoldEnds(r) : due' = [due EXCEPT ![r] = end]
    ELSE due' = due

Verify(r) ==
    /\ up
    /\ V!Step(r)
    /\ Sign(r) /\ Park(r)
    /\ UNCHANGED settleOnly

Drift(c) == V!Drift(c) /\ UNCHANGED <<due, mandateExp, settleOnly>>

\* When the process dies, so do the verifications suspended in it.
Forget ==
    pc' = [r \in Txns |->
             IF up /\ ~up' /\ pc[r] \in {"risk", "signing"} THEN "done" ELSE pc[r]]

SettleStep == Next /\ Forget /\ UNCHANGED verifyOnly

\* Spend windows count an open reservation until it expires.
Lapse ==
    lapsed' = lapsed \cup {r \in Txns : rsv'[r] = "open"
                                         /\ V!ExpiresAt(cmd'[r].cart) <= now'}

GatewayNext ==
    /\ \/ \E r \in Txns : Verify(r)
       \/ \E c \in Carts : Drift(c)
       \/ SettleStep
    /\ Lapse

GatewaySpec == GatewayInit /\ [][GatewayNext]_gatewayVars

-----------------------------------------------------------------------------
(* Properties.                                                              *)

\* Capacity that a purchase no longer holds although it may still be paid:
\* released by a failed attempt or by a cancel that was undone, or lapsed.
GivenBack(r) == rsv[r] = "released" \/ r \in lapsed

\* What customers were charged in a category out of capacity they held.
Charged(k) ==
    MapThenSumSet(LAMBDA r : Draw[cmd[r].cart][k],
                  {r \in Txns : Contains(attempts[r], "captured") /\ ~GivenBack(r)})

\* The money taken stays within the cap the user signed, but for charges to
\* purchases whose capacity was given back: those the code lets past the cap
\* (envelope-reservations.ts, cooloff-transitions.ts:77, spend-window.ts:50), and
\* no others, nor do they make room for others.
ChargedWithinCap == \A k \in Declared : Charged(k) <= Cap[k]

\* One rail order per signed cart and per stock unit, behind a verdict that was
\* answered yes and a mandate without a failed seal, whatever was concurrent.
OrderedOnceAndVerified ==
    \A r \in Txns : railOrder[r] =>
        /\ V!DecisionOf(signed[r]) = reply[r].decision
        /\ reply[r].decision \in {"approve", "hold"}
        /\ nonce[cmd[r].cart] = r
        /\ claim[UnitOf[cmd[r].cart]] = r

\* When the credential was signed, which is before the row was opened.
SignedAt(r) == mandateExp[r] - MandateTtl

\* A hold too long for setTimeout.
TooLong(r) == due[r] - SignedAt(r) > MaxDelay

\* A hold that a timer can wait for is served before the rail hears of it, and
\* without a review it is as long as the rule asks or as the intent lasts
\* (cooloff-check.ts:65, verify-cart-rejection.ts:8, cooloff-scheduler.ts:63).
HoldServedBeforeOrder ==
    \A r \in Txns :
        railOrder[r] /\ V!DecisionOf(signed[r]) = "hold" /\ ~TooLong(r) =>
            /\ now >= due[r]
            /\ ~Reviewed(r) => due[r] >= Sooner(SignedAt(r) + Wait(cmd[r].cart),
                                               IntentExp[cmd[r].cart])
=============================================================================
