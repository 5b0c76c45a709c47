------------------------------- MODULE Checks -------------------------------
(***************************************************************************)
(* The checks of POST /verify-cart that read the clock and the merchant's  *)
(* price band, from the listing a shopper reads to the verdict: the turn's *)
(* shelf, the one ask, the signed quote and its memory entry, the floor a  *)
(* merchant may move meanwhile, and the hold the covenant orders.  The     *)
(* pipeline runs before the payment mandate is signed and again inside the *)
(* write transaction.  One user, one SKU, carts of one line; VerifyCart    *)
(* has nonces, envelopes and stock, and calls all of this "standing".      *)
(***************************************************************************)
EXTENDS Integers, Sequences, FiniteSets, FiniteSetsExt, SequencesExt

CONSTANTS
    Carts,
    List,           \* the listed price; Prices are what a line may ask
    Prices,
    FloorCommands,  \* what PUT /v1/merchant/items/:id/floor is sent
    Day, Offset,    \* clock ticks in a day; the zone's offset from UTC
    Hours,          \* blackout hours a covenant may declare
    Holds,          \* hold_seconds a covenant may declare, in ticks
    Expiries,       \* the intent's exp
    Caps,           \* allowance.max_amount
    Threshold,      \* the cool-off rule's threshold_paise
    QuoteTtl,
    Drips,          \* price of a line minus the quoted one
    Reviews,        \* whether the signed risk signals ask for manual_review
    Tiers,          \* the tier the memory gate gives the quote's attestation
    MaxTime, MaxFloors, None

ASSUME CalendarIsReal == Day \in Nat \ {0} /\ Offset \in Nat
ASSUME HoursAreLocal == \A h \in Hours \ {None} : h.from \in 0 .. Day - 1
                                                 /\ h.to \in 0 .. Day - 1

VARIABLES
    now,
    covenant,   \* the signed intent: [cap, exp, hold, hours]
    floor,      \* the row of sku_price_floors, or None
    log,        \* the ledger's events of this SKU, in append order
    pc, shelf, quote, cart, signed, verdict

vars == <<now, covenant, floor, log, pc, shelf, quote, cart, signed, verdict>>
shopping == <<pc, shelf, quote, cart, signed, verdict>>

Covenants == [cap: Caps, exp: Expiries, hold: Holds \cup {None}, hours: Hours]
Seals == {"pass", "hold", "fail"}
Stages == {"idle", "shopping", "quoted", "presented", "signing", "done"}

ASSUME AmountsAreWhole ==
    /\ {List, Threshold, QuoteTtl} \subseteq Int /\ MaxTime \in Nat
    /\ Expiries \subseteq Nat /\ Holds \subseteq Nat
    /\ FloorCommands \ {None} \subseteq Int
    /\ None \notin Int /\ None \notin [1 .. 4 -> Seals]

TypeOK ==
    /\ now \in 0 .. MaxTime
    /\ covenant \in Covenants
    /\ floor \in Prices \cup {None}
    /\ Len(log) <= MaxFloors + 2 * Cardinality(Carts)
    /\ pc \in [Carts -> Stages]
    /\ \A c \in Carts : signed[c] = None \/ signed[c] \in [1 .. 4 -> Seals]

-----------------------------------------------------------------------------
(* Blackout hours (blackout-window.ts) and the cool-off check.              *)

Minute(t) == (t + Offset) % Day
DayStart(t) == t + Offset - Minute(t)

Inside(m, h) ==
    IF h.from < h.to THEN m >= h.from /\ m < h.to ELSE m >= h.from \/ m < h.to

\* Mutant: a wrapping window always ends tomorrow.
WindowEndTomorrow(t, h) ==
    LET wraps == h.from >= h.to IN
    DayStart(t) + (IF wraps THEN Day ELSE 0) + h.to - Offset

\* ends_at: a wrapping window that t sits in the tail of started yesterday.
WindowEnd(t, h) ==
    LET wraps == h.from >= h.to
        inTail == wraps /\ Minute(t) < h.to
    IN DayStart(t) - (IF inTail THEN Day ELSE 0) + (IF wraps THEN Day ELSE 0)
       + h.to - Offset

\* activeBlackout: the end of the window t is in, 0 when it is in none.
BlackoutEnd(t, h) == IF h # None /\ Inside(Minute(t), h) THEN WindowEnd(t, h) ELSE 0

OverThreshold(price, cov) == cov.hold # None /\ price >= Threshold

\* holdSeconds: None when no hold is owed.
HoldSeconds(price, cov, t) ==
    IF OverThreshold(price, cov) THEN cov.hold
    ELSE IF BlackoutEnd(t, cov.hours) = 0 THEN None ELSE 0

HoldUntil(price, cov, t) ==
    Max({t + HoldSeconds(price, cov, t), BlackoutEnd(t, cov.hours)})

\* Mutant: a hold past the intent's expiry is refused, as it once was (E14).
SchedulableOrRefuse(until, cov, t) ==
    IF cov.exp <= t \/ until > cov.exp THEN None ELSE until

\* The instant the hold may mature: clamped to the expiry, None when the
\* intent is spent or the blackout outlives it.
Schedulable(until, cov, t) ==
    IF cov.exp <= t \/ BlackoutEnd(t, cov.hours) > cov.exp THEN None
    ELSE Min({until, cov.exp})

CooloffSeal(price, cov, t) ==
    IF HoldSeconds(price, cov, t) = None THEN "pass"
    ELSE IF Schedulable(HoldUntil(price, cov, t), cov, t) = None THEN "fail"
    ELSE "hold"

-----------------------------------------------------------------------------
(* The other checks that move with the clock, the row or the memory.        *)

\* intent-bounds: the cap and the expiry.
BoundsSeal(x, cov, t) ==
    IF x.price <= cov.cap /\ t < cov.exp THEN "pass" ELSE "fail"

\* risk-data: a review is a hold with a zero-second marker.
RiskSeal(x) == IF x.review THEN "hold" ELSE "pass"

\* clearsFloor: no row, no bound.
AboveFloor(x) == floor = None \/ x.price >= floor

\* quote-match: a quote of tier 2 under this jti, the exact total, the floor,
\* and the quote still live.
QuoteSeal(x, q, t) ==
    IF q.tier >= 2 /\ x.price = q.unit /\ AboveFloor(x) /\ t < q.expiry
    THEN "pass" ELSE "fail"

\* VerdictEngine: every check runs; seals in pipeline order.
SealsNow(c) ==
    <<BoundsSeal(cart[c], covenant, now), RiskSeal(cart[c]),
      QuoteSeal(cart[c], quote[c], now), CooloffSeal(cart[c].price, covenant, now)>>

Decision(seals) ==
    IF Contains(seals, "fail") THEN "reject"
    ELSE IF Contains(seals, "hold") THEN "hold" ELSE "approve"

\* holdUntilOf reads executes_at off the headline: the first hold in pipeline
\* order, which is the risk check's zero-second marker when both hold.
ExecutesAt(c, seals) ==
    IF Decision(seals) # "hold" THEN None
    ELSE IF seals[2] = "hold" THEN now
    ELSE Schedulable(HoldUntil(cart[c].price, covenant, now), covenant, now)

-----------------------------------------------------------------------------
(* Actions.                                                                 *)

Init ==
    /\ now = 0
    /\ covenant \in Covenants
    /\ floor = None
    /\ log = <<>>
    /\ pc = [c \in Carts |-> "idle"]
    /\ shelf = [c \in Carts |-> None]
    /\ quote = [c \in Carts |-> None]
    /\ cart = [c \in Carts |-> None]
    /\ signed = [c \in Carts |-> None]
    /\ verdict = [c \in Carts |-> None]

FloorEvents == {i \in DOMAIN log : log[i].kind = "floor"}

\* PriceFloorService.apply: one transaction, the event and the row. A floor
\* under one unit or above the listing is refused and leaves no trace.
SetFloor ==
    /\ Cardinality(FloorEvents) < MaxFloors
    /\ \E f \in FloorCommands :
        /\ f # None => f >= 1 /\ f <= List
        /\ floor' = f
        /\ log' = Append(log, [kind |-> "floor", cart |-> None, floor |-> f])
    /\ UNCHANGED <<now, covenant, shopping>>

\* TurnShelf.open: one read of the shelf serves the whole turn. A row without
\* a floor reports its list price as its floor.
ReadShelf(c) ==
    /\ pc[c] = "idle"
    /\ pc' = [pc EXCEPT ![c] = "shopping"]
    /\ shelf' = [shelf EXCEPT ![c] = IF floor = None THEN List ELSE floor]
    /\ UNCHANGED <<now, covenant, floor, log, quote, cart, signed, verdict>>

\* askUnitPaise, for one unit: as much discount as the cap needs, or no ask.
Ask(floorSeen) ==
    IF List <= covenant.cap \/ covenant.cap < floorSeen THEN None ELSE covenant.cap

\* clampUnit: an ask is answered between the floor and the list.
Clamp(floorSeen, target) ==
    IF target = None THEN List ELSE Max({floorSeen, Min({List, target})})

\* QuoteTool.quote, signed, and remembered as an attestation.
Quote(c) ==
    /\ pc[c] = "shopping"
    /\ pc' = [pc EXCEPT ![c] = "quoted"]
    /\ \E tier \in Tiers :
        quote' = [quote EXCEPT ![c] =
                    [unit |-> Clamp(shelf[c], Ask(shelf[c])),
                     expiry |-> now + QuoteTtl, tier |-> tier]]
    /\ UNCHANGED <<now, covenant, floor, log, shelf, cart, signed, verdict>>

\* The cart reaches the gateway, with the price the merchant put in it, and
\* suspends on its risk facts.
Present(c) ==
    /\ pc[c] = "quoted"
    /\ pc' = [pc EXCEPT ![c] = "presented"]
    /\ \E drip \in Drips, review \in Reviews :
        cart' = [cart EXCEPT ![c] = [price |-> quote[c].unit + drip, review |-> review]]
    /\ UNCHANGED <<now, covenant, floor, log, shelf, quote, signed, verdict>>

\* What the caller is told, with the seals and the instant it was told at.
Answer(c, seals, committed) ==
    /\ pc' = [pc EXCEPT ![c] = "done"]
    /\ verdict' = [verdict EXCEPT ![c] =
                     [committed |-> committed, seals |-> seals, at |-> now,
                      until |-> ExecutesAt(c, seals)]]

\* The evaluation before the write transaction: a reject answers at once,
\* anything else awaits the payment mandate's signature.
Evaluate(c) ==
    LET seals == SealsNow(c) IN
    /\ pc[c] = "presented"
    /\ \/ /\ Decision(seals) = "reject"
          /\ Answer(c, seals, FALSE)
          /\ UNCHANGED signed
       \/ /\ Decision(seals) # "reject"
          /\ pc' = [pc EXCEPT ![c] = "signing"]
          /\ signed' = [signed EXCEPT ![c] = seals]
          /\ UNCHANGED verdict
    /\ UNCHANGED <<now, covenant, floor, log, shelf, quote, cart>>

\* negotiationPayload: a row only where a declared band did something.
Negotiation(c) ==
    IF floor # None /\ cart[c].price < List
    THEN <<[kind |-> "negotiation", cart |-> c, floor |-> floor]>> ELSE <<>>

\* Mutant: the transaction trusts the seals computed before the signature.
CommitSigned(c) ==
    LET seals == signed[c] IN
    /\ pc[c] = "signing"
    /\ log' = log \o <<[kind |-> "verdict", cart |-> c, floor |-> None]>>
                  \o Negotiation(c)
    /\ Answer(c, seals, TRUE)
    /\ UNCHANGED <<now, covenant, floor, shelf, quote, cart, signed>>

\* The write transaction: the pipeline again, and the seals must be the ones
\* the mandate carries.
Commit(c) ==
    LET seals == SealsNow(c) IN
    /\ pc[c] = "signing"
    /\ \/ /\ Decision(seals) = "reject" \/ seals # signed[c]
          /\ Answer(c, seals, FALSE)
          /\ UNCHANGED log
       \/ /\ Decision(seals) # "reject" /\ seals = signed[c]
          /\ log' = log \o <<[kind |-> "verdict", cart |-> c, floor |-> None]>>
                        \o Negotiation(c)
          /\ Answer(c, seals, TRUE)
    /\ UNCHANGED <<now, covenant, floor, shelf, quote, cart, signed>>

Tick ==
    /\ now < MaxTime
    /\ now' = now + 1
    /\ UNCHANGED <<covenant, floor, log, shopping>>

Shop(c) == ReadShelf(c) \/ Quote(c) \/ Present(c) \/ Evaluate(c) \/ Commit(c)

Next == SetFloor \/ Tick \/ \E c \in Carts : Shop(c)

Spec == Init /\ [][Next]_vars

-----------------------------------------------------------------------------
(* Properties.                                                              *)

\* The floor in force before the i-th event, by the ledger alone.
FloorAt(i) ==
    LET earlier == {j \in FloorEvents : j < i} IN
    IF earlier = {} THEN None ELSE log[Max(earlier)].floor

\* Read from the ledger alone, every sale is inside the band its merchant had
\* declared by then, at the exact price the merchant attested, before that
\* quote ran out, and is followed by its negotiation row exactly when the band
\* lowered the price - though the shelf, the quote, the first evaluation and
\* the commit each read the floor at another time (verify-cart-service.ts
\* commit, quote-match-check.ts, price-floor-service.ts, negotiation-record.ts).
SoldWithinTheBand ==
    \A i \in DOMAIN log : log[i].kind = "verdict" =>
        LET c == log[i].cart
            declared == FloorAt(i)
            lowered == declared # None /\ cart[c].price < List
            row == [kind |-> "negotiation", cart |-> c, floor |-> declared]
        IN /\ declared # None => cart[c].price >= declared
           /\ quote[c].tier >= 2 /\ cart[c].price = quote[c].unit
           /\ verdict[c].at < quote[c].expiry
           /\ lowered <=> (i < Len(log) /\ log[i + 1] = row)

\* The hours the user forbade, counted minute by minute from their start.
Forbidden(t) ==
    /\ covenant.hours # None
    /\ \E k \in 0 .. (covenant.hours.to - covenant.hours.from - 1) % Day :
        Minute(t) = (covenant.hours.from + k) % Day

\* The instants up to the expiry by which the forbidden stretch t is in is over.
Free(t) == {u \in t .. covenant.exp : \E w \in t .. u : ~Forbidden(w)}

\* What a verdict at t owes: the rule's wait, and the end of the stretch.
Owed(price, t) ==
    {u \in Free(t) : OverThreshold(price, covenant) => u >= t + covenant.hold}

\* A purchase parked for the covenant's own sake is parked until the first
\* instant that serves the rule and the forbidden hours, or the expiry when
\* that comes first - and never past it (cooloff-check.ts, blackout-window.ts).
HeldForTheCovenant ==
    \A c \in Carts :
        LET v == verdict[c]
            owed == Owed(cart[c].price, v.at)
        IN v # None /\ v.committed /\ v.seals[4] = "hold" /\ v.seals[2] = "pass" =>
             /\ v.until \in Free(v.at)
             /\ v.until = IF owed = {} THEN covenant.exp ELSE Min(owed)

\* A cart that is attested, in its band, in time and within the cap is turned
\* away only when no instant is left that the covenant allows, or because its
\* verdict changed while the mandate was being signed (cooloff-check.ts E14).
RefusedForAReason ==
    \A c \in Carts :
        LET v == verdict[c] IN
        v # None /\ ~v.committed
        /\ v.seals[1] = "pass" /\ v.seals[3] = "pass"
        /\ (signed[c] = None \/ signed[c] = v.seals) => Free(v.at) = {}
=============================================================================
