----------------------------- MODULE VerifyCart -----------------------------
(***************************************************************************)
(* POST /v1/verify-cart: VerifyCartService, the part of the verdict        *)
(* pipeline that reads rows other requests write (nonce and envelope), the *)
(* commit inside the ledger transaction and the rows it leaves behind.     *)
(*                                                                         *)
(* Node runs one synchronous segment at a time, so an action is a segment  *)
(* between two awaits: everything VerifyCartService reads before `await    *)
(* mandates.issue` may be stale when the write transaction opens.          *)
(***************************************************************************)
EXTENDS Integers, FiniteSets, FiniteSetsExt

CONSTANTS
    Reqs,           \* requests; a request also names the txn id it mints
    Carts,          \* cart mandate jtis
    Units,          \* merchant-minted reservation ids
    Tenants, Keys, Payloads,    \* tenant, Idempotency-Key, payload hash
    Cats,           \* spending categories
    UnitOf,         \* [Carts -> Units]: quote.reservation_id
    Draw,           \* [Carts -> [Cats -> Nat]]: the cart total per category
    Cap,            \* [Cats -> Nat]: cap_paise of a declared envelope
    Declared,       \* the categories the intent declares an envelope for
    HumanPresent,   \* the carts whose intent says human_present
    CartExp,        \* [Carts -> Nat]: the cart mandate's exp
    Grace,          \* RESERVATION_GRACE_SECONDS, in clock ticks
    Standings,      \* the <<cool-off, other>> outcomes the environment may cause
    MaxTime,        \* bound on the clock
    None

Seals == {"pass", "hold", "fail"}

ASSUME NoneIsNobody == None \notin Reqs
ASSUME StaticData ==
    /\ UnitOf \in [Carts -> Units]
    /\ Draw \in [Carts -> [Cats -> Nat]]
    /\ Cap \in [Cats -> Nat]
    /\ CartExp \in [Carts -> Nat]
    /\ Grace \in Nat
    /\ MaxTime \in Nat
    /\ Declared \subseteq Cats
    /\ IsFiniteSet(Cats)
    /\ Standings \subseteq Seals \X Seals

Commands == [cart: Carts, tenant: Tenants, key: Keys, payload: Payloads]

VARIABLES
    now,        \* the clock
    standing,   \* [Carts -> Standings]: what the six checks not spelled out say now
    pc,         \* [Reqs -> ...]: where the request's handler is suspended
    cmd,        \* [Reqs -> Commands \cup {None}]: what was presented
    signed,     \* [Reqs -> seal triple]: the seals inside the signed mandate
    reply,      \* [Reqs -> Replies]: the answer on the wire
    nonce,      \* [Carts -> Reqs \cup {None}]: nonces row, purpose cart_verify
    claim,      \* [Units -> Reqs \cup {None}]: stock_reservations row
    rsv,        \* [Reqs -> envelope_reservations row state]
    txn         \* [Reqs -> transactions row state]

rows == <<nonce, claim, rsv, txn>>
vars == <<now, standing, pc, cmd, signed, reply, rows>>

Verdict(d) == [kind |-> "verdict", decision |-> d]
NoReply == [kind |-> "none", decision |-> "none"]
Decisions == {"approve", "hold", "reject"}
Replies == {NoReply, [kind |-> "conflict", decision |-> "none"]}
             \cup [kind: {"verdict", "replay"}, decision: Decisions]

TypeOK ==
    /\ now \in Nat
    /\ standing \in [Carts -> Standings]
    /\ pc \in [Reqs -> {"idle", "risk", "signing", "done"}]
    /\ cmd \in [Reqs -> Commands \cup {None}]
    /\ signed \in [Reqs -> (Seals \X Seals \X (Seals \X Seals)) \cup {None}]
    /\ reply \in [Reqs -> Replies]
    /\ nonce \in [Carts -> Reqs \cup {None}]
    /\ claim \in [Units -> Reqs \cup {None}]
    /\ rsv \in [Reqs -> {"none", "open", "captured", "released"}]
    /\ txn \in [Reqs -> {"none", "approved", "pending_cooloff"}]

-----------------------------------------------------------------------------
(* The spend window (SpendWindow, domain/envelope) and the envelope check.  *)

\* Categories the cart's lines name.
CatsOf(c) == {k \in Cats : Draw[c][k] > 0}

Total(c) == MapThenSumSet(LAMBDA k : Draw[c][k], Cats)

\* The one category the whole total is reserved against: `UNIQUE(txn_id)`
\* leaves room for a single row per transaction.
DominantCategory(c) ==
    CHOOSE k \in Cats : \A j \in Cats : Draw[c][j] <= Draw[c][k]

ExpiresAt(c) == CartExp[c] + Grace

\* Captured rows, and open rows that have not expired.
Counted(r) ==
    \/ rsv[r] = "captured"
    \/ rsv[r] = "open" /\ ExpiresAt(cmd[r].cart) > now

\* committedPaise + openReservedPaise of one category.
Drawn(k) ==
    MapThenSumSet(LAMBDA r : Total(cmd[r].cart),
                  {r \in Reqs : Counted(r) /\ DominantCategory(cmd[r].cart) = k})

DrawFits(c, k) == Draw[c][k] <= Cap[k] - Drawn(k)

EnvelopeSeal(c) ==
    IF /\ c \in HumanPresent \/ CatsOf(c) \subseteq Declared
       /\ \A k \in CatsOf(c) \cap Declared : DrawFits(c, k)
    THEN "pass" ELSE "fail"

\* Advisory: the row, not the presenter, decides.
NonceSeal(c) == IF nonce[c] = None THEN "pass" ELSE "fail"

\* VerdictPipeline.evaluate, as the seals it stamps.
SealsNow(c) == <<NonceSeal(c), EnvelopeSeal(c), standing[c]>>

DecisionOf(seals) ==
    LET all == {seals[1], seals[2], seals[3][1], seals[3][2]}
    IN  IF "fail" \in all THEN "reject"
        ELSE IF "hold" \in all THEN "hold" ELSE "approve"

-----------------------------------------------------------------------------
Init ==
    /\ now = 0
    /\ standing \in [Carts -> Standings]
    /\ pc = [r \in Reqs |-> "idle"]
    /\ cmd = [r \in Reqs |-> None]
    /\ signed = [r \in Reqs |-> None]
    /\ reply = [r \in Reqs |-> NoReply]
    /\ nonce = [c \in Carts |-> None]
    /\ claim = [u \in Units |-> None]
    /\ rsv = [r \in Reqs |-> "none"]
    /\ txn = [r \in Reqs |-> "none"]

Answer(r, a) ==
    /\ reply' = [reply EXCEPT ![r] = a]
    /\ pc' = [pc EXCEPT ![r] = "done"]

\* Mutant: the payload hash is not compared.
IdempotencyByKey(x) ==
    LET holder == nonce[x.cart] IN
    IF holder = None THEN "fresh"
    ELSE IF cmd[holder].tenant # x.tenant \/ cmd[holder].key # x.key THEN "burned"
    ELSE "replay"

\* resolveIdempotency: the four states of a stored burn against a presentation.
Idempotency(x) ==
    LET holder == nonce[x.cart] IN
    IF holder = None THEN "fresh"
    ELSE IF cmd[holder].tenant # x.tenant \/ cmd[holder].key # x.key THEN "burned"
    ELSE IF cmd[holder].payload # x.payload THEN "conflict"
    ELSE "replay"

\* `await chain.verifyChain` failed: an answer with no seals, and no row.
StageZero(r) ==
    /\ pc[r] = "idle"
    /\ Answer(r, Verdict("reject"))
    /\ UNCHANGED <<now, standing, cmd, signed, rows>>

\* The chain verified (exp is hard), then replayOf in the same segment.
Present(r) ==
    /\ pc[r] = "idle"
    /\ \E x \in Commands :
        /\ now < CartExp[x.cart]
        /\ cmd' = [cmd EXCEPT ![r] = x]
        /\ \/ /\ Idempotency(x) = "replay"
              /\ Answer(r, [kind |-> "replay",
                            decision |-> reply[nonce[x.cart]].decision])
           \/ /\ Idempotency(x) = "conflict"
              /\ Answer(r, [kind |-> "conflict", decision |-> "none"])
           \/ /\ Idempotency(x) \in {"fresh", "burned"}
              /\ pc' = [pc EXCEPT ![r] = "risk"]
              /\ UNCHANGED reply
    /\ UNCHANGED <<now, standing, signed, rows>>

\* Risk facts arrived. A rejecting run opens the write transaction at once and
\* answers; any other run is first signed, and signing is an await.
Evaluate(r) ==
    LET seals == SealsNow(cmd[r].cart) IN
    /\ pc[r] = "risk"
    /\ \/ /\ DecisionOf(seals) = "reject"
          /\ Answer(r, Verdict("reject"))
          /\ UNCHANGED signed
       \/ /\ DecisionOf(seals) # "reject"
          /\ pc' = [pc EXCEPT ![r] = "signing"]
          /\ signed' = [signed EXCEPT ![r] = seals]
          /\ UNCHANGED reply
    /\ UNCHANGED <<now, standing, cmd, rows>>

\* ux_nonces_idem: (tenant, purpose, idempotency_key).
KeyTaken(r) ==
    \E c \in Carts : /\ nonce[c] # None
                     /\ cmd[nonce[c]].tenant = cmd[r].tenant
                     /\ cmd[nonce[c]].key = cmd[r].key

\* Mutant: a claimed unit may be claimed again.
ConflictOnNonceOnly(r) == nonce[cmd[r].cart] # None \/ KeyTaken(r)

\* The constraint that aborts VerifyCartCommitter's savepoint, if one does.
Conflict(r) ==
    LET c == cmd[r].cart IN
    \/ claim[UnitOf[c]] # None
    \/ nonce[c] # None
    \/ KeyTaken(r)

\* Mutant: the reservation is forgotten.
WriteAllUnreserved(r, d) ==
    LET c == cmd[r].cart IN
    /\ claim' = [claim EXCEPT ![UnitOf[c]] = r]
    /\ txn' = [txn EXCEPT ![r] = IF d = "hold" THEN "pending_cooloff" ELSE "approved"]
    /\ nonce' = [nonce EXCEPT ![c] = r]
    /\ UNCHANGED rsv

\* VerifyCartCommitter.writeAll.
WriteAll(r, d) ==
    LET c == cmd[r].cart IN
    /\ claim' = [claim EXCEPT ![UnitOf[c]] = r]
    /\ rsv' = [rsv EXCEPT ![r] = "open"]
    /\ txn' = [txn EXCEPT ![r] = IF d = "hold" THEN "pending_cooloff" ELSE "approved"]
    /\ nonce' = [nonce EXCEPT ![c] = r]

\* The commit refuses: a fresh reject, seals the credential does not carry (the
\* answer repeats the fresh decision), or a constraint (a seal turns to fail).
Refusal(r) ==
    LET seals == SealsNow(cmd[r].cart) IN
    \/ /\ DecisionOf(seals) = "reject" \/ signed[r] # seals
       /\ Answer(r, Verdict(DecisionOf(seals)))
    \/ /\ DecisionOf(seals) # "reject" /\ signed[r] = seals
       /\ Conflict(r)
       /\ Answer(r, Verdict("reject"))

\* Mutants of the write transaction: it trusts the seals computed before the
\* await; it does that and upserts; it does not compare the fresh seals with
\* the signed ones.
CommitStale(r) ==
    LET d == DecisionOf(signed[r]) IN
    /\ pc[r] = "signing"
    /\ \/ Conflict(r) /\ Answer(r, Verdict("reject")) /\ UNCHANGED rows
       \/ ~Conflict(r) /\ WriteAll(r, d) /\ Answer(r, Verdict(d))
    /\ UNCHANGED <<now, standing, cmd, signed>>

CommitUpsert(r) ==
    LET d == DecisionOf(signed[r]) IN
    /\ pc[r] = "signing"
    /\ WriteAll(r, d) /\ Answer(r, Verdict(d))
    /\ UNCHANGED <<now, standing, cmd, signed>>

CommitUnsealed(r) ==
    LET d == DecisionOf(SealsNow(cmd[r].cart)) IN
    /\ pc[r] = "signing"
    /\ \/ /\ d = "reject" \/ Conflict(r)
          /\ Answer(r, Verdict("reject")) /\ UNCHANGED rows
       \/ d # "reject" /\ ~Conflict(r) /\ WriteAll(r, d) /\ Answer(r, Verdict(d))
    /\ UNCHANGED <<now, standing, cmd, signed>>

\* The write transaction: the pipeline again, on the rows as they are now.
Commit(r) ==
    LET seals == SealsNow(cmd[r].cart) IN
    /\ pc[r] = "signing"
    /\ \/ /\ Refusal(r)
          /\ UNCHANGED rows
       \/ /\ DecisionOf(seals) # "reject"
          /\ signed[r] = seals
          /\ ~Conflict(r)
          /\ WriteAll(r, DecisionOf(seals))
          /\ Answer(r, Verdict(DecisionOf(seals)))
    /\ UNCHANGED <<now, standing, cmd, signed>>

\* A memory write, a price floor, a quote's expiry, a blackout edge: what the
\* six other checks say about a cart can change between two segments.
Drift(c) ==
    /\ standing' \in {[standing EXCEPT ![c] = s] : s \in Standings \ {standing[c]}}
    /\ UNCHANGED <<now, pc, cmd, signed, reply, rows>>

Tick ==
    /\ now < MaxTime
    /\ now' = now + 1
    /\ UNCHANGED <<standing, pc, cmd, signed, reply, rows>>

Step(r) == StageZero(r) \/ Present(r) \/ Evaluate(r) \/ Commit(r)

Next ==
    \/ \E r \in Reqs : Step(r)
    \/ \E c \in Carts : Drift(c)
    \/ Tick

Spec == Init /\ [][Next]_vars

-----------------------------------------------------------------------------
(* Properties.                                                              *)

Committed(r) == txn[r] # "none"

\* A cart buys at most one transaction however many presentations of it are
\* suspended at the same await (verify-cart-committer.ts burnNonce).
OneTxnPerCart ==
    \A r, s \in Reqs :
        Committed(r) /\ Committed(s) /\ cmd[r].cart = cmd[s].cart => r = s

\* Burn, transaction, stock claim and reservation exist together or not at
\* all: a burn never outlives the mandate that justified it (writeAll).
RowsTogether ==
    \A r \in Reqs :
        /\ Committed(r) <=> \E c \in Carts : nonce[c] = r
        /\ Committed(r) <=> \E u \in Units : claim[u] = r
        /\ Committed(r) <=> rsv[r] # "none"
        /\ Committed(r) => /\ nonce[cmd[r].cart] = r
                           /\ claim[UnitOf[cmd[r].cart]] = r

\* An Idempotency-Key names one stored outcome per tenant, whichever carts it
\* is presented with (ux_nonces_idem).
OneOutcomePerKey ==
    \A r, s \in Reqs :
        /\ Committed(r) /\ Committed(s)
        /\ cmd[r].tenant = cmd[s].tenant /\ cmd[r].key = cmd[s].key
        => r = s

\* The transaction opens in the state the signed credential attests to, even
\* if the checks changed their mind while it was being signed (sealsMatch).
CommitsWhatWasSigned ==
    \A r \in Reqs :
        Committed(r) =>
            /\ DecisionOf(signed[r]) = reply[r].decision
            /\ txn[r] = IF DecisionOf(signed[r]) = "hold"
                        THEN "pending_cooloff" ELSE "approved"

\* A replayed body is the body of the presentation that committed, and only
\* the same tenant, key and payload is shown it (replayOf).
ReplayIsVerbatim ==
    \A r \in Reqs :
        reply[r].kind = "replay" =>
            \E s \in Reqs :
                /\ Committed(s) /\ cmd[s] = cmd[r]
                /\ reply[s].decision = reply[r].decision

\* Concurrent verifications never hold more of an envelope than its cap when
\* each cart draws on one category (EnvelopeCheck inside the transaction).
CapNeverOverdrawn == \A k \in Declared : Drawn(k) <= Cap[k]

-----------------------------------------------------------------------------
(* The inductive invariant of VerifyCart_proofs.                            *)

\* A request is suspended only with something presented, and owns no row
\* and no answer until it is done; who committed answered yes.
PhaseLinks ==
    \A r \in Reqs :
        /\ pc[r] \in {"risk", "signing"} => cmd[r] \in Commands
        /\ pc[r] # "done" => reply[r] = NoReply
        /\ Committed(r) =>
            /\ pc[r] = "done" /\ cmd[r] \in Commands
            /\ reply[r].kind = "verdict" /\ reply[r].decision # "reject"

\* Each row points back at the one presentation that wrote all four.
RowLinks ==
    /\ \A r \in Reqs :
        IF Committed(r)
        THEN /\ nonce[cmd[r].cart] = r
             /\ claim[UnitOf[cmd[r].cart]] = r
             /\ rsv[r] = "open"
        ELSE rsv[r] = "none"
    /\ \A c \in Carts :
        nonce[c] # None => Committed(nonce[c]) /\ cmd[nonce[c]].cart = c
    /\ \A u \in Units :
        claim[u] # None => Committed(claim[u]) /\ UnitOf[cmd[claim[u]].cart] = u

IInv == TypeOK /\ PhaseLinks /\ RowLinks /\ OneOutcomePerKey

-----------------------------------------------------------------------------
\* Verification implements the atomic register of CartSpending.
Register == INSTANCE CartSpending WITH
    spent <- nonce, held <- claim, closed <- [r \in Reqs |-> pc[r] = "done"]
RegisterSpec == Register!Spec
=============================================================================
