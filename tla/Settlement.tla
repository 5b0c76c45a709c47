----------------------------- MODULE Settlement -----------------------------
(***************************************************************************)
(* The life of a verified transaction: CooloffScheduler and                *)
(* CooloffTransitions, ExecutePaymentService with its bracket, the payment *)
(* rail, and the webhook and poller that meet in PaymentOutcomeService.    *)
(* The process may die and restart: rows survive, timers and calls do not. *)
(*                                                                         *)
(* An action is one synchronous segment of the Node process, or one step   *)
(* of the rail, the customer or the clock.                                 *)
(***************************************************************************)
EXTENDS Integers, Sequences, SequencesExt

CONSTANTS
    Txns,           \* transactions; one payment mandate each
    Clients,        \* POST /v1/execute-payment requests
    Keys, Payloads, \* Idempotency-Key and body variant of those requests
    MaxTime,        \* bound on the clock
    MaxAttempts,    \* bound on payment attempts per order
    MaxCrashes,     \* bound on crashes nothing in the model provokes
    RestoreWindow,  \* CANCEL_RESTORE_SECONDS, in clock ticks
    MaxDelay,       \* setTimeout's longest delay, 2^31 - 1 ms, in clock ticks
    None

ASSUME SettlementNone == None \notin Clients \cup Txns
ASSUME ClientsAreNotTimers == Clients \cap Txns = {}
ASSUME SettlementBounds ==
    {MaxTime, MaxAttempts, MaxCrashes, RestoreWindow, MaxDelay} \subseteq Nat

\* An execution is started by a client or by the txn's own cool-off timer,
\* which presents an idempotency key and a payload hash nobody else uses.
Callers == Clients \cup Txns

VARIABLES
    now, up, crashes,
    state,          \* transactions.state
    due,            \* transactions.cooloff_until; 0 is NULL
    mandateExp,     \* exp of the payment mandate
    cancelledAt,    \* transactions.cancelled_at
    hasOrder,       \* transactions.rzp_order_id is set
    rsv,            \* envelope_reservations.state
    burned,         \* the execution whose payment_execute burn is stored
    stored,         \* that row's response_json: none, placeholder or final
    outcomes,       \* payment.captured / payment.failed events, in order
    timer,          \* armed cool-off timers
    call,           \* executions, and where each is suspended
    poll,           \* the payment watcher's loop per txn
    railOrder,      \* the rail holds an order for the mandate's receipt
    attempts        \* payment attempts the rail booked on that order

db == <<state, cancelledAt, hasOrder, rsv, burned, stored, outcomes>>
mem == <<timer, call, poll>>
rail == <<railOrder, attempts>>
terms == <<due, mandateExp>>
vars == <<now, up, crashes, terms, db, mem, rail>>

TxnStates == {"pending_cooloff", "approved", "link_issued", "captured",
              "failed", "cancelled"}
Kinds == {"captured", "failed"}
\* An observed outcome: which attempt (rzp_payment_id), and how it ended.
Outcome == [pay: 1..MaxAttempts, kind: Kinds]
InFlight == {"ordering", "ordered", "linking"}
Presented == [txn: Txns, key: Keys \cup Txns, payload: Payloads \cup Txns]
NoPoll == [pc |-> "off", saw |-> None]
Idle == [pc |-> "idle", what |-> None, reply |-> "none"]
CallRecord ==
    [pc: {"idle", "verifying", "done", "dead"} \cup InFlight,
     what: Presented \cup {None},
     reply: {"none", "ok", "error", "rejected", "conflict",
             "placeholder", "final"}]

TypeOK ==
    /\ now \in 0..MaxTime /\ up \in BOOLEAN /\ crashes \in 0..MaxCrashes
    /\ state \in [Txns -> TxnStates \cup {"none"}]
    /\ due \in [Txns -> Nat] /\ mandateExp \in [Txns -> Nat]
    /\ cancelledAt \in [Txns -> 0..MaxTime \cup {None}]
    /\ hasOrder \in [Txns -> BOOLEAN]
    /\ rsv \in [Txns -> {"none", "open", "captured", "released"}]
    /\ burned \in [Txns -> Callers \cup {None}]
    /\ stored \in [Txns -> {"none", "placeholder", "final"}]
    /\ outcomes \in [Txns -> Seq(Outcome)]
    /\ timer \subseteq Txns
    /\ call \in [Callers -> CallRecord]
    /\ poll \in [Txns -> [pc: {"off", "asking", "heard"}, saw: Outcome \cup {None}]]
    /\ railOrder \in [Txns -> BOOLEAN]
    /\ attempts \in [Txns -> Seq(Kinds)]

-----------------------------------------------------------------------------
\* What Settlement itself starts from, whatever rows verification leaves.
Quiet ==
    /\ now = 0 /\ up = TRUE /\ crashes = 0
    /\ cancelledAt = [t \in Txns |-> None]
    /\ hasOrder = [t \in Txns |-> FALSE]
    /\ burned = [t \in Txns |-> None]
    /\ stored = [t \in Txns |-> "none"]
    /\ outcomes = [t \in Txns |-> <<>>]
    /\ timer = {}
    /\ call = [k \in Callers |-> Idle]
    /\ poll = [t \in Txns |-> NoPoll]
    /\ railOrder = [t \in Txns |-> FALSE]
    /\ attempts = [t \in Txns |-> <<>>]

\* Transactions as VerifyCartCommitter.openTransaction leaves them: a hold has
\* an executes_at, an approval has none.
InitWith(dues, exps) ==
    /\ Quiet
    /\ state \in [Txns -> {"approved", "pending_cooloff"}]
    /\ due \in [Txns -> dues \cup {0}]
    /\ \A t \in Txns : due[t] = 0 <=> state[t] = "approved"
    /\ mandateExp \in [Txns -> exps]
    /\ rsv = [t \in Txns |-> "open"]

-----------------------------------------------------------------------------
(* The guarded UPDATEs.                                                     *)

\* TransactionStore.transition: it also writes cancelled_at.
Move(t, from, to, at) ==
    IF state[t] = from
    THEN /\ state' = [state EXCEPT ![t] = to]
         /\ cancelledAt' = [cancelledAt EXCEPT ![t] = at]
    ELSE UNCHANGED <<state, cancelledAt>>

\* EnvelopeReservationManager.transition.
Settle(t, to) ==
    rsv' = IF rsv[t] = "open" THEN [rsv EXCEPT ![t] = to] ELSE rsv

-----------------------------------------------------------------------------
(* The process.                                                             *)

\* Whatever was suspended is gone; nobody will answer those callers.
Die ==
    /\ up' = FALSE
    /\ timer' = {}
    /\ poll' = [t \in Txns |-> NoPoll]
    /\ call' = [k \in Callers |->
                  IF call[k].pc \in InFlight \cup {"verifying"}
                  THEN [call[k] EXCEPT !.pc = "dead"] ELSE call[k]]

Crash ==
    /\ up /\ crashes < MaxCrashes
    /\ crashes' = crashes + 1
    /\ Die
    /\ UNCHANGED <<now, terms, db, rail>>

\* Mutant: timers are not rebuilt.
BootWithoutRebuild ==
    /\ ~up
    /\ up' = TRUE
    /\ UNCHANGED <<now, crashes, terms, db, mem, rail>>

\* startGateway: rebuild() arms one timer per pending_cooloff row.
Boot ==
    /\ ~up
    /\ up' = TRUE
    /\ timer' = {t \in Txns : state[t] = "pending_cooloff"}
    /\ UNCHANGED <<now, crashes, terms, db, call, poll, rail>>

Reply(k, r) == call' = [call EXCEPT ![k].pc = "done", ![k].reply = r]

\* A client's exception becomes a 500. A timer's call is `void`ed, with no
\* handler for the rejection: Node ends the process.
Throw(k) ==
    \/ k \in Clients /\ Reply(k, "error") /\ UNCHANGED <<up, timer, poll>>
    \/ k \in Txns /\ Die

-----------------------------------------------------------------------------
(* Cool-off.                                                                *)

Present(k, x) ==
    call' = [call EXCEPT ![k] = [pc |-> "verifying", what |-> x, reply |-> "none"]]

\* An armed timer rings when its hold is due; one armed for longer than
\* setTimeout can wait rings at once (NodeTimers.after).
Rings(t) == due[t] <= now \/ due[t] - now > MaxDelay

\* CooloffScheduler.mature, which does not look at cooloff_until: win the guarded
\* UPDATE, then execute.
Mature(t) ==
    /\ up /\ t \in timer /\ Rings(t)
    /\ timer' = timer \ {t}
    /\ Move(t, "pending_cooloff", "approved", None)
    /\ IF state[t] = "pending_cooloff"
       THEN Present(t, [txn |-> t, key |-> t, payload |-> t])
       ELSE UNCHANGED call
    /\ UNCHANGED <<now, up, crashes, terms, hasOrder, rsv, burned, stored,
                   outcomes, poll, rail>>

\* Mutant: an approved transaction may be cancelled as well.
CancelApproved(t) ==
    /\ up /\ state[t] \in {"pending_cooloff", "approved"}
    /\ Move(t, state[t], "cancelled", now)
    /\ Settle(t, "released")
    /\ timer' = timer \ {t}
    /\ UNCHANGED <<now, up, crashes, terms, hasOrder, burned, stored, outcomes,
                   call, poll, rail>>

Cancel(t) ==
    /\ up /\ state[t] = "pending_cooloff"
    /\ Move(t, "pending_cooloff", "cancelled", now)
    /\ Settle(t, "released")
    /\ timer' = timer \ {t}
    /\ UNCHANGED <<now, up, crashes, terms, hasOrder, burned, stored, outcomes,
                   call, poll, rail>>

\* The undo. Nothing reserves the capacity again.
Restore(t) ==
    /\ up /\ state[t] = "cancelled"
    /\ cancelledAt[t] > now - RestoreWindow
    /\ Move(t, "cancelled", "pending_cooloff", None)
    /\ timer' = timer \cup {t}
    /\ UNCHANGED <<now, up, crashes, terms, hasOrder, rsv, burned, stored,
                   outcomes, call, poll, rail>>

-----------------------------------------------------------------------------
(* Execute-payment: burn, order, link, outcome.                             *)

ClientCall(k) ==
    /\ up /\ call[k].pc = "idle"
    /\ \E t \in Txns, key \in Keys, p \in Payloads :
        /\ state[t] # "none"
        /\ Present(k, [txn |-> t, key |-> key, payload |-> p])
    /\ UNCHANGED <<now, up, crashes, terms, db, timer, poll, rail>>

\* The segment after `await chain.verifyPayment`; exp is hard.
Verified(k) == up /\ call[k].pc = "verifying" /\ now < mandateExp[call[k].what.txn]

Holder(k) == burned[call[k].what.txn]

\* Expired, burned under another key, or not `approved`.
Refuse(k) ==
    LET t == call[k].what.txn IN
    /\ up /\ call[k].pc = "verifying"
    /\ \/ mandateExp[t] <= now
       \/ IF Holder(k) = None THEN state[t] # "approved"
          ELSE call[Holder(k)].what.key # call[k].what.key
    /\ Reply(k, "rejected")
    /\ UNCHANGED <<now, up, crashes, terms, db, timer, poll, rail>>

\* Mutant: the body is not compared.
ReplayToAnyBody(k) ==
    /\ Verified(k) /\ Holder(k) # None
    /\ call[Holder(k)].what.key = call[k].what.key
    /\ Reply(k, stored[call[k].what.txn])
    /\ UNCHANGED <<now, up, crashes, terms, db, timer, poll, rail>>

\* The stored response_json, or 409 for another body.
Replay(k) ==
    /\ Verified(k) /\ Holder(k) # None
    /\ call[Holder(k)].what.key = call[k].what.key
    /\ Reply(k, IF call[Holder(k)].what.payload = call[k].what.payload
                THEN stored[call[k].what.txn] ELSE "conflict")
    /\ UNCHANGED <<now, up, crashes, terms, db, timer, poll, rail>>

\* ux_nonces_idem: the key already stands for another mandate's payment.
KeyTaken(k) ==
    \E t \in Txns : burned[t] # None /\ call[burned[t]].what.key = call[k].what.key

\* Mutants: the burn replaces the one it finds; the state is not read.
MayBurnAgain(k) == Verified(k) /\ state[call[k].what.txn] = "approved"

MayBurnInAnyState(k) == Verified(k) /\ Holder(k) = None

MayBurn(k) ==
    /\ Verified(k) /\ Holder(k) = None
    /\ state[call[k].what.txn] = "approved"

\* ExecutePaymentBracket.request.
Burn(k) ==
    LET t == call[k].what.txn IN
    /\ MayBurn(k) /\ ~KeyTaken(k)
    /\ burned' = [burned EXCEPT ![t] = k]
    /\ stored' = [stored EXCEPT ![t] = "placeholder"]
    /\ call' = [call EXCEPT ![k].pc = "ordering"]
    /\ UNCHANGED <<now, up, crashes, terms, state, cancelledAt, hasOrder, rsv,
                   outcomes, timer, poll, rail>>

\* The burn's INSERT fails, or the rail call before or after the order does;
\* either way the transaction bracket has rolled back or not begun.
CallFails(k) ==
    /\ up
    /\ \/ MayBurn(k) /\ KeyTaken(k)
       \/ call[k].pc \in {"ordering", "linking"}
    /\ Throw(k)
    /\ UNCHANGED <<now, crashes, terms, db, rail>>

\* The rail creates the order; its answer arrives, or is lost and the retry is
\* refused as a duplicate of the same receipt.
RailCreates(k) ==
    LET t == call[k].what.txn IN
    /\ call[k].pc = "ordering" /\ ~railOrder[t]
    /\ railOrder' = [railOrder EXCEPT ![t] = TRUE]
    /\ \/ call' = [call EXCEPT ![k].pc = "ordered"]
       \/ UNCHANGED call
    /\ UNCHANGED <<now, up, crashes, terms, db, timer, poll, attempts>>

\* ExecutePaymentBracket.orderPlaced, before the link is asked for.
OrderPlaced(k) ==
    LET t == call[k].what.txn IN
    /\ up /\ call[k].pc = "ordered"
    /\ hasOrder' = [hasOrder EXCEPT ![t] = TRUE]
    /\ call' = [call EXCEPT ![k].pc = "linking"]
    /\ UNCHANGED <<now, up, crashes, terms, state, cancelledAt, rsv, burned,
                   stored, outcomes, timer, poll, rail>>

\* ExecutePaymentBracket.outcome, with a link or without one.
LinkOutcome(k) ==
    LET t == call[k].what.txn IN
    /\ up /\ call[k].pc = "linking"
    /\ Move(t, "approved", "link_issued", None)
    /\ stored' = [stored EXCEPT ![t] = "final"]
    /\ Reply(k, "ok")
    /\ UNCHANGED <<now, up, crashes, terms, hasOrder, rsv, burned, outcomes,
                   timer, poll, rail>>

-----------------------------------------------------------------------------
(* Outcomes.                                                                *)

\* The customer pays the order, or tries to; one payment per attempt.
Attempt(t) ==
    /\ hasOrder[t]
    /\ Len(attempts[t]) < MaxAttempts
    /\ ~Contains(attempts[t], "captured")
    /\ \E kind \in Kinds : attempts' = [attempts EXCEPT ![t] = Append(@, kind)]
    /\ UNCHANGED <<now, up, crashes, terms, db, mem, railOrder>>

\* Mutants: no deduplication; the envelope captured whatever
\* happened.
ApplyEveryTime(t, o) ==
    /\ outcomes' = [outcomes EXCEPT ![t] = Append(@, o)]
    /\ Settle(t, IF o.kind = "captured" THEN "captured" ELSE "released")
    /\ Move(t, "link_issued", o.kind, None)

ApplyCapturing(t, o) ==
    IF Contains(outcomes[t], o)
    THEN UNCHANGED <<state, cancelledAt, rsv, outcomes>>
    ELSE /\ outcomes' = [outcomes EXCEPT ![t] = Append(@, o)]
         /\ Settle(t, "captured")
         /\ Move(t, "link_issued", o.kind, None)

\* PaymentOutcomeService.apply: deduplicate on the fact, append, settle the
\* envelope, then the guarded move.
Apply(t, o) ==
    IF Contains(outcomes[t], o)
    THEN UNCHANGED <<state, cancelledAt, rsv, outcomes>>
    ELSE /\ outcomes' = [outcomes EXCEPT ![t] = Append(@, o)]
         /\ Settle(t, IF o.kind = "captured" THEN "captured" ELSE "released")
         /\ Move(t, "link_issued", o.kind, None)

Booked(t, i) == [pay |-> i, kind |-> attempts[t][i]]

\* A delivery for any booked attempt, in any order, once, again or never.
Webhook(t) ==
    /\ up
    /\ hasOrder[t]      \* byOrder finds the transaction
    /\ \E i \in DOMAIN attempts[t] : Apply(t, Booked(t, i))
    /\ UNCHANGED <<now, up, crashes, terms, hasOrder, burned, stored, mem, rail>>

\* PaymentView.payment_state: the last outcome event.
PaymentView(t) ==
    IF outcomes[t] = <<>> THEN "waiting" ELSE outcomes[t][Len(outcomes[t])].kind

\* Reading an unsettled payment starts a watch, unless one is up.
Watch(t) ==
    /\ up /\ hasOrder[t]
    /\ PaymentView(t) = "waiting"
    /\ poll[t].pc = "off"
    /\ poll' = [poll EXCEPT ![t].pc = "asking"]
    /\ UNCHANGED <<now, up, crashes, terms, db, timer, call, rail>>

\* bestPayment: captured outranks failed, the first of a rank wins.
Best(t) ==
    LET rank == IF Contains(attempts[t], "captured") THEN "captured" ELSE "failed"
    IN  IF attempts[t] = <<>> THEN None
        ELSE Booked(t, SelectInSeq(attempts[t], LAMBDA a : a = rank))

\* What the rail said may be old when the gateway hears it.
RailLooks(t) ==
    /\ poll[t].pc = "asking"
    /\ poll' = [poll EXCEPT ![t] = [pc |-> "heard", saw |-> Best(t)]]
    /\ UNCHANGED <<now, up, crashes, terms, db, timer, call, rail>>

\* PaymentPoller.observe on the answer: a settled order ends the loop.
PollHears(t) ==
    /\ up /\ poll[t].pc = "heard" /\ poll[t].saw # None
    /\ Apply(t, poll[t].saw)
    /\ poll' = [poll EXCEPT ![t] = NoPoll]
    /\ UNCHANGED <<now, up, crashes, terms, hasOrder, burned, stored, timer,
                   call, rail>>

\* Unpaid: sleep and ask again, or the window closes; or the rail is down.
PollWaits(t) ==
    /\ up /\ poll[t].pc # "off" /\ poll[t].saw = None
    /\ \/ poll[t].pc = "heard" /\ poll' = [poll EXCEPT ![t].pc = "asking"]
       \/ poll' = [poll EXCEPT ![t] = NoPoll]
    /\ UNCHANGED <<now, up, crashes, terms, db, timer, call, rail>>

Tick ==
    /\ now < MaxTime
    /\ now' = now + 1
    /\ UNCHANGED <<up, crashes, terms, db, mem, rail>>

-----------------------------------------------------------------------------
Execute(k) ==
    \/ Refuse(k) \/ Replay(k) \/ Burn(k) \/ CallFails(k)
    \/ RailCreates(k) \/ OrderPlaced(k) \/ LinkOutcome(k)

Cooloff(t) == Mature(t) \/ Cancel(t) \/ Restore(t)

Observe(t) ==
    \/ Attempt(t) \/ Webhook(t) \/ Watch(t)
    \/ RailLooks(t) \/ PollHears(t) \/ PollWaits(t)

Next ==
    \/ \E k \in Clients : ClientCall(k)
    \/ \E k \in Callers : Execute(k)
    \/ \E t \in Txns : Cooloff(t) \/ Observe(t)
    \/ Crash \/ Boot \/ Tick

\* The event loop resumes what is ready, a due timer fires, the supervisor
\* restarts a dead process, an awaited rail call returns or fails, time passes.
\* Nobody has to call, cancel, pay, look, or deliver a webhook.
Fairness ==
    /\ \A k \in Callers : WF_vars(Execute(k))
    /\ \A t \in Txns : WF_vars(Mature(t)) /\ WF_vars(RailLooks(t))
                       /\ WF_vars(PollHears(t)) /\ WF_vars(PollWaits(t))
    /\ WF_vars(Boot) /\ WF_vars(Tick)

-----------------------------------------------------------------------------
(* Properties.                                                              *)

\* However many callers hold the mandate at once, and whatever dies between,
\* one execution gets past the burn, and the rail's order is that one's
\* (execute-payment-bracket.ts request: PRIMARY KEY (nonce, purpose)).
OneExecutionPerMandate ==
    /\ \A k \in Callers :
        call[k].pc \in InFlight \/ call[k].reply = "ok" => Holder(k) = k
    /\ \A t \in Txns : railOrder[t] => burned[t] # None

\* "Nothing was ever sent to Razorpay" for a cancelled hold, and its timer is
\* gone (cooloff-transitions.ts cancel against mature).
CancelledMeansNothingSent ==
    \A t \in Txns :
        state[t] = "cancelled" =>
            /\ burned[t] = None /\ ~railOrder[t] /\ rsv[t] = "released"
            /\ t \notin timer

\* Every recorded outcome is an attempt the rail booked, recorded once, though
\* webhook and poller both report it (payment-outcome-service.ts alreadySeen).
OutcomesAreBookedOnce ==
    \A t \in Txns :
        /\ \A i \in DOMAIN outcomes[t] :
            /\ outcomes[t][i].pay \in DOMAIN attempts[t]
            /\ outcomes[t][i] = Booked(t, outcomes[t][i].pay)
        /\ \A i, j \in DOMAIN outcomes[t] :
            outcomes[t][i] = outcomes[t][j] => i = j

Recorded(t, kind) == \E i \in DOMAIN outcomes[t] : outcomes[t][i].kind = kind

\* A transaction says captured or failed, and its capacity is spent, only on
\* an outcome event of that kind; and an outcome always settles the capacity.
SettledForAReason ==
    \A t \in Txns :
        /\ state[t] \in Kinds => Recorded(t, state[t])
        /\ rsv[t] = "captured" => Recorded(t, "captured")
        /\ outcomes[t] # <<>> => rsv[t] # "open"

\* A replayed body goes only to the request the burn stored it for.
ReplayOnlyToItsOwner ==
    \A k \in Callers :
        call[k].reply \in {"placeholder", "final"} =>
            /\ Holder(k) \notin {None, k}
            /\ call[Holder(k)].what = call[k].what

\* A hold whose timer is armed matures or is cancelled, across restarts.
ArmedHoldResolves ==
    \A t \in Txns : t \in timer ~> state[t] # "pending_cooloff"
=============================================================================
