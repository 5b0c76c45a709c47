-------------------------------- MODULE Bill --------------------------------
(***************************************************************************)
(* One conversation's bill: the page that shows cards, opens a bill, takes *)
(* the hold and shows the payment, against the engine that queues its      *)
(* turns and taps, stands a cart at the gate and settles it.               *)
(*                                                                         *)
(* The cards are the platform's own, and a card stands for its price too.  *)
(* Beats arrive in order and once (Beats is about when they do), and the   *)
(* intent a turn drafts is taken to be signed (ChatLanes).                 *)
(***************************************************************************)
EXTENDS Integers, Sequences, FiniteSets, SequencesExt

CONSTANTS
    Skus,         \* the shelf
    NoCard,       \* no card
    Unset,        \* the hand says nothing: the host's own answer stands
    MaxTasks,     \* bound on sentences and taps
    MaxFaults,    \* bound on failed requests
    MaxReloads,   \* bound on reloads of the page
    MaxHolds      \* bound on completed holds

ASSUME BillBounds ==
    /\ {MaxTasks, MaxFaults, MaxReloads, MaxHolds} \subseteq Nat
    /\ NoCard \notin Skus /\ Unset \notin Skus \cup {NoCard}

VARIABLES
    tasks,     \* the works ChatService was given, in order
    running,   \* ChatService.running: the work it points to, 0 for none
    proposal,  \* LastProposal: the card the standing cart was built for
    gate,      \* the cart gate: who waits, and the hold it keeps
    txns,      \* how each transaction's payment stands at the gateway
    wire,      \* beats on their way to the page
    kept,      \* what the durable log would restore
    calls,     \* sentences and taps on their way to the host
    pen,       \* the hold on its way to the host, or its answer back
    page,      \* the page: snapshot, ChatSession, BillCard
    asks,      \* questions of the payment poll on their way
    loop,      \* the poll's loop: off, asking, resting
    receipts,  \* history: what each hold showed and what it released
    faults, reloads

host == <<tasks, running, proposal, gate>>
screen == <<page, asks, loop>>
history == <<receipts, faults, reloads>>
billVars == <<host, txns, wire, kept, calls, pen, screen, history>>

Cards == Skus \cup {NoCard}
NoHold == [n |-> 0, card |-> NoCard, total |-> NoCard]

\* emptySnapshot.
NoSnapshot ==
    [offering |-> FALSE, picked |-> NoCard, cart |-> NoCard, awaiting |-> FALSE,
     running |-> FALSE, txn |-> 0]

\* ChatSession and BillCard as they mount over a snapshot.
Mounted(snap) ==
    [snap |-> snap, hand |-> Unset, spoken |-> snap.picked, confirmed |-> FALSE,
     open |-> FALSE, signed |-> snap.txn # 0, place |-> "none",
     penned |-> FALSE, busy |-> FALSE, pay |-> [txn |-> 0, is |-> "none"],
     press |-> NoHold, held |-> FALSE]

BillInit ==
    /\ tasks = <<>> /\ running = 0 /\ proposal = NoCard
    /\ gate = [waiting |-> 0, by |-> NoHold]
    /\ txns = <<>> /\ wire = <<>> /\ kept = NoSnapshot
    /\ calls = {}
    /\ pen = [at |-> "none", mine |-> FALSE, hold |-> NoHold, n |-> 0]
    /\ page = Mounted(NoSnapshot) /\ asks = {} /\ loop = "off"
    /\ receipts = {} /\ faults = 0 /\ reloads = 0

-----------------------------------------------------------------------------
(* The beats and the fold.                                                  *)

Options == [kind |-> "options"]
Cart(s) == [kind |-> "cart", sku |-> s]
Picked(s) == [kind |-> "picked", sku |-> s]
Outcome(t) == [kind |-> "outcome", txn |-> t]
Buyer == [kind |-> "buyer"]

\* applySignal over what signalsForBeat makes of one beat.
Fold(snap, b) ==
    CASE b.kind = "options" -> [snap EXCEPT !.offering = TRUE, !.picked = NoCard]
      [] b.kind = "cart"    -> [snap EXCEPT !.cart = b.sku, !.awaiting = TRUE]
      [] b.kind = "picked"  -> [snap EXCEPT !.picked = b.sku]
      [] b.kind = "buyer"   -> [snap EXCEPT !.running = TRUE, !.offering = FALSE]
      [] b.kind = "outcome" ->
           [snap EXCEPT !.running = FALSE, !.txn = IF b.txn = 0 THEN @ ELSE b.txn]

\* BeatHub.emit: to the wire, and filed.
Emit(beats) ==
    /\ wire' = wire \o beats
    /\ kept' = FoldLeft(Fold, kept, beats)

-----------------------------------------------------------------------------
(* The engine.                                                              *)

Active(i) == tasks[i].at \notin {"queued", "done"}

\* ChatService.queue: the work waits for the one running points to, and for no
\* other that may be under way.
Enqueue(kind, ref) ==
    /\ tasks' = Append(tasks, [kind |-> kind, ref |-> ref, after |-> running,
                               at |-> "queued", cart |-> NoCard])
    /\ running' = Len(tasks) + 1

Move(i, at) == tasks' = [tasks EXCEPT ![i].at = at]

\* A work settles: whatever running points to now, it is cleared.
Done(i) == Move(i, "done") /\ running' = 0

Arrive(c) ==
    /\ c \in calls
    /\ Enqueue(c.kind, c.ref)
    /\ calls' = calls \ {c}
    /\ UNCHANGED <<proposal, gate, txns, wire, kept, pen, screen, history>>

Turn(i) ==
    /\ tasks[i].at = "queued"
    /\ tasks[i].after \in {0} \cup {j \in DOMAIN tasks : tasks[j].at = "done"}

\* PurchaseRunner.freshTable, and the sentence filed with the run it starts.
BeginsSentence(i) ==
    /\ Turn(i) /\ tasks[i].kind = "say"
    /\ Move(i, "working") /\ UNCHANGED running
    /\ gate' = [waiting |-> 0, by |-> NoHold]
    /\ proposal' = NoCard
    /\ kept' = Fold(kept, Buyer)
    /\ UNCHANGED <<txns, wire, calls, pen, screen, history>>

\* Mutant: the rebuild starts over a gate that still keeps the last hold.
BeginsTapKeepingHold(i) ==
    /\ Turn(i) /\ tasks[i].kind = "tap"
    /\ UNCHANGED <<proposal, gate, txns, calls, pen, screen, history>>
    /\ IF proposal \in {NoCard, tasks[i].ref}
       THEN Done(i) /\ Emit(<<Outcome(0)>>)
       ELSE Move(i, "working") /\ UNCHANGED <<running, wire, kept>>

\* reproposeSku resets the gate; a tap that rebuilds nothing goes on to the
\* open web, where this card is on no list.
BeginsTap(i) ==
    /\ Turn(i) /\ tasks[i].kind = "tap"
    /\ UNCHANGED <<proposal, txns, calls, pen, screen, history>>
    /\ IF proposal \in {NoCard, tasks[i].ref}
       THEN Done(i) /\ Emit(<<Outcome(0)>>) /\ UNCHANGED gate
       ELSE /\ Move(i, "working")
            /\ gate' = [waiting |-> 0, by |-> NoHold]
            /\ UNCHANGED <<running, wire, kept>>

\* A turn that buys nothing: an answer, with or without cards.
Answers(i) ==
    /\ tasks[i].at = "working" /\ tasks[i].kind = "say"
    /\ Done(i)
    /\ \E shown \in {<<>>, <<Options>>} : Emit(shown \o <<Outcome(0)>>)
    /\ UNCHANGED <<proposal, gate, txns, calls, pen, screen, history>>

\* buyThrough presents the cards and holds the makings; a tap already has both.
Proposes(i, s) ==
    /\ tasks[i].at = "working"
    /\ tasks[i].kind = "tap" => s = tasks[i].ref
    /\ proposal' = s
    /\ tasks' = [tasks EXCEPT ![i].at = "assembling", ![i].cart = s]
    /\ Emit(IF tasks[i].kind = "say" THEN <<Options>> ELSE <<>>)
    /\ UNCHANGED <<running, gate, txns, calls, pen, screen, history>>

\* The harness fails (a tap's failure says nothing), or the cart is refused.
Fails(i) ==
    /\ tasks[i].at \in {"working", "assembling"}
    /\ Done(i)
    /\ \/ tasks[i].kind = "say" /\ Emit(<<Outcome(0)>>)
       \/ tasks[i].kind = "tap" /\ UNCHANGED <<wire, kept>>
       \/ /\ tasks[i].kind = "tap" /\ tasks[i].at = "assembling"
          /\ Emit(<<Outcome(0), Picked(tasks[i].ref)>>)
    /\ UNCHANGED <<proposal, gate, txns, calls, pen, screen, history>>

\* What a hold released, and the works at it beside.
Receipt(i, hold) ==
    [task |-> i, n |-> hold.n, card |-> hold.card, total |-> hold.total,
     cart |-> tasks[i].cart, beside |-> {j \in DOMAIN tasks : j # i /\ Active(j)}]

\* announceCart, and ConfirmationGate.wait.
Announces(i) ==
    /\ tasks[i].at = "assembling"
    /\ Emit(<<Cart(tasks[i].cart)>>)
    /\ IF gate.by # NoHold
       THEN /\ Move(i, "settling")
            /\ receipts' = receipts \cup {Receipt(i, gate.by)}
            /\ UNCHANGED gate
       ELSE /\ Move(i, "gate")
            /\ gate' = [gate EXCEPT !.waiting = i]
            /\ UNCHANGED receipts
    /\ UNCHANGED <<running, proposal, txns, calls, pen, screen, faults, reloads>>

\* POST /chat/cart/sign: ConfirmationGate.sign.
TakeHold ==
    /\ pen.at = "sent"
    /\ pen' = [pen EXCEPT !.at = "answered"]
    /\ gate' = [waiting |-> 0, by |-> pen.hold]
    /\ IF gate.waiting # 0
       THEN /\ Move(gate.waiting, "settling")
            /\ receipts' = receipts \cup {Receipt(gate.waiting, pen.hold)}
       ELSE UNCHANGED <<tasks, receipts>>
    /\ UNCHANGED <<running, proposal, txns, wire, kept, calls, screen, faults, reloads>>

\* CheckoutStep.settle: the outcome carries the transaction, if there is one.
Settles(i) ==
    /\ tasks[i].at = "settling"
    /\ Done(i)
    /\ \E t \in {0, Len(txns) + 1} :
         /\ txns' = IF t = 0 THEN txns ELSE Append(txns, "waiting")
         /\ Emit(<<Outcome(t)>> \o
                 (IF tasks[i].kind = "tap" THEN <<Picked(tasks[i].ref)>> ELSE <<>>))
    /\ UNCHANGED <<proposal, gate, calls, pen, screen, history>>

\* The payment view as the ledger moves it: the last outcome told, and an
\* attempt that failed may be told of after the one that paid.
Pays(t) ==
    /\ t \in DOMAIN txns /\ txns[t] # "paid"
    /\ txns' = [txns EXCEPT ![t] = "paid"]
    /\ UNCHANGED <<host, wire, kept, calls, pen, screen, history>>

PaymentFails(t) ==
    /\ t \in DOMAIN txns /\ txns[t] # "failed"
    /\ txns' = [txns EXCEPT ![t] = "failed"]
    /\ UNCHANGED <<host, wire, kept, calls, pen, screen, history>>

-----------------------------------------------------------------------------
(* The page as it renders.                                                  *)

\* The card chosen: the hand's, or the host's while the hand says nothing.
Chosen(p) ==
    IF ~p.snap.offering THEN NoCard
    ELSE IF p.hand = Unset THEN p.snap.picked ELSE p.hand

\* Where a BillCard is mounted.
Place(p) ==
    CASE Chosen(p) = NoCard -> "none"
      [] Chosen(p) # NoCard /\ p.open -> "sheet"
      [] Chosen(p) # NoCard /\ ~p.open /\ p.signed -> "record"
      [] OTHER -> "none"

\* The bill's total: the cart's, and the card's own price before there is one.
Total(p) == IF p.snap.cart = NoCard THEN Chosen(p) ELSE p.snap.cart

\* A host that names another card supersedes the hand.
HandHeard(p) ==
    IF p.snap.picked = p.spoken THEN p
    ELSE [p EXCEPT !.spoken = p.snap.picked,
                   !.hand = IF @ = p.snap.picked THEN @ ELSE Unset]

\* A transaction the snapshot names has been signed.
TxnHeard(p, was) ==
    IF p.snap.txn \in {0, was} THEN p ELSE [p EXCEPT !.signed = TRUE]

\* A BillCard that mounts starts over; the one that stays keeps its state. A
\* sweep under way when its button goes is not cleared: it belongs to no card.
CardMounts(p) ==
    IF Place(p) = p.place THEN p
    ELSE [p EXCEPT !.place = Place(p), !.penned = Place(p) = "record",
                   !.busy = FALSE, !.held = FALSE,
                   !.pay = [txn |-> 0, is |-> "none"]]

\* The poll's effect runs again: the round under way is no longer live.
Restart(t) ==
    /\ asks' = {[a EXCEPT !.live = FALSE] : a \in asks}
               \cup (IF t = 0 THEN {} ELSE {[txn |-> t, live |-> TRUE]})
    /\ loop' = IF t = 0 THEN "off" ELSE "asking"

\* What the poll asks about: nothing without a card on screen.
Question(p) == IF p.place = "none" THEN 0 ELSE p.snap.txn

\* React renders p: the effects run, and the poll restarts if its question or
\* its card changed.
Render(p) ==
    LET q == CardMounts(TxnHeard(HandHeard(p), page.snap.txn))
    IN  /\ page' = q
        /\ IF q.place # page.place \/ Question(q) # Question(page)
           THEN Restart(Question(q)) ELSE UNCHANGED <<asks, loop>>

Receive ==
    /\ wire # <<>>
    /\ wire' = Tail(wire)
    /\ Render([page EXCEPT !.snap = Fold(@, Head(wire))])
    /\ UNCHANGED <<host, txns, kept, calls, pen, history>>

\* The page is torn down and opens on the log.
Reload ==
    /\ reloads < MaxReloads
    /\ reloads' = reloads + 1
    /\ wire' = <<>>
    /\ page' = CardMounts(Mounted(kept))
    /\ Restart(Question(CardMounts(Mounted(kept))))
    /\ pen' = [pen EXCEPT !.mine = FALSE]
    /\ UNCHANGED <<host, txns, kept, calls, receipts, faults>>

-----------------------------------------------------------------------------
(* The shopper's gestures.                                                  *)

Gesture == UNCHANGED <<host, txns, wire, kept, history>>

Post(kind, ref) ==
    /\ Len(tasks) + Cardinality(calls) < MaxTasks
    /\ calls' = calls \cup
         {[kind |-> kind, ref |-> ref, n |-> Len(tasks) + Cardinality(calls)]}

\* A sentence typed: the composer waits while a turn is nobody's but the host's.
Say ==
    /\ ~page.snap.running \/ page.snap.awaiting
    /\ Post("say", NoCard)
    /\ Render([page EXCEPT !.snap = Fold(@, Buyer)])
    /\ UNCHANGED pen /\ Gesture

CardsShown == page.snap.offering /\ ~(page.signed /\ Chosen(page) # NoCard)

\* choose: with no cart standing the tap is a sentence, else it is a rebuild.
Choose(s) ==
    /\ CardsShown
    /\ IF page.snap.cart = NoCard /\ ~page.signed
       THEN /\ Post("say", s)
            /\ Render([page EXCEPT !.hand = s, !.snap = Fold(@, Buyer)])
       ELSE /\ Post("tap", s)
            /\ Render([page EXCEPT !.hand = s, !.confirmed = TRUE, !.open = TRUE])
    /\ UNCHANGED pen /\ Gesture

ChangeChoice ==
    /\ Chosen(page) # NoCard /\ ~page.signed
    /\ Render([page EXCEPT !.hand = NoCard, !.confirmed = FALSE, !.open = FALSE])
    /\ UNCHANGED <<calls, pen>> /\ Gesture

\* Confirm, Review the bill, and the scrim that closes it.
Confirm ==
    /\ Chosen(page) # NoCard /\ ~page.confirmed
    /\ Render([page EXCEPT !.confirmed = TRUE])
    /\ UNCHANGED <<calls, pen>> /\ Gesture

ReviewBill ==
    /\ Chosen(page) # NoCard /\ page.confirmed /\ ~page.open /\ ~page.signed
    /\ Render([page EXCEPT !.open = TRUE])
    /\ UNCHANGED <<calls, pen>> /\ Gesture

CloseBill ==
    /\ page.place = "sheet"
    /\ Render([page EXCEPT !.open = FALSE])
    /\ UNCHANGED <<calls, pen>> /\ Gesture

\* HoldToBuy.start, under a bill that shows a card and a total. One hold at a
\* time is on its way here.
Press ==
    /\ page.place = "sheet" /\ ~page.penned /\ ~page.busy /\ page.press = NoHold
    /\ pen.at = "none" /\ pen.n < MaxHolds
    /\ page' = [page EXCEPT !.held = TRUE, !.press =
                  [n |-> pen.n + 1, card |-> Chosen(page), total |-> Total(page)]]
    /\ UNCHANGED <<asks, loop, calls, pen>> /\ Gesture

Abort ==
    /\ page.held
    /\ page' = [page EXCEPT !.press = NoHold, !.held = FALSE]
    /\ UNCHANGED <<asks, loop, calls, pen>> /\ Gesture

\* The sweep completes, whether its bill is still up or not; busy says that
\* the answer is for the card now mounted.
Complete ==
    /\ page.press # NoHold
    /\ pen' = [at |-> "sent", mine |-> TRUE, hold |-> page.press,
               n |-> page.press.n]
    /\ page' = [page EXCEPT !.press = NoHold, !.held = FALSE, !.busy = page.held]
    /\ UNCHANGED <<asks, loop, calls>> /\ Gesture

NoPen == pen' = [pen EXCEPT !.at = "none", !.mine = FALSE, !.hold = NoHold]

\* handleSigned goes on: the host took it, whatever it released.
HoldAnswered ==
    /\ pen.at = "answered" /\ NoPen
    /\ IF pen.mine
       THEN Render([page EXCEPT !.snap.awaiting = FALSE, !.signed = TRUE,
                                !.busy = FALSE, !.penned = @ \/ page.busy])
       ELSE UNCHANGED screen
    /\ UNCHANGED calls /\ Gesture

\* The request fails: nothing was signed, the bill says.
HoldFails ==
    /\ pen.at \in {"sent", "answered"}
    /\ faults < MaxFaults /\ faults' = faults + 1
    /\ NoPen
    /\ page' = [page EXCEPT !.busy = FALSE]
    /\ UNCHANGED <<host, txns, wire, kept, calls, asks, loop, receipts, reloads>>

-----------------------------------------------------------------------------
(* The poll.                                                                *)

\* Mutant: an answer lands whoever asked.
AnswerWhoeverAsked(a) ==
    /\ a \in asks
    /\ asks' = asks \ {a}
    /\ page' = [page EXCEPT !.pay = [txn |-> a.txn, is |-> txns[a.txn]]]
    /\ loop' = IF a.live THEN IF txns[a.txn] = "waiting" THEN "resting" ELSE "off"
               ELSE loop
    /\ UNCHANGED <<host, txns, wire, kept, calls, pen, history>>

\* askOnce: the answer of a round that is no longer live is dropped, and a
\* terminal one ends the loop.
Answer(a) ==
    /\ a \in asks
    /\ asks' = asks \ {a}
    /\ IF a.live
       THEN /\ page' = [page EXCEPT !.pay = [txn |-> a.txn, is |-> txns[a.txn]]]
            /\ loop' = IF txns[a.txn] = "waiting" THEN "resting" ELSE "off"
       ELSE UNCHANGED <<page, loop>>
    /\ UNCHANGED <<host, txns, wire, kept, calls, pen, history>>

\* Mutant: a gateway that blinked ends the loop.
AskFailsForGood(a) ==
    /\ a \in asks
    /\ faults < MaxFaults /\ faults' = faults + 1
    /\ asks' = asks \ {a}
    /\ loop' = IF a.live THEN "off" ELSE loop
    /\ UNCHANGED <<host, txns, wire, kept, calls, pen, page, receipts, reloads>>

\* A failed request is not a failed payment.
AskFails(a) ==
    /\ a \in asks
    /\ faults < MaxFaults /\ faults' = faults + 1
    /\ asks' = asks \ {a}
    /\ loop' = IF a.live THEN "resting" ELSE loop
    /\ UNCHANGED <<host, txns, wire, kept, calls, pen, page, receipts, reloads>>

\* The timer of the next round.
AskAgain ==
    /\ loop = "resting"
    /\ loop' = "asking"
    /\ asks' = asks \cup {[txn |-> Question(page), live |-> TRUE]}
    /\ UNCHANGED <<host, txns, wire, kept, calls, pen, page, history>>

\* Razorpay's checkout says it went through: the panel asks sooner.
Nudge ==
    /\ page.penned /\ page.pay.is \in {"waiting", "failed"}
    /\ Restart(Question(page))
    /\ UNCHANGED <<page, calls, pen>> /\ Gesture

-----------------------------------------------------------------------------
HostStep ==
    \/ \E c \in calls : Arrive(c)
    \/ \E i \in DOMAIN tasks :
         \/ BeginsSentence(i) \/ BeginsTap(i) \/ Answers(i) \/ Fails(i)
         \/ Announces(i) \/ Settles(i)
         \/ \E s \in Skus : Proposes(i, s)
    \/ TakeHold
    \/ \E t \in DOMAIN txns : Pays(t) \/ PaymentFails(t)

Hand ==
    \/ Say \/ ChangeChoice \/ Confirm \/ ReviewBill \/ CloseBill
    \/ Press \/ Abort \/ Complete \/ Nudge
    \/ \E s \in Skus : Choose(s)

PageStep ==
    \/ Receive \/ Reload \/ HoldAnswered \/ HoldFails \/ AskAgain
    \/ \E a \in asks : Answer(a) \/ AskFails(a)

BillNext == HostStep \/ Hand \/ PageStep

\* Requests return and timers ring; nobody has to tap, hold, pay or settle.
Fairness ==
    /\ WF_billVars(AskAgain)
    /\ WF_billVars(\E a \in asks : a.live /\ (Answer(a) \/ AskFails(a)))

BillSpec == BillInit /\ [][BillNext]_billVars
BillFairSpec == BillSpec /\ Fairness

-----------------------------------------------------------------------------
(* Properties.                                                              *)

Snapshot == [offering: BOOLEAN, picked: Cards, cart: Cards, awaiting: BOOLEAN,
             running: BOOLEAN, txn: Nat]
Hold == [n: Nat, card: Cards, total: Cards]

BillTypeOK ==
    /\ tasks \in Seq([kind: {"say", "tap"}, ref: Cards, after: Nat, cart: Cards,
                      at: {"queued", "working", "assembling", "gate", "settling",
                           "done"}])
    /\ running \in 0..Len(tasks) /\ proposal \in Cards
    /\ gate \in [waiting: 0..Len(tasks), by: Hold]
    /\ txns \in Seq({"waiting", "paid", "failed"})
    /\ kept \in Snapshot
    /\ pen \in [at: {"none", "sent", "answered"}, mine: BOOLEAN, hold: Hold,
                n: 0..MaxHolds]
    /\ page.snap \in Snapshot /\ page.hand \in Cards \cup {Unset}
    /\ page.place \in {"none", "sheet", "record"}
    /\ asks \subseteq [txn: 1..Len(txns), live: BOOLEAN]
    /\ loop \in {"off", "asking", "resting"}

\* A cart goes to settlement by one hold, and a hold that releases two carts
\* releases the works of two turns that overlapped, and no work that began
\* after: however taps queue behind gates and whenever a hold is kept for a cart
\* still being built (ConfirmationGate's latch, reset by each new run).
OneHoldOneCart ==
    /\ \A i \in DOMAIN tasks :
         tasks[i].at = "settling" => \E r \in receipts : r.task = i
    /\ \A r, q \in receipts :
         /\ r.task = q.task => r = q
         /\ r.n = q.n => r = q \/ r.task \in q.beside \/ q.task \in r.beside

\* ChatSession.tsx:238 "what you see must be what you sign": the card on the
\* bill at the hold is the card whose cart the hold releases.
WhatYouSeeIsWhatYouSign == \A r \in receipts : r.card = r.cart

\* What the panel is told is about the transaction on its bill: once the page
\* knows of a new one, no late answer of usePaymentState's poll brings the old
\* one's "paid" back.
AnswersAreCurrent ==
    [][page'.pay # page.pay => page'.pay.txn \in {0, page'.snap.txn}]_billVars

\* A bill that is paid comes to say so while it is looked at, through failed
\* requests, nudges and remounts, unless it was told that the payment failed,
\* which ends usePaymentState's loop.
PaidBillSaysSo ==
    \A t \in 1..MaxTasks :
        (t \in DOMAIN txns /\ txns[t] = "paid" /\ Question(page) = t)
            ~> \/ Question(page) # t
               \/ page.pay \in [txn: {t}, is: {"paid", "failed"}]
=============================================================================
