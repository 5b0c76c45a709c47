----------------------------- MODULE ChatLanes -----------------------------
(***************************************************************************)
(* The chat surface of agent-host: ChatLanes (one lane per conversation, a *)
(* bounded number of runs, one global line), ChatService (one engine per   *)
(* lane, a second turn queues behind the first), the two ConfirmationGates *)
(* a run stops at for a signature, and the parts of a run that touch them. *)
(*                                                                         *)
(* An action is one synchronous segment of the Node process, with the      *)
(* promise continuations that run before the next event: what a settled    *)
(* run wakes - the turn behind it, the head of the line - wakes with it.   *)
(* Requests name their conversation; the id-less lane of the CLI, and      *)
(* `recent`, which only that lane's requests read, are left out.           *)
(***************************************************************************)
EXTENDS Integers, FiniteSets, Sequences, SequencesExt

CONSTANTS
    Chats,      \* conversation ids
    MaxTurns,   \* bound: turns ever asked
    Cap,        \* laneCapFor(sandboxes): runs at once
    MaxHeld,    \* MAX_HELD_LANES, the default lane not counted
    Kinds,      \* which of TurnKinds the requests may use
    None

TurnKinds ==
    {"say",      \* POST /chat
     "card",     \* a tap on a platform card: the cart is rebuilt for it
     "listing",  \* a tap on an open-web card: the errand at a shop
     "carry"}    \* the wheel handed back: the parked errand resumes

ASSUME LaneBounds ==
    /\ {MaxTurns, Cap, MaxHeld} \subseteq Nat \ {0}
    /\ Cap <= MaxHeld   \* at most MAX_LANES = 3, and 32
    /\ Kinds \subseteq TurnKinds
    /\ None \notin Chats /\ None \notin Nat

Turns == 1..MaxTurns
Lanes == 1..(MaxTurns + MaxHeld + 1)

VARIABLES
    turn,     \* every turn, numbered in the order it was asked
    line,     \* ChatLanes.waiting
    held,     \* ChatLanes.lanes, oldest first
    lane,     \* what a lane object keeps
    phase,    \* the process: serving, settling its runs, closed, or cut short
    awaited   \* the runs the shutdown waits for

vars == <<turn, line, held, lane, phase, awaited>>

\* Where a run can be. `intent` and `cart` are the two gates.
Waits == {"intent", "cart"}
Works == {"thinking", "issuing", "shopping", "errand", "paying"}
Stages == {"unasked", "line", "behind", "done", "dropped"} \cup Waits \cup Works

Gate == [released: BOOLEAN, waiter: Turns \cup {None}]
ClosedGate == [released |-> FALSE, waiter |-> None]

TurnRecord == [chat: Chats \cup {None}, kind: TurnKinds \cup {None},
               lane: Lanes \cup {None}, after: Turns \cup {None},
               stage: Stages, gone: BOOLEAN]
LaneRecord == [chat: Chats \cup {None}, running: Turns \cup {None},
               intent: Gate, cart: Gate,
               seated: BOOLEAN,    \* a sentence has run here
               proposal: BOOLEAN,  \* lastProposal holds a cart
               parked: BOOLEAN]    \* a checkout waits for the shopper

FreshLane(c) == [chat |-> c, running |-> None, intent |-> ClosedGate,
                 cart |-> ClosedGate, seated |-> FALSE, proposal |-> FALSE,
                 parked |-> FALSE]

TypeOK ==
    /\ turn \in [Turns -> TurnRecord]
    /\ line \in Seq(Turns) /\ Len(line) <= MaxTurns
    /\ held \in Seq(Lanes) /\ Len(held) <= MaxHeld
    /\ lane \in [Lanes -> LaneRecord]
    /\ phase \in {"serving", "settling", "closed", "cut"}
    /\ awaited \subseteq Turns

Init ==
    /\ turn = [t \in Turns |-> [chat |-> None, kind |-> None, lane |-> None,
                                after |-> None, stage |-> "unasked",
                                gone |-> FALSE]]
    /\ line = <<>>
    /\ held = <<>>
    /\ lane = [l \in Lanes |-> FreshLane(None)]
    /\ phase = "serving"
    /\ awaited = {}

(***************************************************************************)
(* The host as a value, so that what one call does to it can be composed   *)
(* in the order the code makes the calls.                                  *)
(***************************************************************************)
Host == [turn |-> turn, line |-> line, held |-> held, lane |-> lane]

Moved(h, t, s) == [h EXCEPT !.turn[t].stage = s]

Live(h, t) == h.turn[t].stage \in Waits \cup Works
Unfinished(h, t) == Live(h, t) \/ h.turn[t].stage = "behind"

LanesOf(h, c) == {l \in Range(h.held) : h.lane[l].chat = c}
Busy(h, l) == h.lane[l].running # None
Running(h) == Cardinality({l \in Range(h.held) : Busy(h, l)})

\* The oldest idle lane is let go, and its window closed.
PruneLanes(h) ==
    LET idle == {i \in DOMAIN h.held : ~Busy(h, h.held[i])}
    IN  IF Len(h.held) <= MaxHeld \/ idle = {} THEN h
        ELSE [h EXCEPT !.held =
                RemoveAt(@, CHOOSE i \in idle : \A j \in idle : i <= j)]

\* A lane object nothing refers to any more.
Unused(h) ==
    {l \in Lanes : /\ l \notin Range(h.held)
                   /\ \A t \in Turns : Unfinished(h, t) => h.turn[t].lane # l}

\* The host after a call; a lane object nothing refers to is collected.
Become(h) ==
    /\ turn' = h.turn /\ line' = h.line /\ held' = h.held
    /\ lane' = [l \in Lanes |->
                  IF l \in Unused(h) THEN FreshLane(None) ELSE h.lane[l]]

\* The lane of a conversation, built when none is held: the host, and it.
LaneFor(h, c) ==
    IF LanesOf(h, c) # {}
    THEN [host |-> h, lane |-> CHOOSE l \in LanesOf(h, c) : TRUE]
    ELSE LET l == CHOOSE l \in Unused(h) : TRUE
         IN  [host |-> PruneLanes([h EXCEPT !.lane[l] = FreshLane(c),
                                            !.held = Append(@, l)]),
              lane |-> l]

(***************************************************************************)
(* A turn of a lane.                                                       *)
(***************************************************************************)
\* Mutant: a new turn keeps the last cart's signature.
FreshTableKeepsGate(h, l) ==
    [h EXCEPT !.lane[l] = [@ EXCEPT !.proposal = FALSE, !.seated = TRUE]]

\* ChatService.after into PurchaseRunner.freshTable.
FreshTable(h, l) ==
    [h EXCEPT !.lane[l] = [@ EXCEPT !.cart = ClosedGate, !.proposal = FALSE,
                                    !.seated = TRUE]]

\* reproposeSku, when a proposal stands to rebuild.
Repropose(h, l) == [h EXCEPT !.lane[l].cart = ClosedGate]

\* What a turn does before its first wait. A tapped platform card with no
\* proposal standing names no listing either, and only has to settle.
Commence(h, t) ==
    LET l == h.turn[t].lane
        kind == h.turn[t].kind
    IN  CASE kind = "say" -> Moved(FreshTable(h, l), t, "thinking")
          [] kind = "card" /\ h.lane[l].proposal ->
                Moved(Repropose(h, l), t, "shopping")
          [] kind = "carry" -> Moved(h, t, "errand")
          [] OTHER -> Moved(h, t, "thinking")

\* ChatService.queue: the turn waits for whatever `running` holds.
Queue(h, t, l) ==
    LET before == h.lane[l].running
        asked == [h EXCEPT !.turn[t] = [@ EXCEPT !.lane = l, !.after = before],
                           !.lane[l].running = t]
    IN  IF before = None THEN Commence(asked, t) ELSE Moved(asked, t, "behind")

\* One look at the head of the line; a head that may not start ends the look.
DrainStep(acc, t) ==
    IF ~acc.open THEN acc
    ELSE LET for == LaneFor(acc.host, acc.host.turn[t].chat)
             h == for.host
         IN  IF Busy(h, for.lane) \/ Running(h) < Cap
             THEN [host |-> Queue([h EXCEPT !.line = Tail(@)], t, for.lane),
                   open |-> TRUE]
             ELSE [host |-> h, open |-> FALSE]

Drain(h) == FoldLeft(DrainStep, [host |-> h, open |-> TRUE], h.line).host

\* Mutant: a tap's end moves no line.
MovesLineForSentences(h, t) == h.turn[t].kind = "say"

\* ChatLanes.begun: only a run the lanes began moves the line when it ends.
MovesLine(h, t) == h.turn[t].kind # "carry"

\* A run's promise settles: `running` is cleared whoever holds it by then,
\* the turn behind it commences, and the line moves.
Settle(h, t) ==
    LET idle == [h EXCEPT !.turn[t] = [@ EXCEPT !.stage = "done", !.lane = None],
                          !.lane[h.turn[t].lane].running = None]
        next == {s \in Turns : h.turn[s].after = t /\ h.turn[s].stage = "behind"}
        woken == IF next = {} THEN idle
                 ELSE Commence(idle, CHOOSE s \in next : TRUE)
    IN  IF MovesLine(h, t) THEN Drain(woken) ELSE woken

\* ConfirmationGate.wait: straight through a released gate, else in line.
\* A second waiter takes the place of the first.
Wait(h, t, gate, onward) ==
    LET l == h.turn[t].lane
    IN  IF h.lane[l][gate].released THEN Moved(h, t, onward)
        ELSE [Moved(h, t, gate) EXCEPT !.lane[l][gate].waiter = t]

\* Mutant: the release is cleared before it is called.
SignClearsFirst(h, l, gate, onward) ==
    [h EXCEPT !.lane[l][gate] = [released |-> TRUE, waiter |-> None]]

\* ConfirmationGate.sign.
Sign(h, l, gate, onward) ==
    LET w == h.lane[l][gate].waiter
        open == [h EXCEPT !.lane[l][gate] = [released |-> TRUE, waiter |-> None]]
    IN  IF w = None THEN open ELSE Moved(open, w, onward)

\* Both gates refuse at once: neither keeps a waiter.
Refused(h, l) ==
    [h EXCEPT !.lane[l] = [@ EXCEPT !.intent.waiter = None,
                                    !.cart.waiter = None]]

\* A run whose gate refused throws, and settles like any other.
Aborts(h, t) == IF t = None THEN h ELSE Settle(h, t)

\* cancelChat, on a lane whose conversation is known: the runs that were
\* waiting abort, the intent's before the cart's.
CancelChat(h, l) ==
    IF h.lane[l].seated
    THEN Aborts(Aborts(Refused(h, l), h.lane[l].intent.waiter),
                h.lane[l].cart.waiter)
    ELSE h

(***************************************************************************)
(* The requests.                                                           *)
(***************************************************************************)

\* POST /chat and /chat/web-pick: ChatLanes.admit.
Admit(c, kind) ==
    /\ phase = "serving"
    /\ kind \in Kinds \ {"carry"}
    /\ \E t \in Turns :
        /\ turn[t].stage = "unasked"
        /\ \A s \in Turns : s < t => turn[s].stage # "unasked"
        /\ LET for == LaneFor([Host EXCEPT !.turn[t] =
                                  [@ EXCEPT !.chat = c, !.kind = kind]], c)
               h == for.host
               inLine == \E s \in Range(line) : turn[s].chat = c
           IN  Become(
                 IF ~inLine /\ (Busy(h, for.lane) \/ Running(h) < Cap)
                 THEN Queue(h, t, for.lane)
                 ELSE [Moved(h, t, "line") EXCEPT !.line = Append(@, t)])
    /\ UNCHANGED <<phase, awaited>>

\* The wheel handed back: ChatLanes.carryOn, which asks no one for a slot.
CarryOn(c) ==
    /\ phase = "serving"
    /\ "carry" \in Kinds
    /\ \E l \in LanesOf(Host, c), t \in Turns :
        /\ turn[t].stage = "unasked"
        /\ \A s \in Turns : s < t => turn[s].stage # "unasked"
        /\ lane[l].parked /\ ~Busy(Host, l)
        /\ Become(Queue([Host EXCEPT !.turn[t] =
                             [@ EXCEPT !.chat = c, !.kind = "carry"]], t, l))
    /\ UNCHANGED <<phase, awaited>>

\* POST /chat/intent/sign and /chat/cart/sign, by a shopper who signs only
\* what `state.awaiting` shows.
SignIntent(c) ==
    /\ phase = "serving"
    /\ \E l \in LanesOf(Host, c) :
        /\ lane[l].intent.waiter # None
        /\ Become(Sign(Host, l, "intent", "issuing"))
    /\ UNCHANGED <<phase, awaited>>

SignCart(c) ==
    /\ phase = "serving"
    /\ \E l \in LanesOf(Host, c) :
        /\ lane[l].cart.waiter # None
        /\ Become(Sign(Host, l, "cart", "paying"))
    /\ UNCHANGED <<phase, awaited>>

\* The chat's first place in line is given up, and its lane if one is held.
LeaveLine(h, c) ==
    LET mine == {i \in DOMAIN h.line : h.turn[h.line[i]].chat = c}
        first == CHOOSE i \in mine : \A j \in mine : i <= j
    IN  IF mine = {} THEN h
        ELSE [Moved(h, h.line[first], "dropped") EXCEPT
                !.line = RemoveAt(@, first)]

\* Mutant: the lane of a deleted chat stays.
LetStay(h, l) == h

LetGo(h, l) ==
    [h EXCEPT !.held = RemoveAt(@, CHOOSE i \in DOMAIN @ : @[i] = l)]

\* What runs on a deleted lane runs for a chat that is gone.
Orphaned(h, l) ==
    [h EXCEPT !.turn = [t \in Turns |->
        IF Unfinished(h, t) /\ h.turn[t].lane = l
        THEN [h.turn[t] EXCEPT !.gone = TRUE] ELSE h.turn[t]]]

\* POST /chat/cancel: ChatLanes.cancel.
Cancel(c) ==
    /\ phase = "serving"
    /\ LanesOf(Host, c) # {} \/ \E i \in DOMAIN line : turn[line[i]].chat = c
    /\ LET h == LeaveLine(Host, c)
       IN  IF LanesOf(h, c) = {} THEN Become(h)
           ELSE \E l \in LanesOf(h, c) :
                    Become(CancelChat(Orphaned(LetGo(h, l), l), l))
    /\ UNCHANGED <<phase, awaited>>

(***************************************************************************)
(* The run itself, between its waits.                                      *)
(***************************************************************************)
At(t, s) == phase \in {"serving", "settling"} /\ turn[t].stage = s

\* The planner has answered: the parked errand goes on, an intent is drafted
\* and shown, a tapped listing is covenanted first, or the turn is only talk.
Plan(t) ==
    /\ At(t, "thinking")
    /\ \/ /\ turn[t].kind = "say"
          /\ Become(IF lane[turn[t].lane].parked THEN Moved(Host, t, "errand")
                    ELSE Wait(Host, t, "intent", "issuing"))
       \/ /\ turn[t].kind = "listing" /\ lane[turn[t].lane].seated
          /\ Become(Wait(Host, t, "intent", "issuing"))
       \/ Become(Settle(Host, t))
    /\ UNCHANGED <<phase, awaited>>

\* IntentFlow.commit: the mandate is issued and the covenant signed, or the
\* gateway refuses it.
Issue(t) ==
    /\ At(t, "issuing")
    /\ \/ turn[t].kind = "say" /\ Become(Moved(Host, t, "shopping"))
       \/ Become(Moved(Host, t, "errand"))
       \/ Become(Settle(Host, t))
    /\ UNCHANGED <<phase, awaited>>

Proposed(h, t) == [h EXCEPT !.lane[h.turn[t].lane].proposal = TRUE]

\* buyThrough and reproposeSku after the intent: nothing bought, or a cart
\* that is refused, or shown and then held for the shopper's signature.
Shop(t) ==
    /\ At(t, "shopping")
    /\ \/ Become(Settle(Host, t))
       \/ Become(Settle(Proposed(Host, t), t))
       \/ Become(Wait(Proposed(Host, t), t, "cart", "paying"))
    /\ UNCHANGED <<phase, awaited>>

\* WebBuyStep's errand, fresh or resumed; closePick parks it or lets it go.
RunErrand(t) ==
    /\ At(t, "errand")
    /\ \E parks \in BOOLEAN :
        Become(Settle([Host EXCEPT !.lane[turn[t].lane].parked = parks], t))
    /\ UNCHANGED <<phase, awaited>>

\* Settlement.settle: the gateway is called and its answer read.
Pay(t) ==
    /\ At(t, "paying")
    /\ Become(Settle(Host, t))
    /\ UNCHANGED <<phase, awaited>>

Work(t) == Plan(t) \/ Issue(t) \/ Shop(t) \/ RunErrand(t) \/ Pay(t)

(***************************************************************************)
(* Shutdown: no request any more, then the running turns are waited for.   *)
(***************************************************************************)
\* Mutant: the line is left as it stands.
SettleAllKeepsLine ==
    /\ phase = "serving"
    /\ phase' = "settling"
    /\ awaited' = {lane[l].running : l \in Range(held)} \ {None}
    /\ UNCHANGED <<turn, line, held, lane>>

SettleAll ==
    /\ phase = "serving"
    /\ phase' = "settling"
    /\ awaited' = {lane[l].running : l \in Range(held)} \ {None}
    /\ Become([Host EXCEPT !.line = <<>>,
                 !.turn = [t \in Turns |-> IF turn[t].stage = "line"
                             THEN [turn[t] EXCEPT !.stage = "dropped"]
                             ELSE turn[t]]])

\* Everything waited for has settled, or the drain's time is up.
CloseAll ==
    /\ phase = "settling"
    /\ phase' = IF \A t \in awaited : turn[t].stage = "done" THEN "closed"
                ELSE "cut"
    /\ UNCHANGED <<turn, line, held, lane, awaited>>

Requests(c) == \/ \E k \in Kinds : Admit(c, k)
               \/ CarryOn(c) \/ SignIntent(c) \/ SignCart(c) \/ Cancel(c)

Next == \/ \E c \in Chats : Requests(c)
        \/ \E t \in Turns : Work(t)
        \/ SettleAll \/ CloseAll

Spec == Init /\ [][Next]_vars

\* A model call, an errand, a gateway call ends; a shopper need not sign.
\* (Weak fairness of Work(t), which is enabled exactly while the run works.)
WorkEnds(t) == []<>(turn[t].stage \notin Works \/ phase \in {"closed", "cut"})

FairSpec == Spec /\ \A t \in Turns : WorkEnds(t)

(***************************************************************************)
(* Properties.                                                             *)
(***************************************************************************)
\* A chat none of whose turns was ever queued behind another of its turns.
\* ChatService clears `running` when any of its turns settles, so once a turn
\* has been queued the engine may call itself idle while that turn runs.
Calm(c) == \A t \in Turns : turn[t].chat = c => turn[t].after = None
AllCalm == \A c \in Chats : Calm(c)

Held(t) == turn[t].lane \in Range(held)
InLine(t) == turn[t].stage = "line"

\* A run waiting for a signature on a lane the host holds is the one its gate
\* would release: a fresh table, a rebuilt cart or a pruned lane never strands
\* it (confirmation-gate.ts, purchase-runner.ts freshTable, lane-prune.ts).
EveryWaitIsAnswerable ==
    \A t \in Turns :
        turn[t].stage \in Waits /\ Held(t) /\ Calm(turn[t].chat)
        => lane[turn[t].lane][turn[t].stage].waiter = t

\* The shutdown closes sessions and databases under no run: a turn the line
\* held cannot start behind the back of settleAll (shutdown.ts:14).
CloseWaitsForEveryRun ==
    phase = "closed" /\ AllCalm =>
        \A t \in Turns : Live(Host, t) => turn[t].gone

\* A cart is paid only by a run that was shown to the shopper and waited for
\* the signature: no signature left over from an earlier cart of the lane pays
\* for it (propose-step.ts:60, purchase-runner.ts:56, buy-step.ts:79).
CartsAreHeldFor ==
    [][\A t \in Turns :
         turn'[t].stage = "paying" /\ turn[t].stage # "paying"
         /\ Calm(turn[t].chat)
         => turn[t].stage = "cart"]_vars

\* A run whose chat was deleted before its cart was signed never pays: "every-
\* thing it would have touched is gone when it returns" (chat-cancel.ts:5).
DeletedNeverPays ==
    [][\A t \in Turns :
         turn[t].gone /\ turn[t].stage # "paying" /\ Calm(turn[t].chat)
         => turn'[t].stage # "paying"]_vars

\* Some run can be let go on by a signature its shopper can still give.
HeldUpByAShopper ==
    \E t \in Turns : turn[t].stage \in Waits /\ Held(t)

\* What leaves the line standing though nobody is waited for: a checkout
\* carried on ends without moving it, and a deleted chat's run may reach a
\* gate nobody can sign.
LineForgotten ==
    \E t \in Turns : \/ turn[t].kind = "carry"
                     \/ turn[t].gone /\ turn[t].stage \in Waits

\* A turn stays in line for ever only if, from some point on, some shopper is
\* always being waited for - or the line was forgotten (chat-lanes.ts:141).
LineWaitsOnlyForPeople ==
    \A t \in Turns :
        <>[]InLine(t) => <>[](HeldUpByAShopper \/ LineForgotten)

=============================================================================
