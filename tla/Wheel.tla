------------------------------- MODULE Wheel -------------------------------
(***************************************************************************)
(* A checkout at a shop's own window: whose hands are on it               *)
(* (session-state.ts, handoff-controller.ts), what the agent's tool calls  *)
(* do there (guarded-page.ts, point-actions.ts, sign-in-form.ts), the      *)
(* errand that makes the calls and the clock that ends it                  *)
(* (web-buy-step.ts, errand-run.ts), and the checkout that is parked for   *)
(* the shopper and carried on (web-pick-close.ts, web-buy-resume.ts).      *)
(*                                                                         *)
(* A talk is one conversation with the model. What its clock cut off goes  *)
(* on calling tools: nothing cancels it. A call is a tool call suspended   *)
(* at an await, and an action is what runs between two awaits. How turns   *)
(* queue is ChatLanes' subject: here one starts only when none runs.       *)
(***************************************************************************)
EXTENDS Integers, FiniteSets, Sequences, SequencesExt

CONSTANTS
    MaxSessions,  \* bound on the windows ever launched
    MaxTalks,     \* bound on the conversations
    MaxCalls,     \* bound on the tool calls they all make
    Tries,        \* STEP_TRIES: how often a sign-in reads the page
    MaxSends      \* MAX_PASSWORD_SENDS

ASSUME WheelAssumption ==
    /\ MaxSessions \in Nat /\ MaxTalks \in Nat /\ MaxCalls \in Nat
    /\ Tries \in Nat \ {0} /\ MaxSends \in Nat \ {0}

Sessions == 1..MaxSessions
Talks == 1..MaxTalks
NoWindow == 0
Shopper == 0            \* who makes a relayed call
None == "none"
\* Why an agent stops: the end of the road, or a pause for a person (a sign-in,
\* a human check, a final review).
Reasons == {"payment", "pause"}
Forms == {"email-and-password", "password"}    \* forms with a password box
Turns == {"idle", "signing", "launching", "navigating", "errand", "afterword", "saying"}

\* The touches a call makes on the strength of one look at the page.
Cleared == [press |-> 1, write |-> 2, address |-> 1, code |-> 3, relay |-> 1,
            cart |-> 0, signin |-> 0]
Call == [by: Talks \cup {Shopper}, w: Sessions,
         kind: DOMAIN Cleared,
         left: 0..3,            \* touches it may still make before it looks again
         boxes: 0..2,           \* an address: boxes still to fill
         named: BOOLEAN,        \* a sign-in: is the name typed,
         tries: 0..Tries,       \* readings still to make,
         seen: Forms \cup {None},       \* the form it is about to send,
         sent: Seq(Forms),      \* and those it has sent
         strays: 0..4]          \* touches landed with the wheel moved since its gate

VARIABLES
    window,     \* BrowserService.session
    drive,      \* each session's state machine
    pause,      \* does each HandoffController hold a handoff?
    turn,       \* what the chat's running turn is doing
    talk,       \* the conversation it holds
    loose,      \* conversations abandoned by a clock
    used,       \* tool calls made so far
    calls,      \* tool calls suspended at an await
    progress,   \* WebProgress
    park        \* WebPickPark

hands == <<window, drive, pause>>
talks == <<talk, loose, used>>
vars == <<hands, turn, talks, calls, progress, park>>

FreshProgress == [filled |-> FALSE, handed |-> None, challenged |-> None]

TypeOK ==
    /\ window \in Sessions \cup {NoWindow}
    /\ drive \in [Sessions -> {"idle", "agent-drive", "user-drive", "closed"}]
    /\ pause \in [Sessions -> BOOLEAN]
    /\ turn \in Turns
    /\ talk \in 0..MaxTalks
    /\ loose \subseteq Talks
    /\ used \in 0..MaxCalls
    /\ calls \subseteq Call
    /\ progress \in [filled: BOOLEAN, handed: Reasons \cup {None},
                     challenged: {None, "through", "code", "password"}]
    /\ park \in {None, "address", "handback", "code"}

Init ==
    /\ window = NoWindow
    /\ drive = [w \in Sessions |-> "idle"]
    /\ pause = [w \in Sessions |-> FALSE]
    /\ turn = "idle"
    /\ talk = 0 /\ loose = {} /\ used = 0
    /\ calls = {}
    /\ progress = FreshProgress
    /\ park = None

Theirs == window # NoWindow /\ drive[window] = "user-drive"
Ours == window # NoWindow /\ drive[window] = "agent-drive"
CallsOf(t) == {k \in calls : k.by = t}

(***************************************************************************)
(* The wheel.                                                              *)
(***************************************************************************)
\* The first reason to pause owns the pause.
Raise(w) ==
    IF drive[w] = "agent-drive"
    THEN /\ drive' = [drive EXCEPT ![w] = "user-drive"]
         /\ pause' = [pause EXCEPT ![w] = TRUE]
    ELSE UNCHANGED <<drive, pause>>

\* The page goes, and every call suspended on it ends on "the page moved".
Close ==
    /\ window # NoWindow
    /\ drive' = [drive EXCEPT ![window] = "closed"]
    /\ window' = NoWindow
    /\ calls' = {k \in calls : k.w # window}
    /\ UNCHANGED pause

Launch ==
    \E w \in Sessions :
        /\ drive[w] = "idle" /\ \A v \in 1..(w - 1) : drive[v] # "idle"
        /\ window' = w
        /\ drive' = [drive EXCEPT ![w] = "agent-drive"]
        /\ UNCHANGED pause

\* The shopper asks for the wheel.
Takeover ==
    /\ Ours
    /\ Raise(window)
    /\ UNCHANGED <<window, turn, talks, calls, progress, park>>

\* The shopper, or the end of the process, closes the window at any time.
CloseWindow ==
    /\ Close
    /\ UNCHANGED <<turn, talks, progress, park>>

\* Nobody has looked for two minutes, no errand holds the window, and the
\* wheel is not the shopper's.
Reap ==
    /\ turn \notin {"errand", "afterword"}
    /\ Ours
    /\ Close
    /\ UNCHANGED <<turn, talks, progress, park>>

(***************************************************************************)
(* A turn: the picked card opened, the errand, and how it closes.          *)
(***************************************************************************)
StartTalk == talk' = talk + 1 /\ UNCHANGED <<loose, used>>
\* Room for what an errand may need: its own conversation, and another.
Room == talk + 2 <= MaxTalks
\* What the clock cut off is not awaited any more.
Abandon == loose' = loose \cup {talk}

\* A tapped card becomes a drafted covenant, and the turn stands at the
\* hold-to-sign: for as long as the person likes, there is no clock on it.
Pick ==
    /\ turn = "idle" /\ Room
    /\ turn' = "signing"
    /\ UNCHANGED <<hands, talks, calls, progress, park>>

\* The covenant is signed and committed, and only then the shop is opened:
\* launch a window, or navigate the one that is there. At the shopper's wheel
\* the navigation is refused, and a sentence says so.
CovenantSigned ==
    /\ turn = "signing"
    /\ IF Theirs THEN turn' = "saying" /\ StartTalk
       ELSE /\ turn' = IF window = NoWindow THEN "launching" ELSE "navigating"
            /\ UNCHANGED talks
    /\ UNCHANGED <<hands, calls, progress, park>>

\* The conversation was deleted at the gate, or the gateway refused the
\* covenant: the turn throws, and what stood parked still does.
CovenantRefused ==
    /\ turn = "signing"
    /\ turn' = "idle"
    /\ UNCHANGED <<hands, talks, calls, progress, park>>

Opened ==
    /\ \/ turn = "launching" /\ Launch
       \/ turn = "navigating" /\ window # NoWindow /\ UNCHANGED hands
    /\ turn' = "errand"
    /\ StartTalk
    /\ progress' = FreshProgress
    /\ UNCHANGED <<calls, park>>

\* Mutant: the record is wiped although the page did not open.
OpenFailsReset ==
    /\ turn \in {"launching", "navigating"}
    /\ turn' = "saying"
    /\ StartTalk
    /\ progress' = FreshProgress
    /\ UNCHANGED <<hands, calls, park>>
OpenFails ==
    /\ turn \in {"launching", "navigating"}
    /\ turn' = "saying"
    /\ StartTalk
    /\ UNCHANGED <<hands, calls, progress, park>>

\* Why a checkout stands still, decided from what this host watched.
Resumable == progress.handed \notin {None, "payment"}
ParkReason ==
    CASE progress.challenged = "code" /\ progress.handed = None -> "code"
      [] progress.filled /\ progress.handed = None -> "address"
      [] Resumable -> "handback"
      [] OTHER -> None

\* Both legs said their piece; every call they made has answered.
ErrandEnds ==
    /\ turn = "errand"
    /\ CallsOf(talk) = {}
    /\ turn' = "idle"
    /\ park' = ParkReason
    /\ UNCHANGED <<hands, talks, calls, progress>>

\* A leg threw, its calls answered; a fresh conversation says how it ended.
ErrandFails ==
    /\ turn = "errand"
    /\ CallsOf(talk) = {}
    /\ turn' = "afterword"
    /\ StartTalk
    /\ UNCHANGED <<hands, calls, progress, park>>

\* Mutant: the errand's clock waits for the call under way.
ErrandExpiresQuietly ==
    /\ turn = "errand"
    /\ CallsOf(talk) = {}
    /\ turn' = "afterword"
    /\ Abandon
    /\ talk' = talk + 1 /\ UNCHANGED used
    /\ UNCHANGED <<hands, calls, progress, park>>
\* The clock rang: whatever is under way is left to land as it will.
ErrandExpires ==
    /\ turn = "errand"
    /\ turn' = "afterword"
    /\ Abandon
    /\ talk' = talk + 1 /\ UNCHANGED used
    /\ UNCHANGED <<hands, calls, progress, park>>

\* A sentence alone: answered, every call it made with it, or cut off by its
\* own clock.
AfterwordEnds ==
    /\ turn = "afterword"
    /\ turn' = "idle"
    /\ park' = ParkReason
    /\ Abandon \/ (CallsOf(talk) = {} /\ UNCHANGED loose)
    /\ UNCHANGED <<hands, talk, used, calls, progress>>
SayingEnds ==
    /\ turn = "saying"
    /\ turn' = "idle"
    /\ Abandon \/ (CallsOf(talk) = {} /\ UNCHANGED loose)
    /\ UNCHANGED <<hands, talk, used, calls, progress, park>>

\* A parked checkout goes on; at the shopper's wheel a sentence says so.
Resume ==
    /\ turn = "idle" /\ park # None /\ Room
    /\ StartTalk
    /\ IF Theirs THEN turn' = "saying" /\ UNCHANGED progress
       ELSE turn' = "errand" /\ progress' = FreshProgress
    /\ UNCHANGED <<hands, calls, park>>

\* Mutant: the pause is not cleared with the wheel.
HandBackKeepsPause ==
    /\ window # NoWindow /\ pause[window]
    /\ (turn = "idle" /\ park # None) => Room
    /\ drive' = [drive EXCEPT ![window] = "agent-drive"]
    /\ IF turn = "idle" /\ park # None
       THEN turn' = "errand" /\ StartTalk /\ progress' = FreshProgress
       ELSE UNCHANGED <<turn, talks, progress>>
    /\ UNCHANGED <<window, pause, calls, park>>
\* The wheel comes back, and the parked checkout carries on by itself - unless
\* a turn is running. Without a pause the call throws.
HandBack ==
    /\ window # NoWindow /\ pause[window]
    /\ (turn = "idle" /\ park # None) => Room
    /\ drive' = [drive EXCEPT ![window] = "agent-drive"]
    /\ pause' = [pause EXCEPT ![window] = FALSE]
    /\ IF turn = "idle" /\ park # None
       THEN turn' = "errand" /\ StartTalk /\ progress' = FreshProgress
       ELSE UNCHANGED <<turn, talks, progress>>
    /\ UNCHANGED <<window, calls, park>>

(***************************************************************************)
(* The tool calls.                                                         *)
(***************************************************************************)
\* A conversation that may call a tool: the turn's, or an abandoned one.
Calling(t) ==
    /\ \/ turn \in {"errand", "afterword", "saying"} /\ t = talk
       \/ t \in loose
    /\ CallsOf(t) = {}
    /\ used < MaxCalls
Count == used' = used + 1 /\ UNCHANGED <<talk, loose>>

New(t, kind) ==
    [by |-> t, w |-> window, kind |-> kind,
     left |-> Cleared[kind],
     boxes |-> IF kind = "address" THEN 2 ELSE 0,
     named |-> FALSE,
     tries |-> IF kind = "signin" THEN Tries ELSE 0,
     seen |-> None, sent |-> <<>>, strays |-> 0]
\* assertAgentMayAct, once, and the first await.
Begin(t, kind) ==
    /\ Ours
    /\ calls' = calls \cup {New(t, kind)}

CallTool ==
    \E t \in Talks, kind \in DOMAIN Cleared :
        /\ Calling(t) /\ kind # "relay"
        /\ Begin(t, kind)
        /\ Count
        /\ UNCHANGED <<hands, turn, progress, park>>

\* web_open: an open window is navigated, a closed one launched again.
OpenTool ==
    \E t \in Talks :
        /\ Calling(t)
        /\ window = NoWindow
        /\ Launch
        /\ Count
        /\ UNCHANGED <<turn, calls, progress, park>>

\* web_handover: written down, then raised, whoever has the wheel.
HandoverTool ==
    \E t \in Talks, reason \in Reasons :
        /\ Calling(t)
        /\ window # NoWindow
        /\ progress' = [progress EXCEPT !.handed = IF @ = None THEN reason ELSE @]
        /\ Raise(window)
        /\ Count
        /\ UNCHANGED <<window, turn, calls, park>>

\* The shopper's own click or key, relayed while they drive.
Relay ==
    /\ Theirs
    /\ CallsOf(Shopper) = {}
    /\ calls' = calls \cup {New(Shopper, "relay")}
    /\ UNCHANGED <<hands, turn, talks, progress, park>>

Replace(k, l) == calls' = (calls \ {k}) \cup {l}
Drop(k) == calls' = calls \ {k}
\* Has the wheel moved away from whoever makes this call?
Stray(k) == drive[k.w] = IF k.by = Shopper THEN "agent-drive" ELSE "user-drive"
Landing(k) == [k EXCEPT !.strays = IF Stray(k) THEN @ + 1 ELSE @]

\* The look came back clean, and the touch follows in the same breath.
Touch ==
    \E k \in calls :
        /\ k.left > 0
        /\ Replace(k, [Landing(k) EXCEPT
               !.left = @ - 1, !.boxes = IF k.kind = "address" THEN @ - 1 ELSE @])
        /\ UNCHANGED <<hands, turn, talks, progress, park>>

\* The last touch answered, and it is journalled.
Answered ==
    \E k \in calls :
        /\ k.kind \in {"press", "write", "code", "relay"} /\ k.left = 0
        /\ Drop(k)
        /\ UNCHANGED <<hands, turn, talks, progress, park>>

\* The look, or the target's aim, refuses the call before its first touch: a
\* sensitive control hands the wheel over, and nothing is written down.
Refused ==
    \E k \in calls :
        /\ k.left > 0 /\ k.left = Cleared[k.kind]
        /\ Drop(k)
        /\ \/ UNCHANGED <<drive, pause>>
           \/ /\ k.kind \in {"press", "write", "address"}
              /\ Raise(k.w)
        /\ UNCHANGED <<window, turn, talks, progress, park>>

\* Mutant: the gate is asked for the form, not for each of its boxes.
NextBoxUngated ==
    \E k \in calls :
        /\ k.kind = "address" /\ k.left = 0 /\ k.boxes > 0
        /\ Replace(k, [k EXCEPT !.left = 1])
        /\ UNCHANGED <<hands, turn, talks, progress, park>>
\* The next box of the address asks at the gate again; the form is written
\* down as filled only when no box was refused.
NextBox ==
    \E k \in calls :
        /\ k.kind = "address" /\ k.left = 0 /\ k.boxes > 0
        /\ IF drive[k.w] = "agent-drive" THEN Replace(k, [k EXCEPT !.left = 1, !.strays = 0])
           ELSE Drop(k)
        /\ UNCHANGED <<hands, turn, talks, progress, park>>
AddressFilled ==
    \E k \in calls :
        /\ k.kind = "address" /\ k.left = 0 /\ k.boxes < 2
        /\ Drop(k)
        /\ progress' = [progress EXCEPT !.filled = TRUE]
        /\ UNCHANGED <<hands, turn, talks, park>>

\* web_cart: the basket was read; within the signed bounds it is the shopper's
\* to look at, outside them nothing opens.
CartRead ==
    \E k \in calls :
        /\ k.kind = "cart"
        /\ Drop(k)
        /\ \/ UNCHANGED <<drive, pause>>
           \/ Raise(k.w)
        /\ UNCHANGED <<window, turn, talks, progress, park>>

(***************************************************************************)
(* The stored sign-in: past the gate once, then one reading of the page    *)
(* after another.                                                          *)
(***************************************************************************)
SigningIn(k) == k.kind = "signin" /\ k.seen = None
\* Mutant: a form that has not moved yet is not recognised.
SentAlreadyNever(k, form) == FALSE
\* The form just sent, unchanged: it has not moved yet.
SentAlready(k, form) == k.sent # <<>> /\ Last(k.sent) = form

\* A reading with a password box on it: wait, give up, or aim at it.
SeesPassword ==
    \E k \in calls, form \in Forms :
        /\ SigningIn(k) /\ k.tries > 0
        /\ Replace(k, CASE SentAlready(k, form) -> [k EXCEPT !.tries = @ - 1]
                         [] Len(k.sent) >= MaxSends -> [k EXCEPT !.tries = 0]
                         [] OTHER -> [k EXCEPT !.tries = @ - 1, !.seen = form])
        /\ UNCHANGED <<hands, turn, talks, progress, park>>

\* A reading without one: the form is behind us, or asks for the name first,
\* or there is none.
SeesNoPassword ==
    \E k \in calls :
        /\ SigningIn(k) /\ k.tries > 0
        /\ \/ k.sent # <<>> /\ Replace(k, [k EXCEPT !.tries = 0])
           \/ k.sent = <<>> /\ k.named /\ Replace(k, [k EXCEPT !.tries = @ - 1])
           \/ k.sent = <<>> /\ ~k.named
              /\ Replace(k, [k EXCEPT !.tries = @ - 1, !.named = TRUE])
           \/ k.sent = <<>> /\ ~k.named /\ Drop(k)
        /\ UNCHANGED <<hands, turn, talks, progress, park>>

\* The password typed and sent, unless the point is not the box any more. A
\* name box beside it is filled in the same breath.
SendPassword ==
    \E k \in calls :
        /\ k.seen # None
        /\ \/ Drop(k)
           \/ \E named \in {k.named, TRUE} :
                 Replace(k, [k EXCEPT !.sent = Append(@, k.seen),
                                      !.seen = None, !.named = named])
        /\ UNCHANGED <<hands, turn, talks, progress, park>>

\* The page settles, read through the gate; what still challenges is recorded.
SignInEnds ==
    \E k \in calls :
        /\ SigningIn(k) /\ k.tries = 0
        /\ Drop(k)
        /\ IF k.sent # <<>> /\ drive[k.w] = "agent-drive"
           THEN \E c \in {"through", "code", "password"} :
                    progress' = [progress EXCEPT !.challenged = c]
           ELSE UNCHANGED progress
        /\ UNCHANGED <<hands, turn, talks, park>>

Tool ==
    \/ CallTool \/ OpenTool \/ HandoverTool \/ Relay \/ Touch
    \/ Answered \/ Refused \/ NextBox \/ AddressFilled \/ CartRead
    \/ SeesPassword \/ SeesNoPassword \/ SendPassword \/ SignInEnds
Turn ==
    \/ Pick \/ CovenantSigned \/ CovenantRefused \/ Opened \/ OpenFails
    \/ ErrandEnds \/ ErrandFails \/ ErrandExpires \/ AfterwordEnds \/ SayingEnds \/ Resume
Next == Tool \/ Turn \/ Takeover \/ HandBack \/ CloseWindow \/ Reap

Spec == Init /\ [][Next]_vars

\* What ends by itself: a page load has its own timeout, an errand and a
\* sentence their clocks. No tool call is assumed ever to return, and no person
\* ever to sign.
FairSpec ==
    /\ Spec
    /\ WF_vars(Opened \/ OpenFails)
    /\ WF_vars(ErrandExpires)
    /\ WF_vars(AfterwordEnds \/ SayingEnds)

(***************************************************************************)
(* Properties.                                                             *)
(***************************************************************************)
\* Whoever stops the agent, and in whatever order: a window is at its shopper's
\* wheel exactly while a pause is there to be handed back. A wheel without a
\* pause could never be returned (resume throws), and a pause at the agent's
\* wheel would swallow the next reason to stop.
WheelIsReturnable ==
    \A w \in Sessions : drive[w] # "closed" =>
        (drive[w] = "user-drive" <=> pause[w])

\* The gate is asked before an await and the touch lands after it, so a call
\* may land with the wheel already moved. It lands no more than it was cleared
\* for: one press, one box of an address form, the click and the keys of one
\* write. (A sign-in passes the gate once for all its readings.)
OnlyWhatWasCleared ==
    \A k \in calls :
        k.strays <= Cleared[k.kind]

\* However slowly the shop's page answers, one sign-in types the password at
\* most MAX_PASSWORD_SENDS times, and never twice into the same form.
PasswordOncePerForm ==
    \A k \in calls : Len(k.sent) <= MaxSends /\ IsInjective(k.sent)

\* A checkout that stands parked between turns stands on something this host
\* still has on record: a code box, a form it filled, or a door it handed over
\* that is not the payment step.
ParkIsHonest ==
    turn = "idle" =>
        CASE park = "code" -> progress.challenged # None
          [] park = "address" -> progress.filled
          [] park = "handback" -> Resumable
          [] OTHER -> TRUE

\* A turn that is past the hold-to-sign ends, even one whose every tool call
\* hangs and whoever takes the wheel or closes the window meanwhile: ChatService
\* queues the next sentence behind it. (errand-run.ts: "An errand ends.") At the
\* hold-to-sign a turn waits for its person, and may wait for ever.
TurnEnds == (turn \notin {"idle", "signing"}) ~> (turn = "idle")
=============================================================================
