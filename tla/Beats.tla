-------------------------------- MODULE Beats --------------------------------
(***************************************************************************)
(* How a run's beats reach a screen.  The agent host fans each             *)
(* conversation's beats out of a hub (beat-hub.ts), files them in a log    *)
(* that outlives the process (beat-log.ts, beat-store.ts), and answers     *)
(* /chat/state and /chat/history.  The page (audit-ui, conversation/)      *)
(* restores from the log, probes the state, then climbs and falls a ladder *)
(* of rungs - a socket, server-sent events, polling - with a heartbeat     *)
(* that reconciles a stream believed live against /chat/state.             *)
(*                                                                         *)
(* One page watches the chat Mine by its scoped wire; the other chats of   *)
(* the process share its epoch counter and its log.  A beat is its address *)
(* <<epoch, index>>; what it says is left out.  What the host has sent and *)
(* the page has not handled yet is one queue, wire, out of which an answer *)
(* may be taken early, for it travels by a connection of its own.          *)
(* The back-off counters (attempt, proven, climb) are abstracted to a      *)
(* choice between retrying a rung and leaving it.                          *)
(***************************************************************************)
EXTENDS Integers, Sequences, SequencesExt, FiniteSetsExt

CONSTANTS
    Chats,       \* conversations, each with its own lane and hub
    Mine,        \* the one the page shows
    Streams,     \* which push rungs the browser has: "socket", "sse"
    MaxEpoch,    \* bound: epochs a process hands out
    MaxBeats,    \* bound: beats of one run
    MaxWire,     \* bound: messages on their way when one more is sent
    MaxFaults    \* bound: connections lost, lanes retired, reloads, crashes, and
                 \* messages that pass another on their way

ASSUME BeatsAssumption ==
    /\ Mine \in Chats
    /\ Streams \subseteq {"socket", "sse"}
    /\ {MaxEpoch, MaxBeats, MaxWire, MaxFaults} \subseteq Nat

VARIABLES
    last,     \* SharedEpochs.last: the newest epoch handed out
    hub,      \* per chat its lane's hub (epoch 0: no lane), how far its run is,
              \* and whether the lane's recorder knows the chat to file it under
    log,      \* per chat, the addresses conversation_beats holds, oldest first
    asks,     \* requests of the page the host has not answered
    wire,     \* what the host has sent and the page has not handled
    tab,      \* the page's StreamSession
    screen,   \* the addresses folded into the transcript, in order
    dropped,  \* the probes that passed over beats not shown: <<epoch, which>>
    unfiled,  \* has this process published a beat it did not file?
    astray,   \* what has happened that the page cannot tell: see Causes
    faults    \* how much of MaxFaults is used

notes == <<unfiled, astray>>
beatVars == <<last, hub, log, asks, wire, tab, screen, dropped, notes, faults>>

Asks == {"history", "attach", "probe"}
Phases == {"idle", "admitted", "running"}
Rungs == {"socket", "sse", "poll"}
Links == {"none", "asked", "open", "dead"}

\* Beats that name no run, a message that passed another, epochs handed out again.
Causes == {"sse", "overtaken", "reused"}

NoLane == [epoch |-> 0, beats |-> 0, phase |-> "idle", filing |-> FALSE]

(***************************************************************************)
(* A page begins by asking for its history (newSession, liveTransport).    *)
(***************************************************************************)
NewSession ==
    [page |-> "restoring", rung |-> "socket", link |-> "none",
     epoch |-> 0, seen |-> 0, owned |-> FALSE, held |-> <<>>,
     restoredEpoch |-> 0, heartbeat |-> FALSE, misses |-> 0, seenLastTick |-> 0,
     after |-> 0, cursorEpoch |-> 0]

BeatsInit ==
    /\ last = 0
    /\ hub = [c \in Chats |-> NoLane]
    /\ log = [c \in Chats |-> <<>>]
    /\ asks = {"history"}
    /\ wire = <<>>
    /\ tab = NewSession
    /\ screen = <<>>
    /\ dropped = {}
    /\ unfiled = FALSE /\ astray = {}
    /\ faults = 0

(***************************************************************************)
(* The host.                                                               *)
(***************************************************************************)
Frame(kind, epoch, index) == [kind |-> kind, epoch |-> epoch, index |-> index]

IsFrame(message) == message.kind \in {"open", "rebase", "beat"}

Fault == faults < MaxFaults /\ faults' = faults + 1

Room == Len(wire) < MaxWire

\* What is left of a queue when the frames in it are lost.
Answers(queue) ==
    FoldLeft(LAMBDA kept, m : IF IsFrame(m) THEN kept ELSE Append(kept, m), <<>>, queue)

\* What a subscriber of chat c receives; only Mine's stream has a page at its end.
Publish(c, frame) ==
    wire' = IF c = Mine /\ tab.link = "open" THEN Append(wire, frame) ELSE wire

\* laneFor: any request that names the chat builds its lane, and a new hub
\* takes the next epoch of the process.
Build(c) ==
    /\ hub[c].epoch = 0 /\ last < MaxEpoch
    /\ last' = last + 1
    /\ hub' = [hub EXCEPT ![c].epoch = last + 1]
    /\ UNCHANGED <<log, asks, wire, tab, screen, dropped, notes, faults>>

\* A sentence, or a tapped card, occupies the lane before it has reached the
\* hub: `running` is set while the beats are still the last run's.
Admit(c) ==
    /\ hub[c].epoch > 0 /\ hub[c].phase = "idle"
    /\ hub' = [hub EXCEPT ![c].phase = "admitted"]
    /\ UNCHANGED <<last, log, asks, wire, tab, screen, dropped, notes, faults>>

\* A sentence: its recorder is opened with the chat's name, and freshTable ->
\* hub.restart() moves indices and epoch and tells the subscribers.
Restart(c) ==
    /\ hub[c].phase = "admitted" /\ last < MaxEpoch /\ Room
    /\ last' = last + 1
    /\ hub' = [hub EXCEPT ![c] =
                 [epoch |-> last + 1, beats |-> 0, phase |-> "running", filing |-> TRUE]]
    /\ Publish(c, Frame("rebase", last + 1, 0))
    /\ UNCHANGED <<log, asks, tab, screen, dropped, notes, faults>>

\* A tapped card or a carried-on checkout goes on in the same epoch, and does not
\* open the recorder: on a lane that was just built it stays closed.
GoesOn(c) ==
    /\ hub[c].phase = "admitted"
    /\ hub' = [hub EXCEPT ![c].phase = "running"]
    /\ UNCHANGED <<last, log, asks, wire, tab, screen, dropped, notes, faults>>

\* emit: the list, the durable log if its recorder was opened, then every
\* subscriber.
Emit(c) ==
    /\ hub[c].phase = "running" /\ hub[c].beats < MaxBeats /\ Room
    /\ LET index == hub[c].beats + 1
       IN  /\ hub' = [hub EXCEPT ![c].beats = index]
           /\ log' = IF hub[c].filing
                     THEN [log EXCEPT ![c] = Append(@, <<hub[c].epoch, index>>)] ELSE log
           /\ Publish(c, Frame("beat", hub[c].epoch, index))
    /\ unfiled' = (unfiled \/ (c = Mine /\ ~hub[c].filing))
    /\ UNCHANGED <<last, asks, tab, screen, dropped, astray, faults>>

Settle(c) ==
    /\ hub[c].phase = "running"
    /\ hub' = [hub EXCEPT ![c].phase = "idle"]
    /\ UNCHANGED <<last, log, asks, wire, tab, screen, dropped, notes, faults>>

\* Only a probe looks at whether a run is in flight.
StateBody(kind) ==
    [kind |-> kind, ok |-> TRUE, epoch |-> hub[Mine].epoch, beats |-> hub[Mine].beats,
     running |-> kind \in Asks /\ hub[Mine].phase # "idle"]

HistoryBody == [kind |-> "history", ok |-> TRUE, rows |-> log[Mine]]

Failed(kind) == [kind |-> kind, ok |-> FALSE]

Answer(kind) ==
    /\ kind \in asks /\ hub[Mine].epoch > 0 /\ Room
    /\ asks' = asks \ {kind}
    /\ wire' = Append(wire, IF kind = "history" THEN HistoryBody ELSE StateBody(kind))
    /\ UNCHANGED <<last, hub, log, tab, screen, dropped, notes, faults>>

\* subscribe: a cursor of another epoch is told to rebase and replayed from the
\* start; a cursor without an epoch is trusted.
Subscribe ==
    LET h == hub[Mine]
        stale == tab.cursorEpoch # h.epoch /\ (tab.cursorEpoch > 0 \/ tab.rung = "sse")
        from == IF stale THEN 0 ELSE tab.after
        notice == IF stale THEN <<Frame("rebase", h.epoch, 0)>> ELSE <<>>
        replay == [i \in 1..(IF from > h.beats THEN 0 ELSE h.beats - from)
                     |-> Frame("beat", h.epoch, from + i)]
    IN  /\ tab.link = "asked" /\ h.epoch > 0
        /\ tab' = [tab EXCEPT !.link = "open", !.after = 0, !.cursorEpoch = 0]
        /\ wire' = wire \o <<Frame("open", 0, 0)>> \o notice \o replay
        /\ UNCHANGED <<last, hub, log, asks, screen, dropped, notes, faults>>

\* pruneLanes: an idle lane is let go and its hub closes its streams.
Retire(c) ==
    /\ hub[c].epoch > 0 /\ hub[c].phase = "idle"
    /\ Fault
    /\ hub' = [hub EXCEPT ![c] = NoLane]
    /\ tab' = IF c = Mine /\ tab.link = "open" THEN [tab EXCEPT !.link = "dead"] ELSE tab
    /\ UNCHANGED <<last, log, asks, wire, screen, dropped, notes>>

Epochs(c) == {log[c][i][1] : i \in DOMAIN log[c]}

\* SharedEpochs is seeded with the highest epoch the log holds.
SeedEpoch == Max((UNION {Epochs(c) : c \in Chats}) \union {0})

\* The process dies and comes back: lanes, runs and connections are gone, the
\* log stays, and requests that were waiting fail.
HostDies ==
    /\ Fault
    /\ hub' = [c \in Chats |-> NoLane]
    /\ last' = SeedEpoch
    /\ asks' = {}
    /\ wire' = Answers(wire) \o [i \in 1..Cardinality(asks) |-> Failed(SetToSeq(asks)[i])]
    /\ tab' = IF tab.link = "none" THEN tab
              ELSE [tab EXCEPT !.link = "dead", !.after = 0, !.cursorEpoch = 0]
    /\ unfiled' = FALSE
    /\ astray' = IF unfiled THEN astray \union {"reused"} ELSE astray
    /\ UNCHANGED <<log, screen, dropped>>

(***************************************************************************)
(* The page: what a beat and an epoch do to the session.                   *)
(***************************************************************************)
\* Mutant: the cursor of the old run is kept.
RebaseToKeepsSeen(t, epoch) ==
    IF epoch = t.epoch THEN t
    ELSE [t EXCEPT !.epoch = epoch, !.owned = FALSE, !.held = <<>>]

\* rebaseTo: another run's indices say nothing about this one's.
RebaseTo(t, epoch) ==
    IF epoch = t.epoch THEN t
    ELSE [t EXCEPT !.epoch = epoch, !.seen = 0, !.owned = FALSE, !.held = <<>>]

\* The session and what it shows, as one value: [tab, screen].
View(t, s) == [tab |-> t, screen |-> s]

\* feed: skips what the screen has, holds what nobody has claimed yet.
Feed(v, epoch, index) ==
    LET t == [v.tab EXCEPT !.seen = index]
    IN  IF index <= v.tab.seen THEN v
        ELSE IF t.owned THEN View(t, Append(v.screen, <<epoch, index>>))
        ELSE View([t EXCEPT !.held = Append(@, <<epoch, index>>)], v.screen)

\* Mutant: what was held is let go instead of folded.
ClaimForgetsHeld(v) == View([v.tab EXCEPT !.owned = TRUE, !.held = <<>>], v.screen)

\* claim: the scoped wire always names this chat, so the answer is "mine".
Claim(v) ==
    View([v.tab EXCEPT !.owned = TRUE, !.held = <<>>], v.screen \o v.tab.held)

Drain(v, body) ==
    FoldLeft(LAMBDA w, i : Feed(w, body.epoch, i), v,
             [k \in 1..(IF v.tab.seen > body.beats THEN 0 ELSE body.beats - v.tab.seen)
                |-> v.tab.seen + k])

Show(v) == tab' = v.tab /\ screen' = v.screen

\* Messages that say which epoch they speak of.
Names(m) == IF IsFrame(m) THEN m.kind # "open" ELSE m.kind # "history" /\ m.ok

\* What the page cannot tell of message i: that it passed one of an older epoch,
\* and, server-sent, that it is a beat of another run than the session's.
Astray(i) ==
    {c \in Causes :
       \/ /\ c = "overtaken" /\ Names(wire[i])
          /\ \E j \in 1..(i - 1) :
                Names(wire[j]) /\ (wire[j].epoch # wire[i].epoch \/ wire[j].kind \in Asks)
       \/ /\ c = "sse" /\ tab.rung = "sse"
          /\ wire[i].kind = "beat" /\ wire[i].epoch # tab.epoch}

(***************************************************************************)
(* The ladder.                                                             *)
(***************************************************************************)
\* connectSocket / connectSse: an earlier connection is closed, and the cursor
\* that will travel in the URL is the one of this moment.
Connecting(t) ==
    [t EXCEPT !.link = "asked", !.after = t.seen, !.cursorEpoch = t.epoch]

\* fallToSse, startPolling: past a push rung the browser lacks.
Fall(t) ==
    IF t.rung = "socket" /\ "sse" \in Streams
    THEN [Connecting(t) EXCEPT !.rung = "sse"]
    ELSE [t EXCEPT !.link = "none", !.rung = "poll", !.heartbeat = FALSE]

ConnectSocket(t) ==
    IF "socket" \in Streams
    THEN Connecting([t EXCEPT !.rung = IF @ = "poll" THEN @ ELSE "socket"])
    ELSE Fall([t EXCEPT !.rung = "socket"])

\* The first attempt, a retry of the rung, or a climb out of polling.
Connect ==
    /\ tab.page = "on" /\ tab.link = "none"
    /\ tab.rung = "poll" => "socket" \in Streams
    /\ tab' = IF tab.rung = "sse" THEN Connecting(tab) ELSE ConnectSocket(tab)
    /\ UNCHANGED <<last, hub, log, asks, wire, screen, dropped, notes, faults>>

\* The connection is lost, with whatever of it had not arrived.  Neither end
\* need notice.
Break ==
    /\ tab.link \in {"asked", "open"} /\ Fault
    /\ tab' = [tab EXCEPT !.link = "dead", !.after = 0, !.cursorEpoch = 0]
    /\ wire' = Answers(wire)
    /\ UNCHANGED <<last, hub, log, asks, screen, dropped, notes>>

\* socketDied, sseDied: a rung that carried beats is tried again or fallen past;
\* a climb from polling is only put off.
RungDied ==
    /\ tab.link = "dead"
    /\ \E t \in {[tab EXCEPT !.link = "none"]} \union
                (IF tab.rung = "poll" THEN {} ELSE {Fall(tab)}) : tab' = t
    /\ wire' = Answers(wire)
    /\ UNCHANGED <<last, hub, log, asks, screen, dropped, notes, faults>>

\* The polling loop and the heartbeat come round once their last answer was
\* handled; being timed by nobody, they ask at the moment the host answers.
\* The heartbeat belongs to a push rung that has opened.
Due(kind) ==
    CASE kind = "poll" -> tab.page = "on" /\ tab.rung = "poll"
      [] kind = "tick" -> tab.heartbeat

ComesRound(kind) ==
    /\ Due(kind) /\ hub[Mine].epoch > 0 /\ Room
    /\ ~\E i \in DOMAIN wire : wire[i].kind = kind
    /\ wire' = Append(wire, StateBody(kind))
    /\ UNCHANGED <<last, hub, log, asks, tab, screen, dropped, notes, faults>>

Reload ==
    /\ Fault
    /\ tab' = NewSession
    /\ screen' = <<>> /\ wire' = <<>> /\ dropped' = {}
    /\ asks' = {"history"}
    /\ UNCHANGED <<last, hub, log, notes>>

(***************************************************************************)
(* What the page does with each thing it receives.                         *)
(***************************************************************************)
\* Answers travel by connections of their own: they pass the stream's frames and
\* each other, and frames pass them, but no frame passes another.
Deliverable(i) ==
    \/ i = 1 /\ UNCHANGED faults
    \/ /\ i > 1 /\ Fault
       /\ IsFrame(wire[i]) => \A j \in 1..(i - 1) : ~IsFrame(wire[j])

\* opened: the rung that answered is the rung the session stands on.
Opened(m) ==
    /\ m.kind = "open"
    /\ tab' = [tab EXCEPT !.rung = IF @ = "sse" THEN "sse" ELSE "socket",
                          !.heartbeat = TRUE, !.misses = 0]
    /\ UNCHANGED <<screen, asks, dropped>>

\* rebased, and the frames that carry an epoch: ownership that is unknown
\* afterwards is asked for again.
Rebased(m) ==
    /\ m.kind = "rebase"
    /\ tab' = RebaseTo(tab, m.epoch)
    /\ asks' = IF tab'.owned THEN asks ELSE asks \union {"probe"}
    /\ UNCHANGED <<screen, dropped>>

\* A server-sent beat carries its index only; a socket's names its epoch too.
BeatArrives(m) ==
    LET t == IF tab.rung = "sse" THEN tab ELSE RebaseTo(tab, m.epoch)
    IN  /\ m.kind = "beat"
        /\ Show(Feed(View(t, screen), m.epoch, m.index))
        /\ asks' = IF tab.rung = "sse" \/ t.owned THEN asks ELSE asks \union {"probe"}
        /\ UNCHANGED dropped

\* replayBeats: everything the log holds, and the cursor its last row gives.
ReplayBeats(rows) ==
    /\ screen' = screen \o rows
    /\ tab' = [tab EXCEPT !.page = "probing",
                 !.epoch = IF rows = <<>> THEN @ ELSE Last(rows)[1],
                 !.restoredEpoch = IF rows = <<>> THEN @ ELSE Last(rows)[1],
                 !.seen = IF rows = <<>> THEN @ ELSE Last(rows)[2]]

HistoryArrives(m) ==
    /\ m.kind = "history"
    /\ ReplayBeats(IF m.ok THEN m.rows ELSE <<>>)
    /\ asks' = asks \union {"attach"}
    /\ UNCHANGED dropped

\* probeState: a finished run the restore did not name is not replayed.
Probed(v, m) ==
    LET mine == m.epoch = v.tab.restoredEpoch
        w == Claim(View(RebaseTo(v.tab, m.epoch), v.screen))
    IN  IF ~m.running /\ ~mine THEN View([w.tab EXCEPT !.seen = m.beats], w.screen) ELSE w

ProbeArrives(m) ==
    LET v == IF m.ok THEN Probed(View(tab, screen), m) ELSE View(tab, screen)
        passedOver == m.ok /\ v.tab.seen = m.beats
                      /\ (RebaseTo(tab, m.epoch)).seen < m.beats
        t == IF m.kind = "attach" THEN [v.tab EXCEPT !.page = "on"] ELSE v.tab
    IN  /\ m.kind \in {"attach", "probe"}
        /\ Show(View(t, v.screen))
        /\ dropped' = IF passedOver THEN dropped \union {<<m.epoch, m.kind>>} ELSE dropped
        /\ UNCHANGED asks

\* pollOnce: adopt the epoch, settle ownership, drain.
PollArrives(m) ==
    /\ m.kind = "poll"
    /\ Show(Drain(Claim(View(RebaseTo(tab, m.epoch), screen)), m))
    /\ UNCHANGED <<asks, dropped>>

\* reconcileOnce: the same body, and a count of the heartbeats that caught the
\* stream not delivering.  The second in a row reconnects.
Reconciled(v, m) ==
    LET moved == m.epoch # v.tab.epoch
        t == RebaseTo(v.tab, m.epoch)
        w == IF t.owned THEN View(t, v.screen) ELSE Claim(View(t, v.screen))
        d == Drain(w, m)
        missed == moved \/ (d.tab.seen > w.tab.seen /\ w.tab.seen <= w.tab.seenLastTick)
    IN  View([d.tab EXCEPT !.seenLastTick = d.tab.seen,
                           !.misses = IF missed THEN @ + 1 ELSE 0], d.screen)

TickArrives(m) ==
    LET v == Reconciled(View(tab, screen), m)
        kicked == v.tab.misses >= 2
    IN  /\ m.kind = "tick"
        /\ Show(View(IF kicked
                     THEN ConnectSocket([v.tab EXCEPT !.misses = 0])
                     ELSE v.tab, v.screen))
        /\ UNCHANGED <<asks, dropped>>

\* One message is handled.  A connection that was closed by it is void, with
\* the frames still on their way.
Receive ==
    \E i \in DOMAIN wire :
        LET m == wire[i]
            rest == RemoveAt(wire, i)
        IN  /\ Deliverable(i)
            /\ \/ Opened(m) \/ Rebased(m) \/ BeatArrives(m)
               \/ HistoryArrives(m) \/ ProbeArrives(m)
               \/ PollArrives(m) \/ TickArrives(m)
            /\ wire' = IF tab'.link = "asked" THEN Answers(rest) ELSE rest
            /\ astray' = astray \union Astray(i)
            /\ UNCHANGED <<last, hub, log, unfiled>>

Run(c) == Admit(c) \/ Restart(c) \/ GoesOn(c) \/ Emit(c) \/ Settle(c)

BeatsNext ==
    \/ \E c \in Chats : Build(c) \/ Run(c) \/ Retire(c)
    \/ \E kind \in Asks : Answer(kind)
    \/ Subscribe \/ HostDies \/ Break \/ Reload
    \/ Connect \/ RungDied \/ Receive
    \/ ComesRound("poll") \/ ComesRound("tick")

BeatsSpec == BeatsInit /\ [][BeatsNext]_beatVars

(***************************************************************************)
(* The host answers and serves what it is asked, the page handles what it  *)
(* receives and its timers fire.  A socket that died is noticed by its own *)
(* pings; a stream of server-sent events has none, so noticing its death   *)
(* is left to chance and to the heartbeat.  Runs, reloads, lost            *)
(* connections and crashes are owed to nobody.                             *)
(***************************************************************************)
Progress ==
    \/ Build(Mine) \/ (\E kind \in Asks : Answer(kind)) \/ Subscribe
    \/ Connect \/ (RungDied /\ tab.rung # "sse") \/ Receive

FairSpec ==
    /\ BeatsSpec
    /\ WF_beatVars(Progress)
    /\ WF_beatVars(ComesRound("poll")) /\ WF_beatVars(ComesRound("tick"))

(***************************************************************************)
(* Properties.                                                             *)
(***************************************************************************)
Addresses == (1..MaxEpoch) \X (1..MaxBeats)

\* Every variable keeps the shape the code gives it.
BeatsTypeOK ==
    /\ last \in 0..MaxEpoch
    /\ hub \in [Chats -> [epoch : 0..MaxEpoch, beats : 0..MaxBeats, phase : Phases,
                        filing : BOOLEAN]]
    /\ log \in [Chats -> Seq(Addresses)]
    /\ asks \subseteq Asks
    /\ tab.rung \in Rungs /\ tab.link \in Links
    /\ tab.seen \in 0..MaxBeats /\ tab.epoch \in 0..MaxEpoch
    /\ screen \in Seq(Addresses) /\ tab.held \in Seq(Addresses)
    /\ dropped \subseteq (1..MaxEpoch) \X {"attach", "probe"}
    /\ unfiled \in BOOLEAN /\ astray \subseteq Causes

Before(a, b) == a[1] < b[1] \/ (a[1] = b[1] /\ a[2] < b[2])

PassedOver == {d[1] : d \in dropped}

ShownOf(epoch) == {screen[i][2] : i \in {j \in DOMAIN screen : screen[j][1] = epoch}}

\* The transcript never repeats a beat, never goes back, and never shows a beat
\* of a run without every earlier one of that run, put together from restored
\* rows, pushed frames, polls, heartbeats, reconnections, reloads and restarts of
\* the host, with runs the log has not filed among them.  Three things lead it
\* astray, and the code does nothing against them (see Causes): over server-sent
\* events, a beat of another run than the session's, for it does not name its
\* run; an answer or frame that passed a message of an older epoch, or an answer
\* to a probe, for the page takes the later to be newer; and, once the process
\* has died with beats unfiled, an epoch handed out twice.  Of a run that a probe
\* passed over as finished only the order is promised.
TranscriptIsFaithful == astray = {} =>
    /\ \A i \in 1..(Len(screen) - 1) : Before(screen[i], screen[i + 1])
    /\ \A e \in (1..MaxEpoch) \ PassedOver :
          \A k \in ShownOf(e) : 1..k \subseteq ShownOf(e)

\* Whatever connections were lost, noticed or not, the transcript catches up
\* with every beat of the run the host holds, unless a probe passed it over or
\* the page was led astray.  One page may stay behind: that of a server-sent
\* stream which died unnoticed before it opened, for it has no heartbeat yet.
EveryBeatIsShown ==
    []<>(\/ astray # {}
         \/ tab.rung = "sse" /\ tab.link = "dead" /\ ~tab.heartbeat
         \/ hub[Mine].epoch \in PassedOver \union {0}
         \/ Cardinality(ShownOf(hub[Mine].epoch)) = hub[Mine].beats)

=============================================================================
