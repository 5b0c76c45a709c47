------------------------------- MODULE Ledger -------------------------------
(***************************************************************************)
(* The event ledger and its live stream: LedgerTransaction with its nested *)
(* runs, SqliteEventWriter, LedgerStreamHub, and the audit UI's transport  *)
(* with its reducer, which reconnects, polls, and folds each id once.      *)
(*                                                                         *)
(* A run() is synchronous, so nothing of the hub happens inside one; but   *)
(* the process may die there, and a savepoint may fail and be caught.      *)
(***************************************************************************)
EXTENDS Integers, Sequences, FiniteSets, SequencesExt

CONSTANTS
    Events,         \* what an event may say (kind and payload)
    Clients,        \* audit UIs
    BackfillLimit,  \* BACKFILL_LIMIT of the hub
    PageLimit,      \* limit of one poll
    MaxLog,         \* bound on the length of the ledger
    MaxDepth,       \* bound on nested run()s
    MaxFaults       \* bound on crashes and dropped connections

ASSUME LedgerBounds ==
    /\ {BackfillLimit, PageLimit} \subseteq Nat \ {0}
    /\ {MaxLog, MaxDepth, MaxFaults} \subseteq Nat

VARIABLES
    table,      \* the events table as the write connection sees it
    marks,      \* the open run()s, outermost first
    buffered,   \* LedgerTransaction.buffered
    sub,        \* the hub's subscriber per client; lastSent is its cursor
    wire,       \* frames sent on a client's stream and not received
    page,       \* the answer to a client's poll, on its way
    got,        \* what a client's reducer has folded, in order
    skipped,    \* history: the ids the hub left out when a client connected
    faults

ledger == <<table, marks, buffered>>
stream == <<sub, wire, page, got, skipped>>
vars == <<ledger, stream, faults>>

Frame == [id: Nat, ev: Events]
NoSub == [on |-> FALSE, lastSent |-> 0]

TypeOK ==
    /\ table \in Seq(Events)
    /\ marks \in Seq([rows: Nat, frames: Nat])
    /\ buffered \in Seq(Frame)
    /\ sub \in [Clients -> [on: BOOLEAN, lastSent: Nat]]
    /\ wire \in [Clients -> Seq(Frame)]
    /\ page \in [Clients -> Seq(Frame)]
    /\ got \in [Clients -> Seq(Frame)]
    /\ skipped \in [Clients -> SUBSET Nat]
    /\ faults \in 0..MaxFaults

Init ==
    /\ table = <<>> /\ marks = <<>> /\ buffered = <<>>
    /\ sub = [c \in Clients |-> NoSub]
    /\ wire = [c \in Clients |-> <<>>]
    /\ page = [c \in Clients |-> <<>>]
    /\ got = [c \in Clients |-> <<>>]
    /\ skipped = [c \in Clients |-> {}]
    /\ faults = 0

-----------------------------------------------------------------------------
(* The hub.                                                                 *)

\* SqliteEventReader.framesAfter.
FramesAfter(n, limit) ==
    LET last == IF n + limit < Len(table) THEN n + limit ELSE Len(table)
    IN  [i \in 1..(last - n) |-> [id |-> n + i, ev |-> table[n + i]]]

\* LedgerStreamHub.pushTo skips what the subscriber was already sent. Frames
\* come in seq order, so what it skips is a prefix.
Fresh(frames, lastSent) ==
    SubSeq(frames, 1 + Cardinality({i \in DOMAIN frames : frames[i].id <= lastSent}),
           Len(frames))

SentUpTo(frames, lastSent) ==
    IF Fresh(frames, lastSent) = <<>> THEN lastSent
    ELSE Fresh(frames, lastSent)[Len(Fresh(frames, lastSent))].id

\* LedgerStreamHub.publish: to every client whose stream is up.
Publish(frames) ==
    /\ wire' = [c \in Clients |->
                  IF sub[c].on THEN wire[c] \o Fresh(frames, sub[c].lastSent)
                  ELSE wire[c]]
    /\ sub' = [c \in Clients |->
                  IF sub[c].on
                  THEN [sub[c] EXCEPT !.lastSent = SentUpTo(frames, @)] ELSE sub[c]]
    /\ UNCHANGED <<page, got, skipped>>

-----------------------------------------------------------------------------
(* The write path.                                                          *)

\* BEGIN IMMEDIATE, or a savepoint inside one.
Begin ==
    /\ Len(marks) < MaxDepth
    /\ marks' = Append(marks, [rows |-> Len(table), frames |-> Len(buffered)])
    /\ UNCHANGED <<table, buffered, stream, faults>>

\* SqliteEventWriter.append: seq is the head's seq + 1.
AppendEvent(e) ==
    /\ marks # <<>>
    /\ Len(table) < MaxLog
    /\ table' = Append(table, e)
    /\ buffered' = Append(buffered, [id |-> Len(table) + 1, ev |-> e])
    /\ UNCHANGED <<marks, stream, faults>>

\* run() returns: only the outermost one commits and publishes.
Finish ==
    /\ marks # <<>>
    /\ marks' = Front(marks)
    /\ IF Len(marks) = 1
       THEN buffered' = <<>> /\ Publish(buffered)
       ELSE UNCHANGED <<buffered, stream>>
    /\ UNCHANGED <<table, faults>>

\* Mutant: a rollback leaves the frames in the buffer.
FailKeepingFrames ==
    /\ marks # <<>>
    /\ marks' = Front(marks)
    /\ table' = SubSeq(table, 1, Last(marks).rows)
    /\ UNCHANGED <<buffered, stream, faults>>

\* run() throws: rows and frames go back to where they were when it began.
Fail ==
    /\ marks # <<>>
    /\ marks' = Front(marks)
    /\ table' = SubSeq(table, 1, Last(marks).rows)
    /\ buffered' = SubSeq(buffered, 1, Last(marks).frames)
    /\ UNCHANGED <<stream, faults>>

\* What a process that dies now leaves in the database file.
Committed == IF marks = <<>> THEN table ELSE SubSeq(table, 1, marks[1].rows)

\* The process dies, anywhere, and a new one opens the file.
Crash ==
    /\ faults < MaxFaults
    /\ faults' = faults + 1
    /\ table' = Committed
    /\ marks' = <<>> /\ buffered' = <<>>
    /\ sub' = [c \in Clients |-> NoSub]
    /\ UNCHANGED <<wire, page, got, skipped>>

-----------------------------------------------------------------------------
(* The audit UI's transport.                                                *)

\* The cursor a client carries: the last id its reducer folded.
LastId(c) == IF got[c] = <<>> THEN 0 ELSE got[c][Len(got[c])].id

\* What a backfill does not reach: the ledger beyond BackfillLimit rows.
OutOfReach(c) == LastId(c) + BackfillLimit + 1 .. Len(table)

\* The client reads on from its cursor; what is out of reach is not sent to it,
\* neither now nor live.
Skip(c) ==
    skipped' = [skipped EXCEPT ![c] = {n \in @ : n <= LastId(c)} \union OutOfReach(c)]

\* Mutant: attach without a backfill.
ConnectLiveOnly(c) ==
    /\ marks = <<>>
    /\ ~sub[c].on
    /\ wire' = [wire EXCEPT ![c] = <<>>]
    /\ sub' = [sub EXCEPT ![c] = [on |-> TRUE, lastSent |-> LastId(c)]]
    /\ Skip(c)
    /\ UNCHANGED <<ledger, page, got, faults>>

\* connectSSE(?after=lastId): attach and backfill in one tick. The old source,
\* if any, was closed, and what was on its wire with it.
Connect(c) ==
    LET frames == FramesAfter(LastId(c), BackfillLimit) IN
    /\ marks = <<>>
    /\ ~sub[c].on
    /\ wire' = [wire EXCEPT ![c] = frames]
    /\ sub' = [sub EXCEPT ![c] = [on |-> TRUE,
                                  lastSent |-> LastId(c) + Len(frames)]]
    /\ Skip(c)
    /\ UNCHANGED <<ledger, page, got, faults>>

\* The connection drops, with what was on it.
Drop(c) ==
    /\ sub[c].on /\ marks = <<>>
    /\ faults < MaxFaults
    /\ faults' = faults + 1
    /\ sub' = [sub EXCEPT ![c] = NoSub]
    /\ wire' = [wire EXCEPT ![c] = <<>>]
    /\ UNCHANGED <<ledger, page, got, skipped>>

\* The polling rung of the ladder: GET /v1/ledger/events?after=lastId. It goes
\* on until a stream reports itself open, so it may overlap one.
Poll(c) ==
    /\ marks = <<>> /\ page[c] = <<>>
    /\ page' = [page EXCEPT ![c] = FramesAfter(LastId(c), PageLimit)]
    /\ page[c] # page'[c]
    /\ UNCHANGED <<ledger, sub, wire, got, skipped, faults>>

\* One message of the stream. The reducer is idempotent on the id.
Receive(c) ==
    /\ wire[c] # <<>>
    /\ got' = IF Head(wire[c]).id <= LastId(c) THEN got
              ELSE [got EXCEPT ![c] = Append(@, Head(wire[c]))]
    /\ wire' = [wire EXCEPT ![c] = Tail(@)]
    /\ UNCHANGED <<ledger, sub, page, skipped, faults>>

\* A poll's frames arrive together, and perhaps behind a stream's.
ReceivePage(c) ==
    /\ page[c] # <<>>
    /\ got' = [got EXCEPT ![c] = @ \o Fresh(page[c], LastId(c))]
    /\ page' = [page EXCEPT ![c] = <<>>]
    /\ UNCHANGED <<ledger, sub, wire, skipped, faults>>

-----------------------------------------------------------------------------
Write == Begin \/ (\E e \in Events : AppendEvent(e)) \/ Finish \/ Fail

Read(c) == Connect(c) \/ Drop(c) \/ Poll(c) \/ Receive(c) \/ ReceivePage(c)

Next == Write \/ Crash \/ \E c \in Clients : Read(c)

Spec == Init /\ [][Next]_vars

\* A run() is synchronous code that ends, whatever runs it nests; between two,
\* the event loop serves the requests that wait, so a reconnecting client is not
\* passed over for ever; its sockets deliver until they drop.
FairSpec ==
    /\ Spec
    /\ WF_vars(Finish \/ Fail)
    /\ SF_vars(Len(marks) = 1 /\ (Finish \/ Fail))
    /\ \A c \in Clients : SF_vars(Connect(c)) /\ WF_vars(Receive(c))

-----------------------------------------------------------------------------
(* Properties.                                                              *)

IsRow(f) == f.id \in 1..Len(Committed) /\ f.ev = Committed[f.id]

\* "A frame is a claim that an event is in the ledger": nothing a savepoint or
\* a crash took back was ever sent, whichever run() nested in which
\* (ledger-transaction.ts run, publishAfterCommit).
FramesAreCommitted ==
    \A c \in Clients :
        /\ \A i \in DOMAIN wire[c] : IsRow(wire[c][i])
        /\ \A i \in DOMAIN page[c] : IsRow(page[c][i])
        /\ \A i \in DOMAIN got[c] : IsRow(got[c][i])

\* The buffer holds the open transaction's events and no other: ids that a
\* rollback freed and a later append took again do not linger.
BufferIsTheTransaction ==
    LET base == Len(Committed) IN
    /\ Len(buffered) = Len(table) - base
    /\ \A i \in DOMAIN buffered :
        buffered[i] = [id |-> base + i, ev |-> table[base + i]]

\* A stream that is up was sent everything that is committed and that its
\* backfill could reach.
NothingWithheld ==
    \A c \in Clients :
        marks = <<>> /\ sub[c].on => sub[c].lastSent + 1 .. Len(table) \subseteq skipped[c]

Folded(c) == {got[c][i].id : i \in DOMAIN got[c]}

\* Each client folds in the order of the ledger and no event twice, and up to
\* its cursor it lacks only what a backfill did not reach, across drops, crashes,
\* reconnects and polls that overlap a stream (ledger-route.ts).
NoGap ==
    \A c \in Clients :
        /\ \A i, j \in DOMAIN got[c] : i < j => got[c][i].id < got[c][j].id
        /\ 1..LastId(c) \subseteq Folded(c) \union skipped[c]

\* A client whose ladder keeps climbing is shown every committed event, or has
\* connected with a cursor more than a backfill behind it.
EveryEventArrives ==
    \A c \in Clients : \A n \in 1..MaxLog :
        (Len(Committed) >= n) ~> (n \in Folded(c) \union skipped[c])

\* The whole is a feed.
Feed == INSTANCE EventFeed WITH
    Window <- BackfillLimit, log <- Committed, seen <- got, missed <- skipped
FeedSpec == Feed!Spec
=============================================================================
