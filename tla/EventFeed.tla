----------------------------- MODULE EventFeed -----------------------------
(***************************************************************************)
(* What the ledger and its stream promise, with no transactions, buffers,  *)
(* sockets or wires: a log that only ever grows, and readers each of which *)
(* sees it in order and no event twice.  A reader who joins is owed the    *)
(* next Window events behind the last it saw, and all that come later; the *)
(* ones between it may never see.                                          *)
(***************************************************************************)
EXTENDS Naturals, Sequences, SequencesExt

CONSTANTS
    Events,     \* what an event may say
    Clients,    \* readers of the feed
    Window      \* how much of the past a reader who joins is owed

VARIABLES
    log,        \* Seq(Events): the ledger; an event's id is its place
    seen,       \* [Clients -> Seq([id: Nat, ev: Events])]: what each was shown
    missed      \* per reader, the ids it was not owed when it joined

vars == <<log, seen, missed>>

Init ==
    /\ log = <<>>
    /\ seen = [c \in Clients |-> <<>>]
    /\ missed = [c \in Clients |-> {}]

\* The last event a reader was shown.
Place(c) == IF seen[c] = <<>> THEN 0 ELSE seen[c][Len(seen[c])].id

\* A transaction adds all its events at once, behind the ones there are.
Commit ==
    /\ IsStrictPrefix(log, log')
    /\ log' \in Seq(Events)
    /\ UNCHANGED <<seen, missed>>

\* A reader joins, or joins again.
Join(c) ==
    /\ missed' = [missed EXCEPT ![c] =
                    {n \in @ : n <= Place(c)} \union (Place(c) + Window + 1 .. Len(log))]
    /\ UNCHANGED <<log, seen>>

\* A reader is shown the next event it is owed, and perhaps some that follow.
Show(c) ==
    /\ \E a \in Place(c) + 1 .. Len(log) : \E b \in a .. Len(log) :
        /\ Place(c) + 1 .. a - 1 \subseteq missed[c]
        /\ seen' = [seen EXCEPT ![c] =
                      @ \o [i \in 1..(b - a + 1) |-> [id |-> a + i - 1, ev |-> log[a + i - 1]]]]
    /\ UNCHANGED <<log, missed>>

Next == Commit \/ \E c \in Clients : Join(c) \/ Show(c)

Spec == Init /\ [][Next]_vars
=============================================================================
