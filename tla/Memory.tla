------------------------------ MODULE Memory ------------------------------
(***************************************************************************)
(* One user's memory: the write gate (resolve, prepare, screen, judge,     *)
(* embed, commit), the committer with its guarded UPDATE, the projection   *)
(* that rebuilds the table from the ledger, and the signing of a covenant, *)
(* which writes its bounds one after the other through that same gate.     *)
(*                                                                         *)
(* An action is one synchronous segment of gateway-svc: what runs between  *)
(* two awaits of a request. The rules are R0, R1 and R3; the others read   *)
(* wording or lists, and here may refuse any candidate.                    *)
(***************************************************************************)
EXTENDS Integers, FiniteSets, Sequences, SequencesExt

CONSTANTS
    Requests,   \* POST /v1/memory/write and POST /v1/covenant/sign
    Ceilings,   \* predicates a number bounds from above
    Flags,      \* protected booleans
    Values,     \* what a memory may say, 0 and 1 for a flag
    Bodies,     \* what a request may ask for
    MaxTime,    \* bound on the clock
    None

Types == {"constraint", "preference", "fact", "episode", "procedure"}
Tiers == 0..3
Preds == Ceilings \cup Flags

\* CHANNEL_TIER, CHANNEL_QUARANTINED and CHANNEL_REQUIRES_SIGNATURE.
ChannelTier == [user_signed_mandate |-> 3, user_confirmation |-> 3,
                merchant_attestation |-> 2, verified_api |-> 1,
                untrusted_text |-> 0]
Channels == DOMAIN ChannelTier
Quarantined(channel) == channel = "untrusted_text"
RequiresSignature(channel) == ChannelTier[channel] >= 2

\* MIN_TIER_TO_CREATE and MIN_TIER_TO_SUPERSEDE.
MinToCreate == [constraint |-> 3, preference |-> 1, fact |-> 0, episode |-> 0,
                procedure |-> 1]
TierPermittedForType(type, tier) == tier >= MinToCreate[type]
TierPermittedToSupersede(type, tier) ==
    type # "episode" /\ tier >= (IF type = "constraint" THEN 3 ELSE 1)

Candidate == [type: Types, channel: Channels, claim: Tiers \cup {None},
              sig: BOOLEAN, pred: Preds \cup {None}, val: Values]
\* A write asks for one candidate; a signing for one constraint per bound.
Body == [sign: BOOLEAN, todo: Seq(Candidate)]

ASSUME MemoryValues == Values \subseteq Nat /\ MaxTime \in Nat \ {0}
ASSUME MemoryBodies ==
    /\ Bodies \subseteq Body
    /\ \A b \in Bodies : b.todo # <<>> /\ (~b.sign => Len(b.todo) = 1)
ASSUME MemoryNone == None \notin Preds \cup Tiers

VARIABLES
    now,      \* the clock
    memory,   \* the memory table; a row's id is its place
    ledger,   \* the memory.* and intent.signed events, in order
    req       \* the requests, and where each is suspended

vars == <<now, memory, ledger, req>>

Row == [type: Types, tier: Tiers, quarantined: BOOLEAN,
        pred: Preds \cup {None}, val: Values, created: 1..MaxTime,
        expired: 0..MaxTime,   \* t_expired; 0 is NULL
        by: Nat,               \* superseded_by; 0 is NULL
        seen: Nat]             \* history: rows stored when it was screened

Event == [kind: {"committed", "deduped", "superseded", "rejected", "intent"},
          id: Nat, ids: SUBSET Nat, at: 0..MaxTime, entry: Row \cup {None}]

\* What prepare read, kept across the awaits.
Pending == [tier: Tiers, now: 0..MaxTime, seen: Nat]
NotYet == [tier |-> 0, now |-> 0, seen |-> 0]
Request == [pc: {"idle", "verifying", "judging", "embedding", "recording",
                 "done", "dead"},
            sign: BOOLEAN, todo: Seq(Candidate), pending: Pending,
            got: SUBSET Nat]

TypeOK ==
    /\ now \in 1..MaxTime
    /\ memory \in Seq(Row)
    /\ ledger \in Seq(Event)
    /\ req \in [Requests -> Request]

Init ==
    /\ now = 1
    /\ memory = <<>>
    /\ ledger = <<>>
    /\ req = [r \in Requests |-> [pc |-> "idle", sign |-> FALSE, todo |-> <<>>,
                                  pending |-> NotYet, got |-> {}]]

(***************************************************************************)
(* SqliteMemoryReader: what is live is what was never expired.             *)
(***************************************************************************)
Ids == DOMAIN memory
Live(i) == memory[i].expired = 0
LiveOnKey(p) == {i \in Ids : Live(i) /\ memory[i].pred = p /\ p # None}
\* Mutant: a constraint of this very instant is missed.
LiveConstraintsBefore ==
    {i \in Ids : /\ Live(i) /\ memory[i].type = "constraint"
                 /\ memory[i].created < now}
LiveConstraints == {i \in Ids : Live(i) /\ memory[i].type = "constraint"}
LiveByContent(p, v) == {i \in LiveOnKey(p) : memory[i].val = v}

\* beatenBy, and SUPERSEDE_WHERE: a higher tier wins, an equal tier is broken
\* by the later t_created.
\* Mutant: whatever the tier.
BeatenAnyTier(i, tier, created) == memory[i].created <= created
Beaten(i, tier, created) ==
    \/ memory[i].tier < tier
    \/ memory[i].tier = tier /\ memory[i].created <= created

(***************************************************************************)
(* WriteGate, up to the commit.                                            *)
(***************************************************************************)
\* ChannelTierResolver: the tier comes from the channel; a claim may lower it.
Resolves(c) ==
    /\ RequiresSignature(c.channel) => c.sig
    /\ c.claim # None => c.claim <= ChannelTier[c.channel]
Granted(c) == IF c.claim = None THEN ChannelTier[c.channel] ELSE c.claim

\* An episode holds no supersede key.
KeyOf(c) == IF c.type = "episode" THEN None ELSE c.pred

\* R0, tier permission.
TierPermission(c) ==
    /\ TierPermittedForType(c.type, Granted(c))
    /\ (\E i \in LiveOnKey(KeyOf(c)) : Beaten(i, Granted(c), now))
       => TierPermittedToSupersede(c.type, Granted(c))

\* R1, numeric relaxation: a ceiling is never exceeded, whoever asks.
NoRelaxation(c) ==
    c.pred \in Ceilings =>
        \A i \in LiveConstraints : memory[i].pred = c.pred => c.val <= memory[i].val

\* R3, boolean flip: below P3, a protected boolean keeps its value.
NoFlip(c) ==
    c.pred \in Flags /\ Granted(c) < 3 =>
        \A i \in LiveConstraints : memory[i].pred = c.pred => c.val = memory[i].val

\* The judge of R6: a preference or a procedure beside a live constraint.
FallbackApplies(c) ==
    /\ c.type \in {"preference", "procedure"} /\ Granted(c) >= 1
    /\ LiveConstraints # {}

Submit(r) ==
    /\ req[r].pc = "idle"
    /\ \E b \in Bodies :
        req' = [req EXCEPT ![r].pc = "verifying", ![r].sign = b.sign,
                           ![r].todo = b.todo]
    /\ UNCHANGED <<now, memory, ledger>>

Happened(kind) == [kind |-> kind, id |-> 0, ids |-> {}, at |-> 0, entry |-> None]

\* A write was decided: a write request answers, a signing takes its next
\* bound, and after the last one records the intent.
Decided(r, ids) ==
    req' = [req EXCEPT
        ![r].todo = Tail(@),
        ![r].got = @ \cup ids,
        ![r].pending = NotYet,
        ![r].pc = IF Len(req[r].todo) > 1 THEN "verifying"
                  ELSE IF req[r].sign THEN "recording" ELSE "done"]

Reject(r) ==
    /\ ledger' = Append(ledger, Happened("rejected"))
    /\ Decided(r, {})
    /\ UNCHANGED <<now, memory>>

\* The signature is verified: the rows are read and the rules run on them.
Prepare(r) ==
    /\ req[r].pc = "verifying"
    /\ LET c == Head(req[r].todo)
       IN  \/ /\ Resolves(c) /\ TierPermission(c) /\ NoRelaxation(c) /\ NoFlip(c)
              /\ req' = [req EXCEPT
                    ![r].pc = IF FallbackApplies(c) THEN "judging" ELSE "embedding",
                    ![r].pending = [tier |-> Granted(c), now |-> now,
                                    seen |-> Len(memory)]]
              /\ UNCHANGED <<now, memory, ledger>>
           \/ Reject(r)

\* A verdict against, one without confidence, and none in time all refuse.
JudgeAnswers(r) ==
    /\ req[r].pc = "judging"
    /\ \/ /\ req' = [req EXCEPT ![r].pc = "embedding"]
          /\ UNCHANGED <<now, memory, ledger>>
       \/ Reject(r)

(***************************************************************************)
(* WriteCommitter, inside one transaction. It reads the table again, but   *)
(* with the tier and the instant that prepare took.                        *)
(***************************************************************************)
\* The row liveByContentHash lists first: the highest tier, then the latest.
FirstOf(S) ==
    {i \in S : \A j \in S : \/ memory[i].tier > memory[j].tier
                            \/ /\ memory[i].tier = memory[j].tier
                               /\ memory[i].created >= memory[j].created}

EntryOf(c, p) ==
    [type |-> c.type, tier |-> p.tier, quarantined |-> Quarantined(c.channel),
     pred |-> c.pred, val |-> c.val, created |-> p.now, expired |-> 0, by |-> 0,
     seen |-> p.seen]

\* SUPERSEDE_WHERE, for the row about to be stored.
\* Mutant: the row just stored is among them.
VictimsItself(c, p) ==
    IF TierPermittedToSupersede(c.type, p.tier)
    THEN {i \in LiveOnKey(KeyOf(c)) : Beaten(i, p.tier, p.now)}
         \cup {Len(memory) + 1}
    ELSE {}
Victims(c, p) ==
    IF TierPermittedToSupersede(c.type, p.tier)
    THEN {i \in LiveOnKey(KeyOf(c)) : Beaten(i, p.tier, p.now)}
    ELSE {}

Expire(rows, ids, at, new) ==
    [i \in DOMAIN rows |-> IF i \in ids /\ rows[i].expired = 0
                           THEN [rows[i] EXCEPT !.expired = at, !.by = new]
                           ELSE rows[i]]

Committed(entry) ==
    [Happened("committed") EXCEPT !.id = Len(memory) + 1, !.entry = entry]
\* Mutant: the event lists no row stored since the write was prepared.
SupersededAsPrepared(ids, p) ==
    [Happened("superseded") EXCEPT !.id = Len(memory) + 1, !.at = p.now,
                                   !.ids = {i \in ids : i <= p.seen}]
Superseded(ids, p) ==
    [Happened("superseded") EXCEPT !.id = Len(memory) + 1, !.at = p.now,
                                   !.ids = ids]

\* 4a: the same words are already live on the key, under whatever type and tier.
Dedupe(r, same) ==
    /\ ledger' = Append(ledger, Happened("deduped"))
    /\ \E i \in FirstOf(same) : Decided(r, {i})
    /\ UNCHANGED <<now, memory>>

\* 4b: the row first, then what it beats.
Store(r, c, p) ==
    LET entry == EntryOf(c, p)
        ids   == Victims(c, p)
    IN  /\ memory' = Expire(Append(memory, entry), ids, p.now, Len(memory) + 1)
        /\ ledger' = ledger \o <<Committed(entry)>>
                            \o (IF ids = {} THEN <<>> ELSE <<Superseded(ids, p)>>)
        /\ Decided(r, {Len(memory) + 1})
        /\ UNCHANGED now

Commit(r) ==
    /\ req[r].pc = "embedding"
    /\ LET c    == Head(req[r].todo)
           same == LiveByContent(KeyOf(c), c.val)
       IN  IF same # {} THEN Dedupe(r, same) ELSE Store(r, c, req[r].pending)

\* commitIntent, after the last bound.
RecordIntent(r) ==
    /\ req[r].pc = "recording"
    /\ ledger' = Append(ledger, [Happened("intent") EXCEPT !.ids = req[r].got])
    /\ req' = [req EXCEPT ![r].pc = "done"]
    /\ UNCHANGED <<now, memory>>

\* The process dies and comes back: the database is all that is left.
Crash ==
    /\ req' = [r \in Requests |->
                 IF req[r].pc = "idle" THEN req[r] ELSE [req[r] EXCEPT !.pc = "dead"]]
    /\ req' # req
    /\ UNCHANGED <<now, memory, ledger>>

Tick ==
    /\ now < MaxTime
    /\ now' = now + 1
    /\ UNCHANGED <<memory, ledger, req>>

Next ==
    \/ \E r \in Requests :
          Submit(r) \/ Prepare(r) \/ JudgeAnswers(r) \/ Commit(r) \/ RecordIntent(r)
    \/ Crash
    \/ Tick

Spec == Init /\ [][Next]_vars

(***************************************************************************)
(* MemoryProjection: the table rebuilt from the ledger.                    *)
(***************************************************************************)
Applied(rows, event) ==
    CASE event.kind = "committed"  -> Append(rows, event.entry)
      [] event.kind = "superseded" -> Expire(rows, event.ids, event.at, event.id)
      [] OTHER                     -> rows
Replay == FoldLeft(Applied, <<>>, ledger)

\* The rebuilt table is the live one, row for row: what a write changed and
\* what its events say never differ, whatever another request stored between
\* its prepare and its commit (memory-projection.ts).
ReplayEqualsLive == Replay = memory

\* A row leaves the live set only for a later one on its key that outranks it:
\* of a higher tier, or of the same tier and no earlier instant. So following
\* superseded_by always climbs and always ends (sqlite-memory-writer.ts).
NothingIsLost ==
    \A i \in Ids : ~Live(i) =>
        LET n == memory[i].by
        IN  /\ n \in Ids /\ n > i
            /\ memory[n].pred = memory[i].pred
            /\ \/ memory[n].tier > memory[i].tier
               \/ /\ memory[n].tier = memory[i].tier
                  /\ memory[n].created >= memory[i].created

\* Of the rows and constraints stored before a row was screened, none that is
\* still live is contradicted by it, however long the judge and the embedder
\* took (write-gate.ts).
ScreenedAgainstOlderConstraints ==
    \A j \in Ids, i \in Ids :
        (/\ Live(i) /\ memory[i].type = "constraint" /\ i <= memory[j].seen
         /\ memory[j].pred = memory[i].pred)
        => /\ memory[i].pred \in Ceilings => memory[j].val <= memory[i].val
           /\ (memory[i].pred \in Flags /\ memory[j].tier < 3)
              => memory[j].val = memory[i].val

\* What is said on a key never loses rank: the highest tier live on it never
\* falls, so no write of lower standing ever silences a bound the user signed
\* (memory-type.ts, "poisoned catalog text arriving as P0 must never be able to
\* create or relax one").
TopTierNeverFalls ==
    [][\A i \in Ids : Live(i) /\ memory[i].pred # None =>
         \E j \in DOMAIN memory' :
             /\ memory'[j].expired = 0
             /\ memory'[j].pred = memory[i].pred
             /\ memory'[j].tier >= memory[i].tier]_vars

=============================================================================
