---------------------------- MODULE Logs_proofs ----------------------------
(***************************************************************************)
(* Theorems about the log of Memory: its rows and the events they are      *)
(* rebuilt from, for any requests, predicates, bodies and clock.           *)
(*                                                                         *)
(* IInv is what no write to the memory may break. Besides the types it     *)
(* says three things of a row - what expired it came later and outranks    *)
(* it, it was screened before it was stored, what it was screened against  *)
(* and is still live it does not contradict - and one thing of a request   *)
(* that is suspended: what it carries over the await agrees with every     *)
(* constraint it saw. The last is what the awaits put at risk; it stands   *)
(* because rows are only added and expired, and an expired row is no       *)
(* longer spoken of.                                                       *)
(***************************************************************************)
EXTENDS Memory, Basics

\* The row or candidate that says val of pred, at tier, contradicts row i.
Contradicts(i, pred, val, tier) ==
    /\ memory[i].pred = pred
    /\ \/ pred \in Ceilings /\ ~(val <= memory[i].val)
       \/ pred \in Flags /\ tier < 3 /\ val # memory[i].val

\* The constraints still live among the first n rows.
StandingAmong(n) ==
    {i \in Ids : Live(i) /\ memory[i].type = "constraint" /\ i <= n}

\* A request that is not decided yet has something to decide; past prepare it
\* holds the instant of a clock that ran and rows that are there.
Suspended ==
    \A r \in Requests :
        /\ req[r].pc \in {"verifying", "judging", "embedding"}
           => req[r].todo # <<>>
        /\ req[r].pc \in {"judging", "embedding"}
           => req[r].pending.now \in 1..MaxTime /\ req[r].pending.seen <= Len(memory)

\* What a suspended write will store, if it stores, contradicts no standing
\* constraint among the rows it saw.
PendingAgrees ==
    \A r \in Requests :
        req[r].pc \in {"judging", "embedding"} =>
            \A i \in StandingAmong(req[r].pending.seen) :
                ~Contradicts(i, Head(req[r].todo).pred, Head(req[r].todo).val,
                             req[r].pending.tier)

\* A row was screened before it was stored.
SeenBefore == \A j \in Ids : memory[j].seen < j

IInv ==
    /\ TypeOK
    /\ Suspended
    /\ PendingAgrees
    /\ SeenBefore
    /\ NothingIsLost
    /\ ScreenedAgainstOlderConstraints

-----------------------------------------------------------------------------
\* A list with one more at its end.
LEMMA PushShape ==
    ASSUME NEW S, NEW s \in Seq(S), NEW e \in S
    PROVE  /\ Append(s, e) \in Seq(S)
           /\ Len(Append(s, e)) = Len(s) + 1
           /\ \A i \in 1..Len(s) : Append(s, e)[i] = s[i]
           /\ Append(s, e)[Len(s) + 1] = e
OBVIOUS

\* Every channel grants a tier.
LEMMA ChannelsGrantTiers ==
    ASSUME NEW c \in Candidate
    PROVE  Granted(c) \in Tiers /\ Quarantined(c.channel) \in BOOLEAN
<1>1. ChannelTier[c.channel] \in Tiers
  BY DEF Candidate, Channels, ChannelTier, Tiers
<1>2. c.claim \in Tiers \cup {None}
  BY DEF Candidate
<1> QED  BY <1>1, <1>2 DEF Granted, Quarantined

\* A row as its successor leaves it.
ExpiredBy(row, at, new) == [row EXCEPT !.expired = at, !.by = new]

\* Expiring rows keeps their number, their order and what they say.
LEMMA ExpireShape ==
    ASSUME NEW rows \in Seq(Row), NEW ids \in SUBSET Nat, NEW at \in 1..MaxTime, NEW new \in Nat
    PROVE  /\ Expire(rows, ids, at, new) \in Seq(Row)
           /\ Len(Expire(rows, ids, at, new)) = Len(rows)
           /\ \A i \in 1..Len(rows) :
                Expire(rows, ids, at, new)[i] =
                    IF i \in ids /\ rows[i].expired = 0
                    THEN ExpiredBy(rows[i], at, new)
                    ELSE rows[i]
<1> DEFINE E == Expire(rows, ids, at, new)
<1>1. /\ Len(rows) \in Nat /\ DOMAIN rows = 1..Len(rows)
      /\ \A i \in 1..Len(rows) : rows[i] \in Row
  BY SeqShape
<1>2. \A i \in 1..Len(rows) : E[i] = IF i \in ids /\ rows[i].expired = 0
                                     THEN ExpiredBy(rows[i], at, new)
                                     ELSE rows[i]
  BY <1>1 DEF Expire, ExpiredBy
<1>3. \A i \in 1..Len(rows) : E[i] \in Row
  <2> TAKE i \in 1..Len(rows)
  <2>1. rows[i] \in Row
    BY <1>1
  <2>2. ExpiredBy(rows[i], at, new) \in Row
    <3>1. [rows[i] EXCEPT !.expired = at] \in Row
      <4>1. at \in 0..MaxTime
        BY MemoryValues
      <4>2. \A x \in Row, t \in 0..MaxTime : [x EXCEPT !.expired = t] \in Row
        BY DEF Row
      <4> QED  BY <2>1, <4>1, <4>2
    <3>2. \A x \in Row : [x EXCEPT !.by = new] \in Row
      BY DEF Row
    <3> QED  BY <3>1, <3>2 DEF ExpiredBy
  <2> QED  BY <2>1, <2>2, <1>2
<1>4. E = [i \in 1..Len(rows) |-> E[i]]
  BY <1>1 DEF Expire, ExpiredBy
<1>5. E \in [1..Len(rows) -> Row]
  BY <1>3, <1>4
<1>6. E \in Seq(Row) /\ Len(E) = Len(rows)
  BY <1>1, <1>5, SeqDef, LenProperties
<1> QED  BY <1>2, <1>6

-----------------------------------------------------------------------------
\* The types of what the steps put together.
LEMMA EventTypes ==
    /\ \A kind \in {"committed", "superseded", "deduped", "rejected", "intent"} :
          Happened(kind) \in Event
    /\ \A x \in Event, n \in Nat : [x EXCEPT !.id = n] \in Event
    /\ \A x \in Event, ids \in SUBSET Nat : [x EXCEPT !.ids = ids] \in Event
    /\ \A x \in Event, t \in 0..MaxTime : [x EXCEPT !.at = t] \in Event
    /\ \A x \in Event, e \in Row : [x EXCEPT !.entry = e] \in Event
<1>1. 0 \in 0..MaxTime
  BY MemoryValues
<1>2. /\ \A x \in Event, n \in Nat : [x EXCEPT !.id = n] \in Event
      /\ \A x \in Event, ids \in SUBSET Nat : [x EXCEPT !.ids = ids] \in Event
      /\ \A x \in Event, t \in 0..MaxTime : [x EXCEPT !.at = t] \in Event
      /\ \A x \in Event, e \in Row : [x EXCEPT !.entry = e] \in Event
  BY DEF Event
<1> QED  BY <1>1, <1>2 DEF Happened, Event

\* Deciding a write leaves the requests well typed and nobody without work.
LEMMA DecidedShape ==
    ASSUME TypeOK, Suspended, NEW r \in Requests, NEW ids \in SUBSET Nat,
           req[r].pc \in {"verifying", "judging", "embedding"}, Decided(r, ids)
    PROVE  /\ req' \in [Requests -> Request]
           /\ \A q \in Requests : q # r => req'[q] = req[q]
           /\ req'[r].pc \in {"verifying", "recording", "done"}
           /\ req'[r].pc = "verifying" => req'[r].todo # <<>>
<1>1. req \in [Requests -> Request] /\ req[r] \in Request
  BY DEF TypeOK
<1>2. req[r].todo \in Seq(Candidate) /\ req[r].todo # <<>>
  BY <1>1 DEF Suspended, Request
<1>3. /\ Tail(req[r].todo) \in Seq(Candidate)
      /\ Len(req[r].todo) > 1 => Tail(req[r].todo) # <<>>
  BY <1>2, HeadTailShape
<1>4. NotYet \in Pending
  <2>1. 0 \in 0..MaxTime /\ 0 \in Tiers /\ 0 \in Nat
    BY MemoryValues DEF Tiers
  <2> QED  BY <2>1 DEF NotYet, Pending
<1> DEFINE pc == IF Len(req[r].todo) > 1 THEN "verifying"
                 ELSE IF req[r].sign THEN "recording" ELSE "done"
           new == [req[r] EXCEPT !.todo = Tail(@), !.got = @ \cup ids,
                                 !.pending = NotYet, !.pc = pc]
<1>5. req' = [req EXCEPT ![r] = new]
  BY <1>1 DEF Decided
<1>6. new \in Request
  BY <1>1, <1>3, <1>4 DEF Request
<1>7. new.pc = pc /\ new.todo = Tail(req[r].todo)
  BY <1>1 DEF Request
<1> QED  BY <1>1, <1>3, <1>5, <1>6, <1>7

-----------------------------------------------------------------------------
\* A step that leaves the rows alone keeps what is said of them; it has to
\* answer for the requests it moves.
LEMMA SameRows ==
    ASSUME IInv, memory' = memory, TypeOK', Suspended',
           \A r \in Requests :
              req'[r].pc \in {"judging", "embedding"} =>
                 \/ req'[r] = req[r]
                 \/ /\ req[r].pc = "judging"
                    /\ req'[r].pending = req[r].pending
                    /\ req'[r].todo = req[r].todo
                 \/ \A i \in StandingAmong(req'[r].pending.seen) :
                       ~Contradicts(i, Head(req'[r].todo).pred,
                                    Head(req'[r].todo).val, req'[r].pending.tier)
    PROVE  IInv'
<1>1. /\ SeenBefore' /\ NothingIsLost' /\ ScreenedAgainstOlderConstraints'
  BY DEF IInv, SeenBefore, NothingIsLost, ScreenedAgainstOlderConstraints, Ids, Live
<1>2. \A n : StandingAmong(n)' = StandingAmong(n)
  BY DEF StandingAmong, Ids, Live
<1>3. PendingAgrees'
  <2> SUFFICES ASSUME NEW r \in Requests, req'[r].pc \in {"judging", "embedding"},
                      NEW i \in StandingAmong(req'[r].pending.seen)
               PROVE  ~Contradicts(i, Head(req'[r].todo).pred,
                                   Head(req'[r].todo).val, req'[r].pending.tier)
    BY DEF PendingAgrees, StandingAmong, Contradicts, Ids, Live
  <2> QED  BY DEF IInv, PendingAgrees
<1> QED  BY <1>1, <1>3 DEF IInv

\* A submission writes the request and nothing else.
LEMMA SubmitKeeps ==
    ASSUME IInv, NEW r \in Requests, Submit(r)
    PROVE  IInv'
<1>1. PICK b \in Bodies : req' = [req EXCEPT ![r].pc = "verifying",
                                             ![r].sign = b.sign, ![r].todo = b.todo]
  BY DEF Submit
<1>2. /\ req \in [Requests -> Request] /\ memory' = memory
      /\ ledger' = ledger /\ now' = now
  BY DEF IInv, TypeOK, Submit
<1>3. b.sign \in BOOLEAN /\ b.todo \in Seq(Candidate) /\ b.todo # <<>>
  BY MemoryBodies DEF Body
<1> DEFINE new == [req[r] EXCEPT !.pc = "verifying", !.sign = b.sign, !.todo = b.todo]
<1>4. /\ new \in Request /\ new.pc = "verifying" /\ new.todo = b.todo
      /\ req' = [req EXCEPT ![r] = new]
  BY <1>1, <1>2, <1>3 DEF Request
<1>5. TypeOK' /\ Suspended'
  BY <1>2, <1>3, <1>4 DEF IInv, TypeOK, Suspended
<1>6. \A q \in Requests : req'[q].pc \in {"judging", "embedding"} => req'[q] = req[q]
  BY <1>2, <1>4
<1> QED  BY <1>2, <1>5, <1>6, SameRows

\* A write that was decided without a row.
LEMMA DecidedKeeps ==
    ASSUME IInv, NEW r \in Requests, NEW ids \in SUBSET Nat, NEW event \in Event,
           req[r].pc \in {"verifying", "judging", "embedding"}, Decided(r, ids),
           ledger' = Append(ledger, event), UNCHANGED <<now, memory>>
    PROVE  IInv'
<1>1. /\ req' \in [Requests -> Request]
      /\ \A q \in Requests : q # r => req'[q] = req[q]
      /\ req'[r].pc \in {"verifying", "recording", "done"}
      /\ req'[r].pc = "verifying" => req'[r].todo # <<>>
  BY DecidedShape DEF IInv
<1>2. ledger' \in Seq(Event)
  BY PushShape DEF IInv, TypeOK
<1>3. TypeOK' /\ Suspended'
  BY <1>1, <1>2 DEF IInv, TypeOK, Suspended
<1>4. \A q \in Requests : req'[q].pc \in {"judging", "embedding"} => req'[q] = req[q]
  BY <1>1
<1> QED  BY <1>3, <1>4, SameRows

\* A rejected write is an event of no rows, and its request goes on.
LEMMA RejectKeeps ==
    ASSUME IInv, NEW r \in Requests, Reject(r),
           req[r].pc \in {"verifying", "judging", "embedding"}
    PROVE  IInv'
<1>1. Happened("rejected") \in Event /\ {} \in SUBSET Nat
  BY EventTypes
<1> QED  BY <1>1, DecidedKeeps DEF Reject

\* A request that prepare lets through agrees with every standing constraint.
LEMMA PrepareKeeps ==
    ASSUME IInv, NEW r \in Requests, Prepare(r)
    PROVE  IInv'
<1> DEFINE c == Head(req[r].todo)
           p == [tier |-> Granted(c), now |-> now, seen |-> Len(memory)]
           pc == IF FallbackApplies(c) THEN "judging" ELSE "embedding"
           new == [req[r] EXCEPT !.pc = pc, !.pending = p]
<1>1. req[r].pc = "verifying"
  BY DEF Prepare
<1>2. CASE Reject(r)
  BY <1>1, <1>2, RejectKeeps
<1>3. CASE /\ NoRelaxation(c) /\ NoFlip(c)
           /\ req' = [req EXCEPT ![r].pc = pc, ![r].pending = p]
           /\ UNCHANGED <<now, memory, ledger>>
  <2>1. /\ req \in [Requests -> Request] /\ now \in 1..MaxTime
        /\ memory \in Seq(Row) /\ Len(memory) \in Nat
    BY SeqShape DEF IInv, TypeOK
  <2>2. c \in Candidate
    BY <1>1, <2>1, HeadTailShape DEF IInv, Suspended, Request
  <2>3. p \in Pending /\ p.now \in 1..MaxTime /\ p.seen = Len(memory)
        /\ p.tier = Granted(c)
    <3>1. now \in 0..MaxTime
      BY <2>1, MemoryValues
    <3>2. Granted(c) \in Tiers
      BY <2>2, ChannelsGrantTiers
    <3> QED  BY <2>1, <3>1, <3>2 DEF Pending
  <2>4. /\ new \in Request /\ new.pc = pc /\ new.pending = p
        /\ new.todo = req[r].todo
        /\ req' = [req EXCEPT ![r] = new]
    BY <1>3, <2>1, <2>3 DEF Request
  <2>5. TypeOK' /\ Suspended'
    BY <1>1, <1>3, <2>1, <2>3, <2>4 DEF IInv, TypeOK, Suspended
  <2>6. \A i \in StandingAmong(p.seen) : ~Contradicts(i, c.pred, c.val, p.tier)
    <3> SUFFICES ASSUME NEW i \in StandingAmong(p.seen), memory[i].pred = c.pred
                 PROVE  /\ c.pred \in Ceilings => c.val <= memory[i].val
                        /\ c.pred \in Flags /\ Granted(c) < 3 => c.val = memory[i].val
      BY <2>3 DEF Contradicts
    <3>1. i \in LiveConstraints
      BY DEF StandingAmong, LiveConstraints
    <3> QED  BY <1>3, <3>1 DEF NoRelaxation, NoFlip
  <2>7. ASSUME NEW q \in Requests, req'[q].pc \in {"judging", "embedding"}
        PROVE  \/ req'[q] = req[q]
               \/ \A i \in StandingAmong(req'[q].pending.seen) :
                     ~Contradicts(i, Head(req'[q].todo).pred,
                                  Head(req'[q].todo).val, req'[q].pending.tier)
    <3>1. CASE q # r
      BY <2>1, <2>4, <3>1
    <3>2. CASE q = r
      <4>1. req'[q].pending = p /\ req'[q].todo = req[r].todo
        BY <2>1, <2>4, <3>2
      <4> QED  BY <2>6, <4>1
    <3> QED  BY <3>1, <3>2
  <2> QED  BY <1>3, <2>5, <2>7, SameRows
<1> QED  BY <1>2, <1>3 DEF Prepare

\* The judge's answer rejects the request or sends it on to be embedded.
LEMMA JudgeAnswersKeeps ==
    ASSUME IInv, NEW r \in Requests, JudgeAnswers(r)
    PROVE  IInv'
<1>1. req[r].pc = "judging"
  BY DEF JudgeAnswers
<1>2. CASE Reject(r)
  BY <1>1, <1>2, RejectKeeps
<1>3. CASE /\ req' = [req EXCEPT ![r].pc = "embedding"]
           /\ UNCHANGED <<now, memory, ledger>>
  <2> DEFINE new == [req[r] EXCEPT !.pc = "embedding"]
  <2>1. req \in [Requests -> Request]
    BY DEF IInv, TypeOK
  <2>2. /\ new \in Request /\ new.pc = "embedding" /\ new.todo = req[r].todo
        /\ new.pending = req[r].pending /\ req' = [req EXCEPT ![r] = new]
    BY <1>3, <2>1 DEF Request
  <2>3. TypeOK' /\ Suspended'
    BY <1>1, <1>3, <2>1, <2>2 DEF IInv, TypeOK, Suspended
  <2> QED  BY <1>1, <1>3, <2>1, <2>2, <2>3, SameRows
<1> QED  BY <1>2, <1>3 DEF JudgeAnswers

\* An intent is one event, of the rows its bounds were given.
LEMMA RecordIntentKeeps ==
    ASSUME IInv, NEW r \in Requests, RecordIntent(r)
    PROVE  IInv'
<1> DEFINE new == [req[r] EXCEPT !.pc = "done"]
<1>1. req \in [Requests -> Request] /\ memory' = memory /\ now' = now
  BY DEF IInv, TypeOK, RecordIntent
<1>2. new \in Request /\ new.pc = "done" /\ req' = [req EXCEPT ![r] = new]
  BY <1>1 DEF Request, RecordIntent
<1>3. ledger' \in Seq(Event)
  <2>1. req[r].got \in SUBSET Nat
    BY <1>1 DEF Request
  <2> QED  BY <2>1, EventTypes, PushShape DEF IInv, TypeOK, RecordIntent
<1>4. TypeOK' /\ Suspended'
  BY <1>1, <1>2, <1>3 DEF IInv, TypeOK, Suspended
<1>5. \A q \in Requests : req'[q].pc \in {"judging", "embedding"} => req'[q] = req[q]
  BY <1>1, <1>2
<1> QED  BY <1>1, <1>4, <1>5, SameRows

\* A crash kills the requests and keeps the store.
LEMMA CrashKeeps ==
    ASSUME IInv, Crash
    PROVE  IInv'
<1>1. /\ req \in [Requests -> Request] /\ memory' = memory /\ now' = now
      /\ ledger' = ledger
  BY DEF IInv, TypeOK, Crash
<1>2. ASSUME NEW r \in Requests
      PROVE  /\ req'[r] \in Request
             /\ req'[r].pc \in {"idle", "dead"}
  BY <1>1 DEF Request, Crash
<1>3. req' \in [Requests -> Request]
  BY <1>2 DEF Crash
<1>4. TypeOK' /\ Suspended'
  BY <1>1, <1>2, <1>3 DEF IInv, TypeOK, Suspended
<1> QED  BY <1>1, <1>2, <1>4, SameRows

\* The clock moves nothing else.
LEMMA TickKeeps ==
    ASSUME IInv, Tick
    PROVE  IInv'
<1>1. now' \in 1..MaxTime
  BY MemoryValues DEF IInv, TypeOK, Tick
<1>2. TypeOK' /\ Suspended'
  BY <1>1 DEF IInv, TypeOK, Suspended, Tick
<1> QED  BY <1>2, SameRows DEF Tick

-----------------------------------------------------------------------------
\* What a suspended request asks for, and what it carries over the await.
Asked(r) == Head(req[r].todo)
Held(r) == req[r].pending

\* What a stored row does to the table: itself at the end, and of the others
\* only the victims change, which are live rows on its key that it outranks.
LEMMA StoreShape ==
    ASSUME IInv, NEW r \in Requests, req[r].pc = "embedding",
           Store(r, Asked(r), Held(r))
    PROVE  /\ Asked(r) \in Candidate /\ Held(r) \in Pending /\ Held(r).now \in 1..MaxTime
           /\ EntryOf(Asked(r), Held(r)) \in Row
           /\ Victims(Asked(r), Held(r)) \in SUBSET (1..Len(memory))
           /\ memory \in Seq(Row) /\ Len(memory) \in Nat
           /\ memory' \in Seq(Row) /\ Len(memory') = Len(memory) + 1
           /\ memory'[Len(memory) + 1] = EntryOf(Asked(r), Held(r))
           /\ \A i \in 1..Len(memory) : i \notin Victims(Asked(r), Held(r)) => memory'[i] = memory[i]
           /\ \A i \in Victims(Asked(r), Held(r)) :
                /\ memory[i].expired = 0 /\ memory[i].pred = Asked(r).pred
                /\ Beaten(i, Held(r).tier, Held(r).now)
                /\ memory'[i] = ExpiredBy(memory[i], Held(r).now, Len(memory) + 1)
<1> DEFINE entry == EntryOf(Asked(r), Held(r))
           ids == Victims(Asked(r), Held(r))
           n == Len(memory) + 1
           rows == Append(memory, entry)
<1>1. /\ req[r] \in Request /\ memory \in Seq(Row)
      /\ Len(memory) \in Nat /\ DOMAIN memory = 1..Len(memory)
      /\ \A i \in 1..Len(memory) : memory[i] \in Row
  BY SeqShape DEF IInv, TypeOK
<1>2. Asked(r) \in Candidate
  BY <1>1, HeadTailShape DEF IInv, Suspended, Request, Asked
<1>3. Held(r) \in Pending /\ Held(r).now \in 1..MaxTime
  BY <1>1 DEF IInv, Suspended, Request, Held
<1>4. entry \in Row
  <2>1. Quarantined(Asked(r).channel) \in BOOLEAN
    BY <1>2, ChannelsGrantTiers
  <2>2. 0 \in 0..MaxTime /\ 0 \in Nat
    BY MemoryValues
  <2>3. Held(r).tier \in Tiers /\ Held(r).seen \in Nat
    BY <1>3 DEF Pending
  <2>4. Asked(r).type \in Types /\ Asked(r).pred \in Preds \cup {None} /\ Asked(r).val \in Values
    BY <1>2 DEF Candidate
  <2> QED  BY <1>3, <2>1, <2>2, <2>3, <2>4 DEF EntryOf, Row
<1>5. \A i \in ids : /\ i \in 1..Len(memory) /\ memory[i].expired = 0
                     /\ memory[i].pred = Asked(r).pred /\ Beaten(i, Held(r).tier, Held(r).now)
  BY <1>1 DEF Victims, LiveOnKey, KeyOf, Ids, Live
<1>6. /\ rows \in Seq(Row) /\ Len(rows) = n
      /\ \A i \in 1..Len(memory) : rows[i] = memory[i]
      /\ rows[n] = entry
  BY <1>1, <1>4, PushShape
<1>7. memory' = Expire(rows, ids, Held(r).now, n) /\ n \in Nat
  BY <1>1 DEF Store
<1>8. /\ memory' \in Seq(Row) /\ Len(memory') = n
      /\ \A i \in 1..n : memory'[i] =
            IF i \in ids /\ rows[i].expired = 0
            THEN ExpiredBy(rows[i], Held(r).now, n) ELSE rows[i]
  <2>1. ids \in SUBSET Nat
    BY <1>1, <1>5
  <2> HIDE DEF rows, ids, n
  <2> QED  BY <1>3, <1>6, <1>7, <2>1, ExpireShape
<1>9. n \notin ids /\ n \in 1..n /\ \A i \in 1..Len(memory) : i \in 1..n
  BY <1>1, <1>5
<1>10. ids \in SUBSET (1..Len(memory))
  BY <1>5
<1>11. memory'[n] = entry
  BY <1>6, <1>8, <1>9
<1>12. \A i \in 1..Len(memory) : i \notin ids => memory'[i] = memory[i]
  BY <1>6, <1>8, <1>9
<1>13. \A i \in ids : memory'[i] = ExpiredBy(memory[i], Held(r).now, n)
  BY <1>5, <1>6, <1>8, <1>9
<1> QED  BY <1>1, <1>2, <1>3, <1>4, <1>5, <1>8, <1>10, <1>11, <1>12, <1>13

\* What the table still says of old rows and of the new one.
LEMMA StoredRows ==
    ASSUME IInv, NEW r \in Requests, req[r].pc = "embedding",
           Store(r, Asked(r), Held(r))
    PROVE  /\ Ids = 1..Len(memory) /\ Ids' = 1..(Len(memory) + 1)
           /\ Len(memory) \in Nat
           /\ \A i \in Ids :
                /\ memory'[i].pred = memory[i].pred
                /\ memory'[i].type = memory[i].type
                /\ memory'[i].tier = memory[i].tier
                /\ memory'[i].val = memory[i].val
                /\ memory'[i].created = memory[i].created
                /\ memory'[i].seen = memory[i].seen
                /\ Live(i)' => Live(i)
                /\ \/ /\ memory'[i].expired = memory[i].expired
                      /\ memory'[i].by = memory[i].by
                   \/ /\ memory'[i].by = Len(memory) + 1
                      /\ Live(i) /\ memory[i].pred = Asked(r).pred
                      /\ Beaten(i, Held(r).tier, Held(r).now)
<1>1. /\ Len(memory) \in Nat /\ Ids = 1..Len(memory) /\ Ids' = 1..(Len(memory) + 1)
      /\ \A i \in Ids : memory[i] \in Row
  BY StoreShape, SeqShape DEF Ids
<1>2. Held(r).now \in 1..MaxTime /\ Held(r).now # 0
  <2>1. Held(r).now \in 1..MaxTime
    BY StoreShape
  <2> QED  BY <2>1, MemoryValues
<1>3. ASSUME NEW i \in Ids, i \in Victims(Asked(r), Held(r))
      PROVE  /\ memory'[i] = ExpiredBy(memory[i], Held(r).now, Len(memory) + 1)
             /\ Live(i) /\ memory[i].pred = Asked(r).pred /\ Beaten(i, Held(r).tier, Held(r).now)
  BY <1>3, StoreShape DEF Live
<1>4. ASSUME NEW i \in Ids, i \notin Victims(Asked(r), Held(r))
      PROVE  memory'[i] = memory[i]
  BY <1>1, <1>4, StoreShape
<1> SUFFICES ASSUME NEW i \in Ids
             PROVE  /\ memory'[i].pred = memory[i].pred
                    /\ memory'[i].type = memory[i].type
                    /\ memory'[i].tier = memory[i].tier
                    /\ memory'[i].val = memory[i].val
                    /\ memory'[i].created = memory[i].created
                    /\ memory'[i].seen = memory[i].seen
                    /\ Live(i)' => Live(i)
                    /\ \/ /\ memory'[i].expired = memory[i].expired
                          /\ memory'[i].by = memory[i].by
                       \/ /\ memory'[i].by = Len(memory) + 1
                          /\ Live(i) /\ memory[i].pred = Asked(r).pred
                          /\ Beaten(i, Held(r).tier, Held(r).now)
  BY <1>1
<1>5. CASE i \in Victims(Asked(r), Held(r))
  <2>1. memory[i] \in Row
    BY <1>1
  <2> QED  BY <1>2, <1>3, <1>5, <2>1 DEF Row, Live, ExpiredBy
<1>6. CASE i \notin Victims(Asked(r), Held(r))
  BY <1>4, <1>6 DEF Live
<1> QED  BY <1>5, <1>6

\* Where the stored row stands, and what it is.
LEMMA StoredLast ==
    ASSUME IInv, NEW r \in Requests, req[r].pc = "embedding",
           Store(r, Asked(r), Held(r))
    PROVE  LET n == Len(memory) + 1 IN
           /\ memory'[n].pred = Asked(r).pred /\ memory'[n].val = Asked(r).val
           /\ memory'[n].tier = Held(r).tier /\ memory'[n].created = Held(r).now
           /\ memory'[n].seen = Held(r).seen /\ memory'[n].expired = 0
           /\ Held(r).seen \in Nat /\ Held(r).seen <= Len(memory)
<1>1. memory'[Len(memory) + 1] = EntryOf(Asked(r), Held(r)) /\ Held(r) \in Pending
  BY StoreShape
<1>2. Held(r).seen <= Len(memory)
  BY DEF IInv, Suspended, Held
<1> QED  BY <1>1, <1>2 DEF EntryOf, Pending

\* A stored entry is live, and its event supersedes what it replaces.
LEMMA StoreKeeps ==
    ASSUME IInv, NEW r \in Requests, req[r].pc = "embedding",
           Store(r, Asked(r), Held(r))
    PROVE  IInv'
<1> DEFINE n == Len(memory) + 1
<1>1. /\ Len(memory) \in Nat /\ n \in Nat
      /\ Ids = 1..Len(memory) /\ Ids' = 1..n
      /\ \A i \in Ids' : i \in Ids \/ i = n
      /\ \A i \in Ids : i # n /\ i < n /\ i \in Ids'
      /\ n \in Ids'
  BY StoredRows
<1>2. \A i \in Ids : memory[i] \in Row
  BY SeqShape DEF IInv, TypeOK, Ids
<1>3. TypeOK'
  <2>1. /\ memory' \in Seq(Row) /\ now' = now
        /\ EntryOf(Asked(r), Held(r)) \in Row
        /\ Victims(Asked(r), Held(r)) \in SUBSET Nat
        /\ Held(r).now \in 0..MaxTime
    <3>1. memory' \in Seq(Row) /\ EntryOf(Asked(r), Held(r)) \in Row
      BY StoreShape
    <3>2. Held(r).now \in 1..MaxTime
      BY StoreShape
    <3>3. Victims(Asked(r), Held(r)) \in SUBSET (1..Len(memory))
      BY StoreShape
    <3>4. now' = now
      BY DEF Store
    <3> QED  BY <3>1, <3>2, <3>3, <3>4, MemoryValues
  <2>2. req' \in [Requests -> Request]
    BY <1>1, DecidedShape DEF IInv, Store
  <2>3. ledger' \in Seq(Event)
    <3>1. Committed(EntryOf(Asked(r), Held(r))) \in Event
      BY <1>1, <2>1, EventTypes DEF Committed
    <3>2. Superseded(Victims(Asked(r), Held(r)), Held(r)) \in Event
      BY <1>1, <2>1, EventTypes DEF Superseded
    <3>3. \A a, b \in Event :
             /\ ledger \o <<a>> \o <<>> \in Seq(Event)
             /\ ledger \o <<a>> \o <<b>> \in Seq(Event)
      BY DEF IInv, TypeOK
    <3> QED  BY <3>1, <3>2, <3>3 DEF Store
  <2> QED  BY <2>1, <2>2, <2>3 DEF IInv, TypeOK
<1>4. /\ \A q \in Requests : q # r => req'[q] = req[q]
      /\ req'[r].pc \in {"verifying", "recording", "done"}
      /\ req'[r].pc = "verifying" => req'[r].todo # <<>>
  BY <1>1, DecidedShape DEF IInv, Store
<1>5. Suspended'
  <2>1. Len(memory') = n
    BY StoreShape
  <2>2. \A q \in Requests : req[q].pending.seen \in Nat
    BY DEF IInv, TypeOK, Request, Pending
  <2> QED  BY <1>1, <1>4, <2>1, <2>2 DEF IInv, Suspended
<1>6. PendingAgrees'
  <2> SUFFICES ASSUME NEW q \in Requests, req'[q].pc \in {"judging", "embedding"},
                      NEW i \in StandingAmong(req[q].pending.seen)'
               PROVE  ~Contradicts(i, Head(req[q].todo).pred,
                                   Head(req[q].todo).val, req[q].pending.tier)'
    BY DEF PendingAgrees
  <2>1. q # r /\ req'[q] = req[q]
    BY <1>4
  <2>2. req[q].pending.seen \in Nat /\ req[q].pending.seen <= Len(memory)
    BY <2>1 DEF IInv, TypeOK, Request, Pending, Suspended
  <2>3. i \in Ids /\ i \in StandingAmong(req[q].pending.seen)
    BY <1>1, <2>1, <2>2, StoredRows DEF StandingAmong
  <2>4. ~Contradicts(i, Head(req[q].todo).pred, Head(req[q].todo).val,
                     req[q].pending.tier)
    BY <2>1, <2>3 DEF IInv, PendingAgrees
  <2> QED  BY <2>1, <2>3, <2>4, StoredRows DEF Contradicts
<1>7. SeenBefore'
  <2> SUFFICES ASSUME NEW j \in Ids'
               PROVE  memory'[j].seen < j
    BY DEF SeenBefore
  <2>1. CASE j \in Ids
    BY <2>1, StoredRows DEF IInv, SeenBefore
  <2>2. CASE j = n
    BY <1>1, <2>2, StoredLast
  <2> QED  BY <1>1, <2>1, <2>2
<1>8. NothingIsLost'
  <2> SUFFICES ASSUME NEW i \in Ids', ~(Live(i)')
               PROVE  LET m == memory'[i].by
                      IN  /\ m \in Ids' /\ m > i
                          /\ memory'[m].pred = memory'[i].pred
                          /\ \/ memory'[m].tier > memory'[i].tier
                             \/ /\ memory'[m].tier = memory'[i].tier
                                /\ memory'[m].created >= memory'[i].created
    BY DEF NothingIsLost
  <2>1. i \in Ids
    BY <1>1, StoredLast DEF Live
  <2>2. CASE memory'[i].expired = memory[i].expired /\ memory'[i].by = memory[i].by
    <3>1. ~Live(i)
      BY <2>2 DEF Live
    <3>2. /\ memory[i].by \in Ids /\ memory[i].by > i
          /\ memory[memory[i].by].pred = memory[i].pred
          /\ \/ memory[memory[i].by].tier > memory[i].tier
             \/ /\ memory[memory[i].by].tier = memory[i].tier
                /\ memory[memory[i].by].created >= memory[i].created
      BY <2>1, <3>1 DEF IInv, NothingIsLost
    <3> QED  BY <1>1, <2>1, <2>2, <3>2, StoredRows
  <2>3. CASE /\ memory'[i].by = n /\ memory[i].pred = Asked(r).pred
             /\ Beaten(i, Held(r).tier, Held(r).now)
    <3>1. memory'[n].pred = memory'[i].pred
      BY <2>1, <2>3, StoredRows, StoredLast
    <3>2. \/ memory'[i].tier < memory'[n].tier
          \/ /\ memory'[i].tier = memory'[n].tier
             /\ memory'[i].created <= memory'[n].created
      BY <2>1, <2>3, StoredRows, StoredLast DEF Beaten
    <3>3. /\ memory'[i].tier \in Int /\ memory'[n].tier \in Int
          /\ memory'[i].created \in Int /\ memory'[n].created \in Int
      <4>1. memory[i].tier \in Int /\ memory[i].created \in Int
        BY <1>2, <2>1, MemoryValues DEF Row, Tiers
      <4>2. Held(r).tier \in Int /\ Held(r).now \in Int
        BY StoreShape, MemoryValues DEF Pending, Tiers
      <4> QED  BY <2>1, <4>1, <4>2, StoredRows, StoredLast
    <3> QED  BY <1>1, <2>1, <2>3, <3>1, <3>2, <3>3
  <2> QED  BY <2>1, <2>2, <2>3, StoredRows
<1>9. ScreenedAgainstOlderConstraints'
  <2> SUFFICES ASSUME NEW j \in Ids', NEW i \in Ids', Live(i)',
                      memory'[i].type = "constraint", i <= memory'[j].seen,
                      memory'[j].pred = memory'[i].pred
               PROVE  /\ memory'[i].pred \in Ceilings => memory'[j].val <= memory'[i].val
                      /\ (memory'[i].pred \in Flags /\ memory'[j].tier < 3)
                         => memory'[j].val = memory'[i].val
    BY DEF ScreenedAgainstOlderConstraints
  <2>1. CASE j \in Ids
    <3>1. memory[j].seen < j /\ memory[j].seen \in Nat /\ memory'[j].seen = memory[j].seen
      BY <1>2, <2>1, StoredRows DEF IInv, SeenBefore, Row
    <3>2. i \in Ids
      BY <1>1, <2>1, <3>1
    <3>3. Live(i) /\ memory[i].type = "constraint" /\ i <= memory[j].seen
          /\ memory[j].pred = memory[i].pred
      BY <2>1, <3>1, <3>2, StoredRows
    <3>4. /\ memory[i].pred \in Ceilings => memory[j].val <= memory[i].val
          /\ (memory[i].pred \in Flags /\ memory[j].tier < 3)
             => memory[j].val = memory[i].val
      BY <2>1, <3>2, <3>3 DEF IInv, ScreenedAgainstOlderConstraints
    <3> QED  BY <2>1, <3>2, <3>4, StoredRows
  <2>2. CASE j = n
    <3>1. i <= Held(r).seen /\ i \in Ids
      BY <1>1, <2>2, StoredLast
    <3>2. i \in StandingAmong(Held(r).seen)
      BY <3>1, StoredRows DEF StandingAmong
    <3>3. ~Contradicts(i, Asked(r).pred, Asked(r).val, Held(r).tier)
      BY <3>2 DEF IInv, PendingAgrees, Asked, Held
    <3>4. /\ memory'[j].pred = Asked(r).pred /\ memory'[j].val = Asked(r).val
          /\ memory'[j].tier = Held(r).tier
          /\ memory'[i].pred = memory[i].pred /\ memory'[i].val = memory[i].val
      BY <2>2, <3>1, StoredLast, StoredRows
    <3> QED  BY <3>3, <3>4 DEF Contradicts
  <2> QED  BY <1>1, <2>1, <2>2
<1> QED  BY <1>3, <1>5, <1>6, <1>7, <1>8, <1>9 DEF IInv

\* A duplicate is decided on the first live entry of the same content.
LEMMA DedupeKeeps ==
    ASSUME IInv, NEW r \in Requests, req[r].pc = "embedding",
           NEW same \in SUBSET Ids, Dedupe(r, same)
    PROVE  IInv'
<1>1. PICK i \in FirstOf(same) : Decided(r, {i})
  BY DEF Dedupe
<1>2. {i} \in SUBSET Nat
  <2>1. Ids = 1..Len(memory)
    BY SeqShape DEF IInv, TypeOK, Ids
  <2>2. i \in Ids
    BY DEF FirstOf
  <2> QED  BY <2>1, <2>2
<1>3. Happened("deduped") \in Event /\ ledger' = Append(ledger, Happened("deduped"))
  BY EventTypes DEF Dedupe
<1> QED  BY <1>1, <1>2, <1>3, DecidedKeeps DEF Dedupe

\* The commit stores or dedupes.
LEMMA CommitKeeps ==
    ASSUME IInv, NEW r \in Requests, Commit(r)
    PROVE  IInv'
<1> DEFINE same == LiveByContent(KeyOf(Asked(r)), Asked(r).val)
<1>1. req[r].pc = "embedding"
  BY DEF Commit
<1>2. Dedupe(r, same) \/ Store(r, Asked(r), Held(r))
  BY DEF Commit, Asked, Held
<1>3. same \in SUBSET Ids
  BY DEF LiveByContent, LiveOnKey
<1> QED  BY <1>1, <1>2, <1>3, DedupeKeeps, StoreKeeps

\* The invariant holds at the start.
LEMMA InitStands == Init => IInv
<1> SUFFICES ASSUME Init  PROVE IInv
  OBVIOUS
<1>1. /\ memory = <<>> /\ ledger = <<>> /\ now = 1 /\ Ids = {}
      /\ \A r \in Requests : req[r].pc = "idle"
  BY DEF Init, Ids
<1>2. NotYet \in Pending
  <2>1. 0 \in 0..MaxTime /\ 0 \in Tiers /\ 0 \in Nat
    BY MemoryValues DEF Tiers
  <2> QED  BY <2>1 DEF NotYet, Pending
<1>3. req \in [Requests -> Request]
  BY <1>2 DEF Init, Request
<1>4. TypeOK
  BY <1>1, <1>3, MemoryValues DEF TypeOK
<1>5. Suspended /\ PendingAgrees
  BY <1>1 DEF Suspended, PendingAgrees
<1>6. SeenBefore /\ NothingIsLost /\ ScreenedAgainstOlderConstraints
  BY <1>1 DEF SeenBefore, NothingIsLost, ScreenedAgainstOlderConstraints
<1> QED  BY <1>4, <1>5, <1>6 DEF IInv

\* Every step keeps it.
LEMMA StepStands == IInv /\ [Next]_vars => IInv'
<1> SUFFICES ASSUME IInv, [Next]_vars  PROVE IInv'
  OBVIOUS
<1>1. ASSUME NEW r \in Requests, Submit(r)  PROVE IInv'
  BY <1>1, SubmitKeeps
<1>2. ASSUME NEW r \in Requests, Prepare(r)  PROVE IInv'
  BY <1>2, PrepareKeeps
<1>3. ASSUME NEW r \in Requests, JudgeAnswers(r)  PROVE IInv'
  BY <1>3, JudgeAnswersKeeps
<1>4. ASSUME NEW r \in Requests, Commit(r)  PROVE IInv'
  BY <1>4, CommitKeeps
<1>5. ASSUME NEW r \in Requests, RecordIntent(r)  PROVE IInv'
  BY <1>5, RecordIntentKeeps
<1>6. CASE Crash
  BY <1>6, CrashKeeps
<1>7. CASE Tick
  BY <1>7, TickKeeps
<1>8. CASE UNCHANGED vars
  <2>1. /\ memory' = memory /\ req' = req /\ TypeOK' /\ Suspended'
    BY <1>8 DEF IInv, TypeOK, Suspended, vars
  <2> QED  BY <2>1, SameRows
<1> QED  BY <1>1, <1>2, <1>3, <1>4, <1>5, <1>6, <1>7, <1>8 DEF Next

\* A write changes an old row only by superseding it, and then leaves one on
\* its key that is live and of no lower tier.
LEMMA TopTierKept == IInv /\ [Next]_vars =>
    \A i \in Ids : Live(i) /\ memory[i].pred # None =>
        \E j \in DOMAIN memory' : /\ memory'[j].expired = 0
                                  /\ memory'[j].pred = memory[i].pred
                                  /\ memory'[j].tier >= memory[i].tier
<1> SUFFICES ASSUME IInv, [Next]_vars, NEW i \in Ids, Live(i)
             PROVE  \E j \in DOMAIN memory' : /\ memory'[j].expired = 0
                                              /\ memory'[j].pred = memory[i].pred
                                              /\ memory'[j].tier >= memory[i].tier
  OBVIOUS
<1>1. memory[i].tier \in Int /\ memory[i].tier >= memory[i].tier
  <2>1. memory[i] \in Row
    BY SeqShape DEF IInv, TypeOK, Ids
  <2> QED  BY <2>1 DEF Row, Tiers
<1>2. CASE memory' = memory
  <2>1. i \in DOMAIN memory'
    BY <1>2 DEF Ids
  <2> QED  BY <1>1, <1>2, <2>1 DEF Live
<1>3. ASSUME NEW r \in Requests, req[r].pc = "embedding", Store(r, Asked(r), Held(r))
      PROVE  \E j \in DOMAIN memory' : /\ memory'[j].expired = 0
                                       /\ memory'[j].pred = memory[i].pred
                                       /\ memory'[j].tier >= memory[i].tier
  <2> DEFINE n == Len(memory) + 1
  <2>1. i \in DOMAIN memory' /\ n \in DOMAIN memory'
    BY <1>3, StoredRows DEF Ids
  <2>2. CASE memory'[i].expired = memory[i].expired
    <3> QED  BY <1>1, <1>3, <2>1, <2>2, StoredRows DEF Live
  <2>3. CASE memory[i].pred = Asked(r).pred /\ Beaten(i, Held(r).tier, Held(r).now)
    <3>1. Held(r).tier \in Int
      BY <1>3, StoreShape DEF Pending, Tiers
    <3>2. memory'[n].expired = 0 /\ memory'[n].pred = memory[i].pred
          /\ memory'[n].tier = Held(r).tier
      BY <1>3, <2>3, StoredLast
    <3>3. memory'[n].tier >= memory[i].tier
      BY <1>1, <2>3, <3>1, <3>2 DEF Beaten
    <3> QED  BY <2>1, <3>2, <3>3
  <2> QED  BY <1>3, <2>2, <2>3, StoredRows
<1>4. \/ memory' = memory
      \/ \E r \in Requests : req[r].pc = "embedding" /\ Store(r, Asked(r), Held(r))
  <2>1. ASSUME NEW r \in Requests, Commit(r)
        PROVE  \/ memory' = memory
               \/ req[r].pc = "embedding" /\ Store(r, Asked(r), Held(r))
    BY <2>1 DEF Commit, Dedupe, Asked, Held
  <2>2. ASSUME NEW r \in Requests,
               Submit(r) \/ Prepare(r) \/ JudgeAnswers(r) \/ RecordIntent(r)
        PROVE  memory' = memory
    BY <2>2 DEF Submit, Prepare, JudgeAnswers, RecordIntent, Reject
  <2>3. Crash \/ Tick \/ UNCHANGED vars => memory' = memory
    BY DEF Crash, Tick, vars
  <2> QED  BY <2>1, <2>2, <2>3 DEF Next
<1> QED  BY <1>2, <1>3, <1>4

-----------------------------------------------------------------------------
\* The invariant of one user's memory, under any interleaving of writes,
\* signings and crashes (write-gate.ts, write-committer.ts).
THEOREM MemoryStands == Spec => []IInv
<1> QED  BY InitStands, StepStands, PTL DEF Spec

\* Every variable keeps the shape the code gives it.
THEOREM MemoryTypes == Spec => []TypeOK
<1>1. IInv => TypeOK
  BY DEF IInv
<1> QED  BY <1>1, MemoryStands, PTL

\* Following superseded_by always climbs: a row leaves the live set only for a
\* later one on its key that outranks it (sqlite-memory-writer.ts).
THEOREM NothingLost == Spec => []NothingIsLost
<1>1. IInv => NothingIsLost
  BY DEF IInv
<1> QED  BY <1>1, MemoryStands, PTL

\* No row contradicts a constraint that was stored before it was screened and
\* is still live, however long the judge and the embedder took (write-gate.ts).
THEOREM ScreeningStands == Spec => []ScreenedAgainstOlderConstraints
<1>1. IInv => ScreenedAgainstOlderConstraints
  BY DEF IInv
<1> QED  BY <1>1, MemoryStands, PTL

\* The highest tier live on a key never falls: no write of lower standing
\* silences a bound the user signed (memory-type.ts).
THEOREM TopTierStands == Spec => TopTierNeverFalls
<1>1. IInv /\ [Next]_vars =>
        [\A i \in Ids : Live(i) /\ memory[i].pred # None =>
            \E j \in DOMAIN memory' : /\ memory'[j].expired = 0
                                      /\ memory'[j].pred = memory[i].pred
                                      /\ memory'[j].tier >= memory[i].tier]_vars
  BY TopTierKept
<1> QED  BY <1>1, MemoryStands, PTL DEF Spec, TopTierNeverFalls

-----------------------------------------------------------------------------
(* The table rebuilt from the ledger. Replay is a fold of the community     *)
(* modules over the whole ledger; what a step appends is one more step of   *)
(* the fold, by induction on the length of the list.                        *)

\* What a rebuild from a list of events makes, and how it gets there: g says it of every
\* set of positions, the last position of a set last.
Rebuilt(events) == FoldLeft(Applied, <<>>, events)

Rebuilds(events, n, g) ==
    g = [s \in SUBSET (1..n) |->
           IF s = {} THEN <<>> ELSE Applied(g[s \ {Max(s)}], events[Max(s)])]

\* Any list of events can be rebuilt from.
LEMMA RebuildExists ==
    ASSUME NEW events, NEW n \in Nat
    PROVE  \E g : Rebuilds(events, n, g)
<1> DEFINE I == {k \in Nat : \E g : Rebuilds(events, k, g)}
<1>1. 0 \in I
  <2> DEFINE g == [s \in SUBSET (1..0) |-> <<>>]
  <2>1. 1..0 = {}
    OBVIOUS
  <2>2. Rebuilds(events, 0, g)
    BY <2>1 DEF Rebuilds
  <2> QED  BY <2>2
<1>2. ASSUME NEW k \in I  PROVE k + 1 \in I
  <2>1. PICK g : Rebuilds(events, k, g)
    OBVIOUS
  <2> DEFINE h == [s \in SUBSET (1..(k + 1)) |->
                     IF k + 1 \in s THEN Applied(g[s \ {k + 1}], events[k + 1]) ELSE g[s]]
  <2>2. \A s \in SUBSET (1..(k + 1)) : k + 1 \notin s => s \in SUBSET (1..k)
    BY LastPosition
  <2>3. \A s \in SUBSET (1..k) : s \in SUBSET (1..(k + 1)) /\ k + 1 \notin s /\ h[s] = g[s]
    OBVIOUS
  <2>4. ASSUME NEW s \in SUBSET (1..(k + 1))
        PROVE  h[s] = IF s = {} THEN <<>> ELSE Applied(h[s \ {Max(s)}], events[Max(s)])
    <3>1. CASE k + 1 \in s
      <4>1. Max(s) = k + 1 /\ s \ {k + 1} \in SUBSET (1..k)
        BY <3>1, LastPosition
      <4>2. h[s \ {k + 1}] = g[s \ {k + 1}]
        BY <2>3, <4>1
      <4>3. h[s] = Applied(g[s \ {k + 1}], events[k + 1])
        BY <3>1
      <4> HIDE DEF h
      <4> QED  BY <3>1, <4>1, <4>2, <4>3
    <3>2. CASE k + 1 \notin s
      <4>1. s \in SUBSET (1..k) /\ s \ {Max(s)} \in SUBSET (1..k)
        BY <2>2, <3>2
      <4>2. h[s] = g[s] /\ h[s \ {Max(s)}] = g[s \ {Max(s)}]
        BY <2>3, <4>1
      <4>3. g[s] = IF s = {} THEN <<>> ELSE Applied(g[s \ {Max(s)}], events[Max(s)])
        BY <2>1, <4>1 DEF Rebuilds
      <4> HIDE DEF h
      <4> QED  BY <4>2, <4>3
    <3> QED  BY <3>1, <3>2
  <2>5. h = [s \in SUBSET (1..(k + 1)) |-> h[s]]
    OBVIOUS
  <2>6. Rebuilds(events, k + 1, h)
    <3> HIDE DEF h
    <3> QED  BY <2>4, <2>5 DEF Rebuilds
  <2> QED  BY <2>6
<1>3. I = Nat
  <2>1. I \in SUBSET Nat
    OBVIOUS
  <2> HIDE DEF I
  <2> QED  BY <1>1, <1>2, <2>1, Induction
<1> QED  BY <1>3

\* Lists that agree on their first n events agree on what those rebuild.
LEMMA RebuildsAgree ==
    ASSUME NEW early, NEW late, NEW n \in Nat, NEW m \in Nat, NEW g, NEW h,
           n <= m, \A i \in 1..n : late[i] = early[i],
           Rebuilds(early, n, g), Rebuilds(late, m, h)
    PROVE  \A s \in SUBSET (1..n) : g[s] = h[s]
<1> DEFINE I == {k \in Nat : k <= n => \A s \in SUBSET (1..k) : g[s] = h[s]}
<1>0. /\ \A s \in SUBSET (1..n) :
           g[s] = IF s = {} THEN <<>> ELSE Applied(g[s \ {Max(s)}], early[Max(s)])
      /\ \A s \in SUBSET (1..m) :
           h[s] = IF s = {} THEN <<>> ELSE Applied(h[s \ {Max(s)}], late[Max(s)])
  BY DEF Rebuilds
<1>1. 0 \in I
  <2>1. 1..0 = {} /\ {} \in SUBSET (1..n) /\ {} \in SUBSET (1..m)
    OBVIOUS
  <2> QED  BY <1>0, <2>1
<1>2. ASSUME NEW k \in I  PROVE k + 1 \in I
  <2> SUFFICES ASSUME k + 1 <= n, NEW s \in SUBSET (1..(k + 1))  PROVE g[s] = h[s]
    OBVIOUS
  <2>1. s \in SUBSET (1..n) /\ s \in SUBSET (1..m) /\ k <= n /\ k + 1 \in 1..n
    OBVIOUS
  <2>2. \A u \in SUBSET (1..k) : g[u] = h[u]
    BY <2>1
  <2>3. CASE k + 1 \in s
    <3>1. Max(s) = k + 1 /\ s \ {k + 1} \in SUBSET (1..k)
      BY <2>3, LastPosition
    <3> QED  BY <1>0, <2>1, <2>2, <2>3, <3>1, ZenonT(40)
  <2>4. CASE k + 1 \notin s
    <3>1. s \in SUBSET (1..k)
      BY <2>4, LastPosition
    <3> QED  BY <2>2, <3>1
  <2> QED  BY <2>3, <2>4
<1>3. I = Nat
  <2>1. I \in SUBSET Nat
    OBVIOUS
  <2> HIDE DEF I
  <2> QED  BY <1>1, <1>2, <2>1, Induction
<1> QED  BY <1>3, SMTT(30)

\* The fold of the projection is that rebuilding.
LEMMA FoldRebuilds ==
    ASSUME NEW events, NEW n \in Nat, DOMAIN events = 1..n
    PROVE  \E g : Rebuilds(events, n, g) /\ Rebuilt(events) = g[1..n]
<1>1. \E g : Rebuilds(events, n, g)
  BY RebuildExists
<1> DEFINE it == CHOOSE g : Rebuilds(events, n, g)
<1>2. Rebuilds(events, n, it)
  BY <1>1
<1>3. Rebuilt(events) = it[1..n]
  BY DEF Rebuilt, FoldLeft, MapThenFoldSet, Rebuilds
<1> QED  BY <1>2, <1>3

\* One more event is one more step: what was rebuilt before it is not rebuilt
\* differently.
LEMMA RebuildAppend ==
    ASSUME NEW S, NEW events \in Seq(S), NEW e \in S
    PROVE  Rebuilt(Append(events, e)) = Applied(Rebuilt(events), e)
<1> DEFINE n == Len(events)
           more == Append(events, e)
<1>1. /\ n \in Nat /\ n + 1 \in Nat /\ n <= n + 1
      /\ DOMAIN events = 1..n /\ DOMAIN more = 1..(n + 1)
      /\ \A i \in 1..n : more[i] = events[i]
      /\ more[n + 1] = e
  OBVIOUS
<1> HIDE DEF n, more
<1>2. PICK g : Rebuilds(events, n, g) /\ Rebuilt(events) = g[1..n]
  BY <1>1, FoldRebuilds
<1>3. PICK h : Rebuilds(more, n + 1, h) /\ Rebuilt(more) = h[1..(n + 1)]
  BY <1>1, FoldRebuilds
<1>4. g[1..n] = h[1..n]
  BY <1>1, <1>2, <1>3, RebuildsAgree, SMTT(30)
<1>5. /\ Max(1..(n + 1)) = n + 1
      /\ (1..(n + 1)) \ {n + 1} = 1..n /\ 1..(n + 1) # {}
  <2>1. n + 1 \in 1..(n + 1)
    BY <1>1
  <2>2. Max(1..(n + 1)) = n + 1
    BY <1>1, <2>1, LastPosition
  <2>3. (1..(n + 1)) \ {n + 1} = 1..n
    BY <1>1
  <2> QED  BY <2>1, <2>2, <2>3
<1>6. h[1..(n + 1)] = Applied(h[1..n], e)
  BY <1>1, <1>3, <1>5, ZenonT(40) DEF Rebuilds
<1> QED  BY <1>2, <1>3, <1>4, <1>6 DEF more

\* No event, no row.
LEMMA RebuildNothing == Rebuilt(<<>>) = <<>>
<1>1. DOMAIN <<>> = 1..0 /\ 1..0 = {} /\ 0 \in Nat
  OBVIOUS
<1>2. PICK g : Rebuilds(<<>>, 0, g) /\ Rebuilt(<<>>) = g[1..0]
  BY <1>1, FoldRebuilds
<1> QED  BY <1>1, <1>2 DEF Rebuilds

\* A list is the function of its positions, and may be joined one by one.
LEMMA ListShape ==
    ASSUME NEW S, NEW s \in Seq(S)
    PROVE  /\ s = [i \in DOMAIN s |-> s[i]]
           /\ s \o <<>> = s
           /\ \A e \in S : s \o <<e>> = Append(s, e)
<1>1. s \in [1..Len(s) -> S]
  OBVIOUS
<1>2. s = [i \in DOMAIN s |-> s[i]]
  BY <1>1, Zenon
<1> QED  BY <1>2

\* An event that is not about rows rebuilds none.
LEMMA RebuildQuiet ==
    ASSUME NEW S, NEW events \in Seq(S), NEW e \in S,
           e.kind \notin {"committed", "superseded"}
    PROVE  Rebuilt(Append(events, e)) = Rebuilt(events)
<1>1. Rebuilt(Append(events, e)) = Applied(Rebuilt(events), e)
  BY RebuildAppend
<1> QED  BY <1>1 DEF Applied

\* What a write stores is what its two events say: the row, and then what it
\* beat, at the instant and with the id the rows were given.
LEMMA StoreIsReplayed ==
    ASSUME IInv, ReplayEqualsLive, NEW r \in Requests, req[r].pc = "embedding",
           Store(r, Asked(r), Held(r))
    PROVE  ReplayEqualsLive'
<1> DEFINE n == Len(memory) + 1
           entry == EntryOf(Asked(r), Held(r))
           ids == Victims(Asked(r), Held(r))
           stored == Committed(entry)
           beat == Superseded(ids, Held(r))
<1>1. /\ entry \in Row /\ ids \in SUBSET Nat /\ n \in Nat /\ Held(r).now \in 0..MaxTime
      /\ memory \in Seq(Row) /\ ledger \in Seq(Event)
  <2>1. /\ entry \in Row /\ ids \in SUBSET (1..Len(memory)) /\ Held(r).now \in 1..MaxTime
        /\ memory \in Seq(Row) /\ Len(memory) \in Nat
    BY StoreShape
  <2> QED  BY <2>1, MemoryValues DEF IInv, TypeOK
<1>2. /\ memory' = Expire(Append(memory, entry), ids, Held(r).now, n)
      /\ ledger' = ledger \o <<stored>> \o (IF ids = {} THEN <<>> ELSE <<beat>>)
  BY DEF Store
<1>3. stored \in Event /\ stored.kind = "committed" /\ stored.entry = entry
  BY <1>1, EventTypes DEF Committed, Happened
<1>4. /\ beat \in Event /\ beat.kind = "superseded" /\ beat.ids = ids
      /\ beat.at = Held(r).now /\ beat.id = n
  BY <1>1, EventTypes DEF Superseded, Happened
<1>5. Rebuilt(ledger) = memory /\ (Replay' = Rebuilt(ledger'))
  BY DEF ReplayEqualsLive, Replay, Rebuilt
<1> HIDE DEF n, entry, ids, stored, beat
<1>6. Append(ledger, stored) \in Seq(Event) /\ ledger \o <<stored>> = Append(ledger, stored)
  BY <1>1, <1>3, ListShape
<1>7. Rebuilt(Append(ledger, stored)) = Append(memory, entry)
  <2>1. Rebuilt(Append(ledger, stored)) = Applied(memory, stored)
    BY <1>1, <1>3, <1>5, RebuildAppend
  <2> QED  BY <1>3, <2>1 DEF Applied
<1>8. CASE ids = {}
  <2>1. ledger' = Append(ledger, stored)
    BY <1>2, <1>6, <1>8, ListShape
  <2>2. Append(memory, entry) \in Seq(Row)
    BY <1>1
  <2>3. memory' = Append(memory, entry)
    <3>1. memory' = [i \in DOMAIN Append(memory, entry) |-> Append(memory, entry)[i]]
      BY <1>2, <1>8 DEF Expire
    <3> QED  BY <2>2, <3>1, ListShape
  <2> QED  BY <1>5, <1>7, <2>1, <2>3 DEF ReplayEqualsLive
<1>9. CASE ids # {}
  <2>1. ledger' = Append(Append(ledger, stored), beat)
    <3>1. ledger' = (ledger \o <<stored>>) \o <<beat>>
      BY <1>2, <1>9, Zenon
    <3>2. Append(ledger, stored) \o <<beat>> = Append(Append(ledger, stored), beat)
      BY <1>4, <1>6, ListShape
    <3> QED  BY <1>6, <3>1, <3>2, Zenon
  <2>2. Rebuilt(ledger') = Applied(Append(memory, entry), beat)
    BY <1>4, <1>6, <1>7, <2>1, RebuildAppend
  <2>3. Rebuilt(ledger') = memory'
    BY <1>2, <1>4, <2>2 DEF Applied
  <2> QED  BY <1>5, <2>3 DEF ReplayEqualsLive
<1> QED  BY <1>8, <1>9

\* Every other step leaves the rows alone, and appends at most an event that
\* is not about rows.
LEMMA OthersAreReplayed ==
    ASSUME IInv, ReplayEqualsLive, memory' = memory,
           \/ ledger' = ledger
           \/ \E e \in Event : /\ e.kind \notin {"committed", "superseded"}
                              /\ ledger' = Append(ledger, e)
    PROVE  ReplayEqualsLive'
<1>1. Rebuilt(ledger) = memory /\ (Replay' = Rebuilt(ledger'))
  BY DEF ReplayEqualsLive, Replay, Rebuilt
<1>2. Rebuilt(ledger') = Rebuilt(ledger)
  <2>1. ledger \in Seq(Event)
    BY DEF IInv, TypeOK
  <2> QED  BY <2>1, RebuildQuiet
<1> QED  BY <1>1, <1>2 DEF ReplayEqualsLive

\* Every step keeps the replay equal to the live rows.
LEMMA ReplayKept == IInv /\ ReplayEqualsLive /\ [Next]_vars => ReplayEqualsLive'
<1> SUFFICES ASSUME IInv, ReplayEqualsLive, [Next]_vars  PROVE ReplayEqualsLive'
  OBVIOUS
<1>1. \A kind \in {"rejected", "deduped"} :
          Happened(kind) \in Event /\ Happened(kind).kind = kind
  BY EventTypes DEF Happened
<1>2. ASSUME NEW r \in Requests, Reject(r)  PROVE ReplayEqualsLive'
  <2>1. memory' = memory /\ ledger' = Append(ledger, Happened("rejected"))
    BY <1>2 DEF Reject
  <2> QED  BY <1>1, <2>1, OthersAreReplayed
<1>3. ASSUME NEW r \in Requests, Submit(r) \/ Prepare(r) \/ JudgeAnswers(r)
      PROVE  ReplayEqualsLive'
  <2>1. CASE Reject(r)
    BY <1>2, <2>1
  <2>2. CASE ~Reject(r)
    <3>1. memory' = memory /\ ledger' = ledger
      BY <1>3, <2>2 DEF Submit, Prepare, JudgeAnswers
    <3> QED  BY <3>1, OthersAreReplayed
  <2> QED  BY <2>1, <2>2
<1>4. ASSUME NEW r \in Requests, Commit(r)  PROVE ReplayEqualsLive'
  <2>1. req[r].pc = "embedding"
    BY <1>4 DEF Commit
  <2>2. CASE Store(r, Asked(r), Held(r))
    BY <2>1, <2>2, StoreIsReplayed
  <2>3. CASE ~Store(r, Asked(r), Held(r))
    <3>1. memory' = memory /\ ledger' = Append(ledger, Happened("deduped"))
      BY <1>4, <2>3 DEF Commit, Dedupe, Asked, Held
    <3> QED  BY <1>1, <3>1, OthersAreReplayed
  <2> QED  BY <2>2, <2>3
<1>5. ASSUME NEW r \in Requests, RecordIntent(r)  PROVE ReplayEqualsLive'
  <2> DEFINE e == [Happened("intent") EXCEPT !.ids = req[r].got]
  <2>1. memory' = memory /\ ledger' = Append(ledger, e)
    BY <1>5 DEF RecordIntent
  <2>2. e \in Event /\ e.kind = "intent"
    <3>1. req[r].got \in SUBSET Nat
      BY DEF IInv, TypeOK, Request
    <3> QED  BY <3>1, EventTypes DEF Happened
  <2> HIDE DEF e
  <2> QED  BY <2>1, <2>2, OthersAreReplayed
<1>6. CASE Crash \/ Tick \/ UNCHANGED vars
  <2>1. memory' = memory /\ ledger' = ledger
    BY <1>6 DEF Crash, Tick, vars
  <2> QED  BY <2>1, OthersAreReplayed
<1> QED  BY <1>3, <1>4, <1>5, <1>6 DEF Next

\* ReplayEqualsLive: the table rebuilt from the ledger is the live one, row for
\* row, for any bodies and any interleaving of their awaits, deaths included
\* (memory-projection.ts, sqlite-memory-writer.ts).
THEOREM ReplayStands == Spec => []ReplayEqualsLive
<1>1. Init => ReplayEqualsLive
  <2>1. Replay = Rebuilt(ledger)
    BY DEF Replay, Rebuilt
  <2> QED  BY <2>1, RebuildNothing DEF Init, ReplayEqualsLive
<1>2. IInv /\ ReplayEqualsLive /\ [Next]_vars => ReplayEqualsLive'
  BY ReplayKept
<1> QED  BY <1>1, <1>2, MemoryStands, PTL DEF Spec

=============================================================================
