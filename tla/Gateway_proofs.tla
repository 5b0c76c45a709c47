--------------------------- MODULE Gateway_proofs ---------------------------
(***************************************************************************)
(* Theorems about the gateway's settling half, Settlement, and about the   *)
(* gateway process as a whole, for any transactions, requests, carts,      *)
(* clients, keys, bodies, attempts, crashes and clock, and whatever holds  *)
(* and mandates it starts from.                                            *)
(*                                                                         *)
(* The safety properties lean on each other: capacity is captured only     *)
(* for an outcome, an outcome only for an attempt, an attempt only for an  *)
(* order, an order only after a burn, and a burn only in a state no cancel *)
(* leaves from. IInv is that chain (Burns, Watches), with what a suspended *)
(* execution may count on (Calls).                                         *)
(*                                                                         *)
(* A step of the gateway that settles is a step of Settlement, so for the  *)
(* gateway IInv need only be shown to survive the other half,              *)
(* verification, which opens rows while everything else runs.              *)
(***************************************************************************)
EXTENDS Gateway, Basics

\* A call that was presented says what for, and has no answer while it runs;
\* a timer's call is for the timer's own transaction.
Calls ==
    \A k \in Callers :
        /\ call[k].pc = "idle" => call[k].reply = "none"
        /\ call[k].pc # "idle" => call[k].what \in Presented
        /\ call[k].pc \in InFlight \cup {"verifying"} => call[k].reply = "none"
        /\ k \in Txns /\ call[k].pc # "idle" => call[k].what.txn = k

\* The chain from a payment attempt back to the burn, and what a burn rules out.
Sold == {"approved", "link_issued", "captured", "failed"}
Burns ==
    \A t \in Txns :
        /\ burned[t] # None =>
              /\ call[burned[t]].pc \notin {"idle", "verifying"}
              /\ call[burned[t]].what.txn = t
              /\ state[t] \in Sold
        /\ hasOrder[t] => burned[t] # None
        /\ attempts[t] # <<>> => hasOrder[t]
        /\ Len(attempts[t]) <= MaxAttempts
        /\ state[t] \in {"pending_cooloff", "cancelled"} => rsv[t] # "none"

\* What a poll heard is an attempt the rail booked.
Watches ==
    \A t \in Txns : poll[t].saw # None =>
        /\ poll[t].saw.pay \in DOMAIN attempts[t]
        /\ poll[t].saw = Booked(t, poll[t].saw.pay)

IInv ==
    /\ TypeOK
    /\ Calls
    /\ Burns
    /\ Watches
    /\ OneExecutionPerMandate
    /\ CancelledMeansNothingSent
    /\ OutcomesAreBookedOnce
    /\ SettledForAReason
    /\ ReplayOnlyToItsOwner

-----------------------------------------------------------------------------
\* Facts about sequences and numbers, in the form the steps below cite.
LEMMA PushShape ==
    ASSUME NEW S, NEW s \in Seq(S), NEW e \in S
    PROVE  /\ Append(s, e) \in Seq(S)
           /\ DOMAIN s = 1..Len(s) /\ Len(s) \in Nat
           /\ DOMAIN Append(s, e) = 1..(Len(s) + 1)
           /\ \A i \in 1..Len(s) : Append(s, e)[i] = s[i]
           /\ Append(s, e)[Len(s) + 1] = e
           /\ Append(s, e) # <<>>
OBVIOUS

\* A set of positions has a first.
LEMMA FirstExists ==
    ASSUME NEW I \in SUBSET Nat, I # {}
    PROVE  Min(I) \in I
  BY LeastExists DEF Min

-----------------------------------------------------------------------------
\* What becomes of the calls when one of them moves on.
Pcs == {"idle", "verifying", "done", "dead"} \cup InFlight
Replies == {"none", "ok", "error", "rejected", "conflict", "placeholder", "final"}

\* An answer ends a call and changes no other.
LEMMA CallAnswered ==
    ASSUME TypeOK, NEW k \in Callers, NEW r \in Replies, Reply(k, r)
    PROVE  /\ call' \in [Callers -> CallRecord]
           /\ \A j \in Callers \ {k} : call'[j] = call[j]
           /\ call'[k].pc = "done" /\ call'[k].what = call[k].what
           /\ call'[k].reply = r
<1>1. call[k] \in CallRecord
  BY DEF TypeOK
<1> DEFINE new == [call[k] EXCEPT !.pc = "done", !.reply = r]
<1>2. call' = [call EXCEPT ![k] = new]
  BY DEF TypeOK, Reply
<1>3. new \in CallRecord /\ new.pc = "done" /\ new.what = call[k].what /\ new.reply = r
  BY <1>1 DEF CallRecord, Replies, InFlight
<1> QED  BY <1>2, <1>3 DEF TypeOK

\* A call that moves on keeps what it was presented with.
LEMMA CallMoved ==
    ASSUME TypeOK, NEW k \in Callers, NEW p \in InFlight,
           call' = [call EXCEPT ![k].pc = p]
    PROVE  /\ call' \in [Callers -> CallRecord]
           /\ \A j \in Callers \ {k} : call'[j] = call[j]
           /\ call'[k].pc = p /\ call'[k].what = call[k].what
           /\ call'[k].reply = call[k].reply
<1>1. call[k] \in CallRecord
  BY DEF TypeOK
<1> DEFINE new == [call[k] EXCEPT !.pc = p]
<1>2. call' = [call EXCEPT ![k] = new]
  BY DEF TypeOK
<1>3. /\ new \in CallRecord /\ new.pc = p /\ new.what = call[k].what
      /\ new.reply = call[k].reply
  BY <1>1 DEF CallRecord
<1> QED  BY <1>2, <1>3 DEF TypeOK

\* A call that is presented waits for its verification, unanswered.
LEMMA CallPresented ==
    ASSUME TypeOK, NEW k \in Callers, NEW x \in Presented, Present(k, x)
    PROVE  /\ call' \in [Callers -> CallRecord]
           /\ \A j \in Callers \ {k} : call'[j] = call[j]
           /\ call'[k].pc = "verifying" /\ call'[k].what = x
           /\ call'[k].reply = "none"
<1> DEFINE new == [pc |-> "verifying", what |-> x, reply |-> "none"]
<1>1. new \in CallRecord
  BY DEF CallRecord
<1> QED  BY <1>1 DEF TypeOK, Present

\* A death ends what was suspended, and forgets nothing that was answered.
LEMMA CallsDie ==
    ASSUME TypeOK, Die
    PROVE  /\ call' \in [Callers -> CallRecord]
           /\ \A k \in Callers :
                /\ call'[k].what = call[k].what /\ call'[k].reply = call[k].reply
                /\ call'[k].pc = IF call[k].pc \in InFlight \cup {"verifying"}
                                 THEN "dead" ELSE call[k].pc
<1>1. ASSUME NEW k \in Callers
      PROVE  /\ call'[k] \in CallRecord
             /\ call'[k].what = call[k].what /\ call'[k].reply = call[k].reply
             /\ call'[k].pc = IF call[k].pc \in InFlight \cup {"verifying"}
                              THEN "dead" ELSE call[k].pc
  <2>1. call[k] \in CallRecord
    BY DEF TypeOK
  <2>2. call'[k] = IF call[k].pc \in InFlight \cup {"verifying"}
                   THEN [call[k] EXCEPT !.pc = "dead"] ELSE call[k]
    BY DEF Die
  <2> QED  BY <2>1, <2>2 DEF CallRecord
<1> QED  BY <1>1 DEF Die

-----------------------------------------------------------------------------
\* What may happen to a transaction when an execution moves on.
OrdersStandOnBurns ==
    \A t \in Txns :
        /\ state'[t] = state[t] \/ (state[t] = "approved" /\ state'[t] = "link_issued")
        /\ hasOrder[t] => hasOrder'[t]
        /\ hasOrder'[t] => hasOrder[t] \/ burned[t] # None
        /\ railOrder'[t] => railOrder[t] \/ burned[t] # None

\* A presented execution moves on or is answered. It has to own the burn to be
\* on its way, and to differ from its owner to be shown the stored body; what
\* it adds to the rail's order and the row's, a burn already stands for.
MovesOn(k) ==
    /\ call[k].pc # "idle"
    /\ \A j \in Callers \ {k} : call'[j] = call[j]
    /\ call'[k].what = call[k].what
    /\ call'[k].pc \in InFlight \cup {"done"}
    /\ call'[k].pc \in InFlight => call'[k].reply = "none"
    /\ call'[k].pc \in InFlight \/ call'[k].reply = "ok" => Holder(k) = k
    /\ call'[k].reply \in {"placeholder", "final"} =>
          Holder(k) \notin {None, k} /\ call[Holder(k)].what = call[k].what
    /\ OrdersStandOnBurns
    /\ burned' = burned /\ rsv' = rsv /\ outcomes' = outcomes
    /\ attempts' = attempts /\ timer' = timer /\ poll' = poll

\* Orders stand on burns as long as neither changes.
LEMMA OrdersStay ==
    ASSUME UNCHANGED <<state, hasOrder, railOrder>>
    PROVE  OrdersStandOnBurns
<1>1. state' = state /\ hasOrder' = hasOrder /\ railOrder' = railOrder
  OBVIOUS
<1> QED  BY <1>1, Zenon DEF OrdersStandOnBurns

\* A step of one call keeps every conjunct but the types.
LEMMA CallStep ==
    ASSUME IInv, NEW k \in Callers, MovesOn(k)
    PROVE  /\ Calls' /\ Burns' /\ Watches' /\ OneExecutionPerMandate'
           /\ CancelledMeansNothingSent' /\ OutcomesAreBookedOnce'
           /\ SettledForAReason' /\ ReplayOnlyToItsOwner'
<1> USE DEF MovesOn, OrdersStandOnBurns
<1>1. /\ \A j \in Callers : call'[j].what = call[j].what
      /\ \A j \in Callers : call[j].pc # "idle" => call'[j].pc # "idle"
      /\ \A j \in Callers : call[j].pc \notin {"idle", "verifying"}
                               => call'[j].pc \notin {"idle", "verifying"}
  BY DEF InFlight
<1>2. \A t \in Txns : burned[t] \in Callers \cup {None}
  BY DEF IInv, TypeOK
<1>3. Calls'
  BY DEF IInv, Calls, InFlight
<1>4. Burns'
  BY <1>1, <1>2 DEF IInv, Burns, Sold
<1>5. Watches' /\ OutcomesAreBookedOnce'
  BY DEF IInv, Watches, OutcomesAreBookedOnce, Booked
<1>6. OneExecutionPerMandate'
  BY <1>1 DEF IInv, OneExecutionPerMandate, Holder
<1>7. CancelledMeansNothingSent'
  BY DEF IInv, CancelledMeansNothingSent, Burns, Sold
<1>8. SettledForAReason'
  BY DEF IInv, SettledForAReason, Recorded, Kinds
<1>9. ReplayOnlyToItsOwner'
  <2> SUFFICES ASSUME NEW j \in Callers, call'[j].reply \in {"placeholder", "final"}
               PROVE  /\ burned[call[j].what.txn] \notin {None, j}
                      /\ call'[burned[call[j].what.txn]].what = call[j].what
    BY <1>1 DEF ReplayOnlyToItsOwner, Holder
  <2>1. /\ Holder(j) \notin {None, j} /\ call[Holder(j)].what = call[j].what
        /\ call[j].what \in Presented
    BY DEF IInv, ReplayOnlyToItsOwner, Calls
  <2>2. Holder(j) \in Callers
    BY <1>2, <2>1 DEF Holder, Presented
  <2> QED  BY <1>1, <2>1, <2>2 DEF Holder
<1> QED  BY <1>3, <1>4, <1>5, <1>6, <1>7, <1>8, <1>9

\* A presented execution is for a transaction.
LEMMA PresentedTxn ==
    ASSUME IInv, NEW k \in Callers, call[k].pc # "idle"
    PROVE  call[k].what \in Presented /\ call[k].what.txn \in Txns
  BY DEF IInv, Calls, Presented

\* A refused verification answers and burns nothing.
LEMMA RefuseKeeps ==
    ASSUME IInv, NEW k \in Callers, Refuse(k)
    PROVE  IInv'
<1>1. Reply(k, "rejected") /\ call[k].pc = "verifying"
      /\ UNCHANGED <<now, up, crashes, terms, db, timer, poll, rail>>
  BY DEF Refuse
<1>2. /\ call' \in [Callers -> CallRecord]
      /\ \A j \in Callers \ {k} : call'[j] = call[j]
      /\ call'[k].pc = "done" /\ call'[k].what = call[k].what
      /\ call'[k].reply = "rejected"
  BY <1>1, CallAnswered DEF IInv, Replies
<1>3. TypeOK'
  BY <1>1, <1>2 DEF IInv, TypeOK, terms, db, rail
<1>4. UNCHANGED <<state, hasOrder, railOrder, burned, rsv, outcomes, attempts,
                   timer, poll>>
  BY <1>1 DEF db, rail
<1>5. MovesOn(k)
  BY <1>1, <1>2, <1>4, OrdersStay DEF MovesOn, InFlight
<1> QED  BY <1>3, <1>5, CallStep DEF IInv

\* A replay answers what is stored for its key and writes nothing.
LEMMA ReplayKeeps ==
    ASSUME IInv, NEW k \in Callers, Replay(k)
    PROVE  IInv'
<1> DEFINE h == Holder(k)
           r == IF call[h].what.payload = call[k].what.payload
                THEN stored[call[k].what.txn] ELSE "conflict"
<1>1. /\ Reply(k, r) /\ call[k].pc = "verifying" /\ h # None
      /\ call[h].what.key = call[k].what.key
      /\ UNCHANGED <<now, up, crashes, terms, db, timer, poll, rail>>
  BY DEF Replay, Verified
<1>2. call[k].what \in Presented /\ call[k].what.txn \in Txns
  BY <1>1, PresentedTxn
<1>3. r \in {"none", "placeholder", "final", "conflict"}
  BY <1>2 DEF IInv, TypeOK
<1>4. /\ call' \in [Callers -> CallRecord]
      /\ \A j \in Callers \ {k} : call'[j] = call[j]
      /\ call'[k].pc = "done" /\ call'[k].what = call[k].what /\ call'[k].reply = r
  <2>1. r \in Replies
    BY <1>3 DEF Replies
  <2> HIDE DEF r
  <2> QED  BY <1>1, <2>1, CallAnswered DEF IInv
<1>5. TypeOK'
  BY <1>1, <1>4 DEF IInv, TypeOK, terms, db, rail
<1>6. h \in Callers /\ call[h].pc \notin {"idle", "verifying"}
      /\ call[h].what.txn = call[k].what.txn
  BY <1>1, <1>2 DEF IInv, TypeOK, Burns, Holder
<1>7. h # k /\ call[h].what \in Presented
  BY <1>1, <1>6, PresentedTxn
<1>8. ASSUME r # "conflict"  PROVE call[h].what = call[k].what
  BY <1>1, <1>2, <1>6, <1>7, <1>8 DEF Presented
<1>9. UNCHANGED <<state, hasOrder, railOrder, burned, rsv, outcomes, attempts,
                   timer, poll>>
  BY <1>1 DEF db, rail
<1>10. MovesOn(k)
  <2> HIDE DEF r
  <2> QED  BY <1>1, <1>3, <1>4, <1>7, <1>8, <1>9, OrdersStay DEF MovesOn, InFlight
<1> QED  BY <1>5, <1>10, CallStep DEF IInv

\* A burn is of a mandate nobody burned, in a state that may still sell.
LEMMA BurnKeeps ==
    ASSUME IInv, NEW k \in Callers, Burn(k)
    PROVE  IInv'
<1> DEFINE t == call[k].what.txn
<1>1. /\ call[k].pc = "verifying" /\ burned[t] = None /\ state[t] = "approved"
      /\ burned' = [burned EXCEPT ![t] = k]
      /\ stored' = [stored EXCEPT ![t] = "placeholder"]
      /\ call' = [call EXCEPT ![k].pc = "ordering"]
      /\ UNCHANGED <<now, up, crashes, terms, state, cancelledAt, hasOrder, rsv,
                     outcomes, timer, poll, rail>>
  BY DEF Burn, MayBurn, Verified, Holder
<1>2. /\ t \in Txns /\ call[k].what \in Presented /\ k \notin {None}
      /\ call[k].reply = "none"
  <2>1. t \in Txns /\ call[k].what \in Presented
    BY <1>1, PresentedTxn
  <2> QED  BY <1>1, <2>1, SettlementNone DEF Callers, IInv, Calls
<1>3. /\ call' \in [Callers -> CallRecord]
      /\ \A j \in Callers \ {k} : call'[j] = call[j]
      /\ call'[k].pc = "ordering" /\ call'[k].what = call[k].what
      /\ call'[k].reply = "none"
  BY <1>1, <1>2, CallMoved DEF IInv, InFlight
<1>4. /\ burned \in [Txns -> Callers \cup {None}]
      /\ burned' \in [Txns -> Callers \cup {None}]
      /\ burned'[t] = k /\ \A x \in Txns \ {t} : burned'[x] = burned[x]
  BY <1>1, <1>2 DEF IInv, TypeOK
<1>5. TypeOK'
  BY <1>1, <1>3, <1>4 DEF IInv, TypeOK, terms, rail
<1>6. Calls'
  BY <1>1, <1>2, <1>3 DEF IInv, Calls, InFlight
<1>7. Burns'
  <2> SUFFICES ASSUME NEW x \in Txns
               PROVE  /\ burned'[x] # None =>
                            /\ call'[burned'[x]].pc \notin {"idle", "verifying"}
                            /\ call'[burned'[x]].what.txn = x
                            /\ state[x] \in Sold
                      /\ hasOrder[x] => burned'[x] # None
                      /\ attempts[x] # <<>> => hasOrder[x]
                      /\ Len(attempts[x]) <= MaxAttempts
                      /\ state[x] \in {"pending_cooloff", "cancelled"} => rsv[x] # "none"
    BY <1>1 DEF Burns, rail
  <2>1. CASE x = t
    BY <1>1, <1>2, <1>3, <1>4, <2>1 DEF Sold, IInv, Burns
  <2>2. CASE x # t
    <3>1. burned'[x] = burned[x] /\ burned[x] # k
      BY <1>1, <1>2, <1>4, <2>2 DEF IInv, Burns
    <3> QED  BY <1>3, <1>4, <3>1 DEF IInv, Burns
  <2> QED  BY <2>1, <2>2
<1>8. Watches' /\ OutcomesAreBookedOnce' /\ SettledForAReason'
  BY <1>1 DEF IInv, Watches, OutcomesAreBookedOnce, SettledForAReason, Booked,
              Recorded, rail
<1>9. OneExecutionPerMandate'
  <2>1. ASSUME NEW j \in Callers, call'[j].pc \in InFlight \/ call'[j].reply = "ok"
        PROVE  burned'[call'[j].what.txn] = j
    <3>1. CASE j = k
      BY <1>3, <1>4, <3>1
    <3>2. CASE j # k
      <4>1. call'[j] = call[j] /\ burned[call[j].what.txn] = j /\ call[j].pc # "idle"
        BY <1>3, <2>1, <3>2 DEF IInv, OneExecutionPerMandate, Holder, InFlight, Calls
      <4>2. call[j].what.txn \in Txns /\ call[j].what.txn # t
        BY <1>1, <4>1, PresentedTxn, SettlementNone DEF Callers
      <4> QED  BY <1>4, <4>1, <4>2
    <3> QED  BY <3>1, <3>2
  <2>2. ASSUME NEW x \in Txns, railOrder'[x]  PROVE burned'[x] # None
    BY <1>1, <1>2, <1>4, <2>2 DEF IInv, OneExecutionPerMandate, rail
  <2> QED  BY <2>1, <2>2 DEF OneExecutionPerMandate, Holder
<1>10. CancelledMeansNothingSent'
  BY <1>1, <1>2, <1>4 DEF IInv, CancelledMeansNothingSent, rail
<1>11. ReplayOnlyToItsOwner'
  <2> SUFFICES ASSUME NEW j \in Callers, call'[j].reply \in {"placeholder", "final"}
               PROVE  /\ burned'[call'[j].what.txn] \notin {None, j}
                      /\ call'[burned'[call'[j].what.txn]].what = call'[j].what
    BY DEF ReplayOnlyToItsOwner, Holder
  <2>1. /\ j # k /\ call'[j] = call[j]
        /\ burned[call[j].what.txn] \notin {None, j}
        /\ call[burned[call[j].what.txn]].what = call[j].what
        /\ call[j].pc # "idle"
    BY <1>3 DEF IInv, ReplayOnlyToItsOwner, Holder, Calls
  <2>2. call[j].what.txn \in Txns /\ call[j].what.txn # t
    BY <1>1, <2>1, PresentedTxn
  <2>3. /\ burned'[call[j].what.txn] = burned[call[j].what.txn]
        /\ burned[call[j].what.txn] \in Callers
    BY <1>4, <2>1, <2>2
  <2> QED  BY <1>3, <2>1, <2>3
<1> QED  BY <1>5, <1>6, <1>7, <1>8, <1>9, <1>10, <1>11 DEF IInv

\* An execution on its way holds the burn of its transaction.
LEMMA OnItsWay ==
    ASSUME IInv, NEW k \in Callers, call[k].pc \in InFlight
    PROVE  /\ Holder(k) = k /\ Holder(k) # None /\ call[k].reply = "none"
           /\ call[k].pc # "idle" /\ call[k].what.txn \in Txns
<1>1. Holder(k) = k /\ call[k].reply = "none" /\ call[k].pc # "idle"
  BY DEF IInv, OneExecutionPerMandate, Calls, InFlight
<1> QED  BY <1>1, PresentedTxn, SettlementNone DEF Callers

\* The rail creates the order of the call that burned.
LEMMA RailCreatesKeeps ==
    ASSUME IInv, NEW k \in Callers, RailCreates(k)
    PROVE  IInv'
<1> DEFINE t == call[k].what.txn
<1>1. /\ call[k].pc = "ordering" /\ railOrder' = [railOrder EXCEPT ![t] = TRUE]
      /\ call' = [call EXCEPT ![k].pc = "ordered"] \/ call' = call
      /\ UNCHANGED <<now, up, crashes, terms, db, timer, poll, attempts>>
  BY DEF RailCreates
<1>2. /\ Holder(k) = k /\ burned[t] # None /\ call[k].reply = "none"
      /\ call[k].pc # "idle" /\ t \in Txns
  BY <1>1, OnItsWay DEF InFlight, Holder
<1>3. /\ call' \in [Callers -> CallRecord]
      /\ \A j \in Callers \ {k} : call'[j] = call[j]
      /\ call'[k].pc \in {"ordering", "ordered"} /\ call'[k].what = call[k].what
      /\ call'[k].reply = "none"
  <2>1. CASE call' = call
    BY <1>1, <1>2, <2>1 DEF IInv, TypeOK
  <2>2. CASE call' = [call EXCEPT ![k].pc = "ordered"]
    BY <1>2, <2>2, CallMoved DEF IInv, InFlight
  <2> QED  BY <1>1, <2>1, <2>2
<1>4. /\ railOrder' \in [Txns -> BOOLEAN]
      /\ \A x \in Txns : x # t => railOrder'[x] = railOrder[x]
  BY <1>1, <1>2 DEF IInv, TypeOK
<1>5. TypeOK'
  BY <1>1, <1>3, <1>4 DEF IInv, TypeOK, terms, db
<1>6. UNCHANGED <<state, hasOrder, burned, rsv, outcomes, attempts, timer, poll>>
  BY <1>1 DEF db
<1>7. OrdersStandOnBurns
  <2>1. \A x \in Txns : railOrder'[x] => railOrder[x] \/ burned[x] # None
    BY <1>2, <1>4
  <2>2. state' = state /\ hasOrder' = hasOrder
    BY <1>6
  <2> QED  BY <2>1, <2>2, Zenon DEF OrdersStandOnBurns
<1>8. MovesOn(k)
  BY <1>1, <1>2, <1>3, <1>6, <1>7 DEF MovesOn, InFlight
<1> QED  BY <1>5, <1>8, CallStep DEF IInv

\* The order is recorded where the rail created it.
LEMMA OrderPlacedKeeps ==
    ASSUME IInv, NEW k \in Callers, OrderPlaced(k)
    PROVE  IInv'
<1> DEFINE t == call[k].what.txn
<1>1. /\ call[k].pc = "ordered" /\ hasOrder' = [hasOrder EXCEPT ![t] = TRUE]
      /\ call' = [call EXCEPT ![k].pc = "linking"]
      /\ UNCHANGED <<now, up, crashes, terms, state, cancelledAt, rsv, burned,
                     stored, outcomes, timer, poll, rail>>
  BY DEF OrderPlaced
<1>2. /\ Holder(k) = k /\ burned[t] # None /\ call[k].reply = "none"
      /\ call[k].pc # "idle" /\ t \in Txns
  BY <1>1, OnItsWay DEF InFlight, Holder
<1>3. /\ call' \in [Callers -> CallRecord]
      /\ \A j \in Callers \ {k} : call'[j] = call[j]
      /\ call'[k].pc = "linking" /\ call'[k].what = call[k].what
      /\ call'[k].reply = "none"
  BY <1>1, <1>2, CallMoved DEF IInv, InFlight
<1>4. /\ hasOrder' \in [Txns -> BOOLEAN] /\ hasOrder'[t] = TRUE
      /\ \A x \in Txns : x # t => hasOrder'[x] = hasOrder[x]
  BY <1>1, <1>2 DEF IInv, TypeOK
<1>5. TypeOK'
  BY <1>1, <1>3, <1>4 DEF IInv, TypeOK, terms, rail
<1>6. UNCHANGED <<state, railOrder, burned, rsv, outcomes, attempts, timer, poll>>
  BY <1>1 DEF rail
<1>7. OrdersStandOnBurns
  <2>1. \A x \in Txns : /\ hasOrder'[x] => hasOrder[x] \/ burned[x] # None
                        /\ hasOrder[x] => hasOrder'[x]
    BY <1>2, <1>4
  <2>2. state' = state /\ railOrder' = railOrder
    BY <1>6
  <2> QED  BY <2>1, <2>2, Zenon DEF OrdersStandOnBurns
<1>8. MovesOn(k)
  BY <1>1, <1>2, <1>3, <1>6, <1>7 DEF MovesOn, InFlight
<1> QED  BY <1>5, <1>8, CallStep DEF IInv

\* A link is sent where an order is.
LEMMA LinkOutcomeKeeps ==
    ASSUME IInv, NEW k \in Callers, LinkOutcome(k)
    PROVE  IInv'
<1> DEFINE t == call[k].what.txn
<1>1. /\ call[k].pc = "linking" /\ Move(t, "approved", "link_issued", None)
      /\ stored' = [stored EXCEPT ![t] = "final"]
      /\ Reply(k, "ok")
      /\ UNCHANGED <<now, up, crashes, terms, hasOrder, rsv, burned, outcomes,
                     timer, poll, rail>>
  BY DEF LinkOutcome
<1>2. Holder(k) = k /\ call[k].pc # "idle" /\ t \in Txns
  BY <1>1, OnItsWay DEF InFlight
<1>3. /\ call' \in [Callers -> CallRecord]
      /\ \A j \in Callers \ {k} : call'[j] = call[j]
      /\ call'[k].pc = "done" /\ call'[k].what = call[k].what
      /\ call'[k].reply = "ok"
  BY <1>1, CallAnswered DEF IInv, Replies
<1>4. /\ state' \in [Txns -> TxnStates \cup {"none"}]
      /\ cancelledAt' \in [Txns -> 0..MaxTime \cup {None}]
      /\ \A x \in Txns : \/ state'[x] = state[x]
                         \/ (state[x] = "approved" /\ state'[x] = "link_issued")
  BY <1>1, <1>2 DEF IInv, TypeOK, Move, TxnStates
<1>5. TypeOK'
  BY <1>1, <1>2, <1>3, <1>4 DEF IInv, TypeOK, terms, rail
<1>6. UNCHANGED <<hasOrder, railOrder, burned, rsv, outcomes, attempts, timer, poll>>
  BY <1>1 DEF rail
<1>7. OrdersStandOnBurns
  <2>1. hasOrder' = hasOrder /\ railOrder' = railOrder
    BY <1>6
  <2> QED  BY <1>4, <2>1, Zenon DEF OrdersStandOnBurns
<1>8. MovesOn(k)
  BY <1>1, <1>2, <1>3, <1>6, <1>7 DEF MovesOn, InFlight
<1> QED  BY <1>5, <1>8, CallStep DEF IInv

-----------------------------------------------------------------------------
\* Somebody presents a mandate, or a hold matures into presenting its own.
Newcomer(j) ==
    /\ call'[j].pc = "verifying" /\ call'[j].reply = "none"
    /\ call'[j].what \in Presented
    /\ j \in Txns => call'[j].what.txn = j
    /\ \A t \in Txns : burned[t] # j

Presents ==
    /\ \A j \in Callers : call'[j] = call[j] \/ Newcomer(j)
    /\ \A t \in Txns : \/ state'[t] = state[t]
                       \/ (state[t] = "pending_cooloff" /\ state'[t] = "approved")
    /\ timer' \subseteq timer
    /\ hasOrder' = hasOrder /\ rsv' = rsv /\ burned' = burned /\ poll' = poll
    /\ outcomes' = outcomes /\ railOrder' = railOrder /\ attempts' = attempts

\* A presented call disturbs no conjunct but the types.
LEMMA PresentStep ==
    ASSUME IInv, Presents
    PROVE  /\ Calls' /\ Burns' /\ Watches' /\ OneExecutionPerMandate'
           /\ CancelledMeansNothingSent' /\ OutcomesAreBookedOnce'
           /\ SettledForAReason' /\ ReplayOnlyToItsOwner'
<1> USE DEF Presents
<1>1. \A t \in Txns : burned[t] # None =>
         burned[t] \in Callers /\ call'[burned[t]] = call[burned[t]]
  BY DEF IInv, TypeOK, Newcomer
<1>2. Calls'
  BY DEF IInv, Calls, InFlight, Newcomer
<1>3. Burns'
  BY <1>1 DEF IInv, Burns, Sold
<1>4. Watches' /\ OutcomesAreBookedOnce'
  BY DEF IInv, Watches, OutcomesAreBookedOnce, Booked
<1>5. OneExecutionPerMandate'
  BY DEF IInv, OneExecutionPerMandate, Holder, Newcomer, InFlight
<1>6. CancelledMeansNothingSent'
  BY DEF IInv, CancelledMeansNothingSent
<1>7. SettledForAReason'
  BY DEF IInv, SettledForAReason, Recorded, Kinds
<1>8. ReplayOnlyToItsOwner'
  <2> SUFFICES ASSUME NEW j \in Callers, call'[j].reply \in {"placeholder", "final"}
               PROVE  /\ burned[call'[j].what.txn] \notin {None, j}
                      /\ call'[burned[call'[j].what.txn]].what = call'[j].what
    BY DEF ReplayOnlyToItsOwner, Holder
  <2>1. call'[j] = call[j]
    BY DEF Newcomer
  <2>2. /\ Holder(j) \notin {None, j} /\ call[Holder(j)].what = call[j].what
        /\ call[j].pc # "idle"
    BY <2>1 DEF IInv, ReplayOnlyToItsOwner, Calls
  <2>3. call[j].what.txn \in Txns
    BY <2>2, PresentedTxn
  <2> QED  BY <1>1, <2>1, <2>2, <2>3 DEF Holder
<1> QED  BY <1>2, <1>3, <1>4, <1>5, <1>6, <1>7, <1>8

\* A client's call is a presented call.
LEMMA ClientCallKeeps ==
    ASSUME IInv, NEW k \in Clients, ClientCall(k)
    PROVE  IInv'
<1>1. PICK t \in Txns, key \in Keys, p \in Payloads :
        Present(k, [txn |-> t, key |-> key, payload |-> p])
  BY DEF ClientCall
<1> DEFINE x == [txn |-> t, key |-> key, payload |-> p]
<1>2. /\ call[k].pc = "idle"
      /\ UNCHANGED <<now, up, crashes, terms, db, timer, poll, rail>>
  BY DEF ClientCall
<1>3. x \in Presented /\ k \in Callers
  BY DEF Presented, Callers
<1>4. /\ call' \in [Callers -> CallRecord]
      /\ \A j \in Callers \ {k} : call'[j] = call[j]
      /\ call'[k].pc = "verifying" /\ call'[k].what = x /\ call'[k].reply = "none"
  BY <1>1, <1>3, CallPresented DEF IInv
<1>5. TypeOK'
  BY <1>2, <1>4 DEF IInv, TypeOK, terms, db, rail
<1>6. \A u \in Txns : burned[u] # k
  BY <1>2, <1>3, SettlementNone DEF IInv, Burns
<1>7. Newcomer(k)
  BY <1>3, <1>4, <1>6, ClientsAreNotTimers DEF Newcomer
<1>8. Presents
  BY <1>2, <1>4, <1>7 DEF Presents, db, rail
<1> QED  BY <1>5, <1>8, PresentStep DEF IInv

\* A matured hold presents the timer's own call.
LEMMA MatureKeeps ==
    ASSUME IInv, NEW t \in Txns, Mature(t)
    PROVE  IInv'
<1> DEFINE x == [txn |-> t, key |-> t, payload |-> t]
<1>1. /\ timer' = timer \ {t}
      /\ Move(t, "pending_cooloff", "approved", None)
      /\ UNCHANGED <<now, up, crashes, terms, hasOrder, rsv, burned, stored,
                     outcomes, poll, rail>>
      /\ state[t] = "pending_cooloff" => Present(t, x)
      /\ state[t] # "pending_cooloff" => call' = call
  BY DEF Mature
<1>2. /\ state' \in [Txns -> TxnStates \cup {"none"}]
      /\ cancelledAt' \in [Txns -> 0..MaxTime \cup {None}]
      /\ \A u \in Txns : \/ state'[u] = state[u]
                         \/ (state[u] = "pending_cooloff" /\ state'[u] = "approved")
  BY <1>1 DEF IInv, TypeOK, Move, TxnStates
<1>3. x \in Presented /\ t \in Callers
  BY DEF Presented, Callers
<1>4. /\ call' \in [Callers -> CallRecord]
      /\ \A j \in Callers : call'[j] = call[j] \/ Newcomer(j)
  <2>1. CASE state[t] = "pending_cooloff"
    <3>1. /\ call' \in [Callers -> CallRecord]
          /\ \A j \in Callers \ {t} : call'[j] = call[j]
          /\ call'[t].pc = "verifying" /\ call'[t].what = x
          /\ call'[t].reply = "none"
      BY <1>1, <1>3, <2>1, CallPresented DEF IInv
    <3>2. ASSUME NEW u \in Txns, burned[u] = t  PROVE FALSE
      <4>1. burned[u] # None
        BY <1>3, <3>2, SettlementNone DEF Callers
      <4>2. /\ call[t].pc # "idle" /\ call[t].what.txn = u /\ state[u] \in Sold
        BY <3>2, <4>1 DEF IInv, Burns
      <4>3. u = t
        BY <1>3, <4>2 DEF IInv, Calls
      <4> QED  BY <2>1, <4>2, <4>3 DEF Sold
    <3>3. Newcomer(t)
      BY <1>3, <3>1, <3>2 DEF Newcomer
    <3> QED  BY <3>1, <3>3
  <2>2. CASE state[t] # "pending_cooloff"
    BY <1>1, <2>2 DEF IInv, TypeOK
  <2> QED  BY <2>1, <2>2
<1>5. TypeOK'
  BY <1>1, <1>2, <1>4 DEF IInv, TypeOK, terms, rail
<1>6. Presents
  BY <1>1, <1>2, <1>4 DEF Presents, rail
<1> QED  BY <1>5, <1>6, PresentStep DEF IInv

-----------------------------------------------------------------------------
\* The process dies, by itself or by a timer's unhandled rejection.
LEMMA DieKeeps ==
    ASSUME IInv, Die, crashes' \in 0..MaxCrashes,
           UNCHANGED <<now, terms, db, rail>>
    PROVE  IInv'
<1>1. /\ call' \in [Callers -> CallRecord]
      /\ \A k \in Callers :
           /\ call'[k].what = call[k].what /\ call'[k].reply = call[k].reply
           /\ call'[k].pc = IF call[k].pc \in InFlight \cup {"verifying"}
                            THEN "dead" ELSE call[k].pc
  BY CallsDie DEF IInv
<1>2. /\ up' = FALSE /\ timer' = {} /\ poll' = [t \in Txns |-> NoPoll]
      /\ now' = now /\ due' = due /\ mandateExp' = mandateExp
      /\ state' = state /\ cancelledAt' = cancelledAt /\ hasOrder' = hasOrder
      /\ rsv' = rsv /\ burned' = burned /\ stored' = stored
      /\ outcomes' = outcomes /\ railOrder' = railOrder /\ attempts' = attempts
  BY DEF Die, terms, db, rail
<1>3. TypeOK'
  BY <1>1, <1>2 DEF IInv, TypeOK, NoPoll
<1>4. \A t \in Txns : burned[t] \in Callers \cup {None}
  BY DEF IInv, TypeOK
<1>5. Calls'
  BY <1>1 DEF IInv, Calls, InFlight
<1>6. Burns'
  <2> SUFFICES ASSUME NEW t \in Txns, burned[t] # None
               PROVE  /\ call'[burned[t]].pc \notin {"idle", "verifying"}
                      /\ call'[burned[t]].what.txn = t
                      /\ state[t] \in Sold
    BY <1>2 DEF IInv, Burns
  <2> QED  BY <1>1, <1>4 DEF IInv, Burns
<1>7. Watches'
  BY <1>2 DEF Watches, NoPoll
<1>8. OutcomesAreBookedOnce' /\ SettledForAReason'
  BY <1>2 DEF IInv, OutcomesAreBookedOnce, SettledForAReason, Booked, Recorded
<1>9. OneExecutionPerMandate'
  BY <1>1, <1>2 DEF IInv, OneExecutionPerMandate, Holder, InFlight
<1>10. CancelledMeansNothingSent'
  BY <1>2 DEF IInv, CancelledMeansNothingSent
<1>11. ReplayOnlyToItsOwner'
  <2> SUFFICES ASSUME NEW j \in Callers, call[j].reply \in {"placeholder", "final"}
               PROVE  /\ burned[call[j].what.txn] \notin {None, j}
                      /\ call'[burned[call[j].what.txn]].what = call[j].what
    BY <1>1, <1>2 DEF ReplayOnlyToItsOwner, Holder
  <2>1. /\ Holder(j) \notin {None, j} /\ call[Holder(j)].what = call[j].what
        /\ call[j].pc # "idle"
    BY DEF IInv, ReplayOnlyToItsOwner, Calls
  <2>2. Holder(j) \in Callers
    BY <1>4, <2>1, PresentedTxn DEF Holder
  <2> QED  BY <1>1, <2>1, <2>2 DEF Holder
<1> QED  BY <1>3, <1>5, <1>6, <1>7, <1>8, <1>9, <1>10, <1>11 DEF IInv

\* A crash leaves every call in flight dead, unanswered.
LEMMA CrashKeeps ==
    ASSUME IInv, Crash
    PROVE  IInv'
<1>1. crashes' \in 0..MaxCrashes
  BY SettlementBounds DEF IInv, TypeOK, Crash
<1> QED  BY <1>1, DieKeeps DEF Crash

\* A call that fails answers an error, or takes the process down.
LEMMA CallFailsKeeps ==
    ASSUME IInv, NEW k \in Callers, CallFails(k)
    PROVE  IInv'
<1>1. /\ call[k].pc # "idle" /\ call[k].reply = "none"
      /\ Throw(k)
      /\ UNCHANGED <<now, crashes, terms, db, rail>>
  BY DEF CallFails, MayBurn, Verified, IInv, Calls, InFlight
<1>2. CASE Reply(k, "error") /\ UNCHANGED <<up, timer, poll>>
  <2>1. /\ call' \in [Callers -> CallRecord]
        /\ \A j \in Callers \ {k} : call'[j] = call[j]
        /\ call'[k].pc = "done" /\ call'[k].what = call[k].what
        /\ call'[k].reply = "error"
    BY <1>2, CallAnswered DEF IInv, Replies
  <2>2. TypeOK'
    BY <1>1, <1>2, <2>1 DEF IInv, TypeOK, terms, db, rail
  <2>3. UNCHANGED <<state, hasOrder, railOrder, burned, rsv, outcomes, attempts,
                     timer, poll>>
    BY <1>1, <1>2 DEF db, rail
  <2>4. MovesOn(k)
    BY <1>1, <2>1, <2>3, OrdersStay DEF MovesOn, InFlight
  <2> QED  BY <2>2, <2>4, CallStep DEF IInv
<1>3. CASE Die
  BY <1>1, <1>3, DieKeeps DEF IInv, TypeOK
<1> QED  BY <1>1, <1>2, <1>3 DEF Throw

-----------------------------------------------------------------------------
\* Steps that leave the calls alone.
Undisturbed ==
    UNCHANGED <<call, burned, hasOrder, railOrder>>

\* What a step leaves to the calls alone stays true of them.
LEMMA CallsUndisturbed ==
    ASSUME IInv, Undisturbed
    PROVE  Calls' /\ OneExecutionPerMandate' /\ ReplayOnlyToItsOwner'
<1>1. call' = call /\ burned' = burned /\ railOrder' = railOrder
  BY DEF Undisturbed
<1>2. Calls'
  BY <1>1 DEF IInv, Calls
<1>3. OneExecutionPerMandate' /\ ReplayOnlyToItsOwner'
  BY <1>1 DEF IInv, OneExecutionPerMandate, ReplayOnlyToItsOwner, Holder
<1> QED  BY <1>2, <1>3

\* What a hold that was not sold can never have behind it.
LEMMA Unsold ==
    ASSUME IInv, NEW t \in Txns, state[t] \in {"pending_cooloff", "cancelled"}
    PROVE  /\ burned[t] = None /\ ~hasOrder[t] /\ ~railOrder[t]
           /\ attempts[t] = <<>> /\ rsv[t] \in {"open", "released"}
<1>1. burned[t] = None
  BY DEF IInv, Burns, Sold
<1>2. ~hasOrder[t] /\ attempts[t] = <<>>
  BY <1>1 DEF IInv, Burns, TypeOK
<1>3. ~railOrder[t]
  BY <1>1 DEF IInv, OneExecutionPerMandate
<1>4. rsv[t] # "captured"
  <2> SUFFICES ASSUME rsv[t] = "captured"  PROVE FALSE
    OBVIOUS
  <2>1. PICK i \in DOMAIN outcomes[t] : outcomes[t][i].kind = "captured"
    BY DEF IInv, SettledForAReason, Recorded
  <2>2. outcomes[t][i].pay \in DOMAIN attempts[t]
    BY DEF IInv, OutcomesAreBookedOnce
  <2> QED  BY <1>2, <2>2
<1>5. rsv[t] \in {"open", "released"}
  BY <1>4 DEF IInv, TypeOK, Burns
<1> QED  BY <1>1, <1>2, <1>3, <1>5

\* A boot arms a timer for every parked row.
LEMMA BootKeeps ==
    ASSUME IInv, Boot
    PROVE  IInv'
<1>1. /\ up' = TRUE /\ timer' = {t \in Txns : state[t] = "pending_cooloff"}
      /\ UNCHANGED <<now, crashes, terms, db, call, poll, rail>>
  BY DEF Boot
<1>2. TypeOK'
  BY <1>1 DEF IInv, TypeOK, terms, db, rail
<1>3. Calls' /\ OneExecutionPerMandate' /\ ReplayOnlyToItsOwner'
  BY <1>1, CallsUndisturbed DEF Undisturbed, db, rail
<1>4. Burns' /\ Watches' /\ OutcomesAreBookedOnce' /\ SettledForAReason'
  BY <1>1 DEF IInv, Burns, Watches, OutcomesAreBookedOnce, SettledForAReason,
              Booked, Recorded, db, rail
<1>5. CancelledMeansNothingSent'
  BY <1>1 DEF IInv, CancelledMeansNothingSent, db, rail
<1> QED  BY <1>2, <1>3, <1>4, <1>5 DEF IInv

\* A cancel needs a parked row, which nobody has burned.
LEMMA CancelKeeps ==
    ASSUME IInv, NEW t \in Txns, Cancel(t)
    PROVE  IInv'
<1>1. /\ state[t] = "pending_cooloff"
      /\ state' = [state EXCEPT ![t] = "cancelled"]
      /\ cancelledAt' = [cancelledAt EXCEPT ![t] = now]
      /\ rsv' = IF rsv[t] = "open" THEN [rsv EXCEPT ![t] = "released"] ELSE rsv
      /\ timer' = timer \ {t}
      /\ UNCHANGED <<now, up, crashes, terms, hasOrder, burned, stored, outcomes,
                     call, poll, rail>>
  BY DEF Cancel, Move, Settle
<1>2. /\ burned[t] = None /\ ~hasOrder[t] /\ ~railOrder[t]
      /\ rsv[t] \in {"open", "released"}
  BY <1>1, Unsold
<1>3. /\ state' \in [Txns -> TxnStates \cup {"none"}] /\ state'[t] = "cancelled"
      /\ \A u \in Txns : u # t => state'[u] = state[u]
      /\ rsv' \in [Txns -> {"none", "open", "captured", "released"}]
      /\ rsv'[t] = "released" /\ \A u \in Txns : u # t => rsv'[u] = rsv[u]
  BY <1>1, <1>2 DEF IInv, TypeOK, TxnStates
<1>4. cancelledAt' \in [Txns -> 0..MaxTime \cup {None}]
  BY <1>1 DEF IInv, TypeOK
<1>5. TypeOK'
  BY <1>1, <1>3, <1>4 DEF IInv, TypeOK, terms, rail
<1>6. Calls' /\ OneExecutionPerMandate' /\ ReplayOnlyToItsOwner'
  BY <1>1, CallsUndisturbed DEF Undisturbed, rail
<1>7. Burns'
  BY <1>1, <1>2, <1>3 DEF IInv, Burns, rail
<1>8. Watches' /\ OutcomesAreBookedOnce'
  BY <1>1 DEF IInv, Watches, OutcomesAreBookedOnce, Booked, rail
<1>9. SettledForAReason'
  BY <1>1, <1>3 DEF IInv, SettledForAReason, Recorded, Kinds
<1>10. CancelledMeansNothingSent'
  BY <1>1, <1>2, <1>3 DEF IInv, CancelledMeansNothingSent, rail
<1> QED  BY <1>5, <1>6, <1>7, <1>8, <1>9, <1>10 DEF IInv

\* A restored row is parked again; nothing holds its capacity again.
LEMMA RestoreKeeps ==
    ASSUME IInv, NEW t \in Txns, Restore(t)
    PROVE  IInv'
<1>1. /\ state[t] = "cancelled"
      /\ state' = [state EXCEPT ![t] = "pending_cooloff"]
      /\ cancelledAt' = [cancelledAt EXCEPT ![t] = None]
      /\ timer' = timer \cup {t}
      /\ UNCHANGED <<now, up, crashes, terms, hasOrder, rsv, burned, stored,
                     outcomes, call, poll, rail>>
  BY DEF Restore, Move
<1>2. burned[t] = None /\ rsv[t] \in {"open", "released"}
  BY <1>1, Unsold
<1>3. /\ state' \in [Txns -> TxnStates \cup {"none"}]
      /\ state'[t] = "pending_cooloff"
      /\ \A u \in Txns : u # t => state'[u] = state[u]
      /\ cancelledAt' \in [Txns -> 0..MaxTime \cup {None}]
  BY <1>1 DEF IInv, TypeOK, TxnStates
<1>4. TypeOK'
  BY <1>1, <1>3 DEF IInv, TypeOK, terms, rail
<1>5. Calls' /\ OneExecutionPerMandate' /\ ReplayOnlyToItsOwner'
  BY <1>1, CallsUndisturbed DEF Undisturbed, rail
<1>6. Burns'
  BY <1>1, <1>2, <1>3 DEF IInv, Burns, rail
<1>7. Watches' /\ OutcomesAreBookedOnce'
  BY <1>1 DEF IInv, Watches, OutcomesAreBookedOnce, Booked, rail
<1>8. SettledForAReason'
  BY <1>1, <1>3 DEF IInv, SettledForAReason, Recorded, Kinds
<1>9. CancelledMeansNothingSent'
  BY <1>1, <1>3 DEF IInv, CancelledMeansNothingSent, rail
<1> QED  BY <1>4, <1>5, <1>6, <1>7, <1>8, <1>9 DEF IInv

-----------------------------------------------------------------------------
\* The customer pays, and the gateway hears of it.
LEMMA AttemptKeeps ==
    ASSUME IInv, NEW t \in Txns, Attempt(t)
    PROVE  IInv'
<1>1. PICK kind \in Kinds : attempts' = [attempts EXCEPT ![t] = Append(attempts[t], kind)]
  BY DEF Attempt
<1>2. /\ hasOrder[t] /\ Len(attempts[t]) < MaxAttempts
      /\ UNCHANGED <<now, up, crashes, terms, db, mem, railOrder>>
  BY DEF Attempt
<1>3. attempts \in [Txns -> Seq(Kinds)] /\ attempts[t] \in Seq(Kinds)
  BY DEF IInv, TypeOK
<1>4. /\ Append(attempts[t], kind) \in Seq(Kinds)
      /\ DOMAIN attempts[t] = 1..Len(attempts[t]) /\ Len(attempts[t]) \in Nat
      /\ DOMAIN Append(attempts[t], kind) = 1..(Len(attempts[t]) + 1)
      /\ Len(Append(attempts[t], kind)) = Len(attempts[t]) + 1
      /\ \A i \in 1..Len(attempts[t]) : Append(attempts[t], kind)[i] = attempts[t][i]
  BY <1>3, PushShape
<1>5. /\ attempts' \in [Txns -> Seq(Kinds)]
      /\ \A u \in Txns : u # t => attempts'[u] = attempts[u]
      /\ Len(attempts'[t]) <= MaxAttempts
      /\ \A u \in Txns : \A i \in DOMAIN attempts[u] :
            i \in DOMAIN attempts'[u] /\ attempts'[u][i] = attempts[u][i]
  <2>1. /\ attempts'[t] = Append(attempts[t], kind)
        /\ \A u \in Txns : u # t => attempts'[u] = attempts[u]
    BY <1>1, <1>3
  <2>2. attempts' \in [Txns -> Seq(Kinds)]
    BY <1>1, <1>3, <1>4
  <2>3. Len(attempts'[t]) <= MaxAttempts
    BY <1>2, <1>4, <2>1, SettlementBounds
  <2>4. \A u \in Txns : \A i \in DOMAIN attempts[u] :
            i \in DOMAIN attempts'[u] /\ attempts'[u][i] = attempts[u][i]
    BY <1>4, <2>1
  <2> QED  BY <2>1, <2>2, <2>3, <2>4
<1>6. TypeOK'
  BY <1>2, <1>5 DEF IInv, TypeOK, terms, db, mem
<1>7. Calls' /\ OneExecutionPerMandate' /\ ReplayOnlyToItsOwner'
  BY <1>2, CallsUndisturbed DEF Undisturbed, db, mem
<1>8. Burns'
  BY <1>2, <1>5 DEF IInv, Burns, db, mem
<1>9. Watches'
  BY <1>2, <1>5 DEF IInv, Watches, Booked, mem
<1>10. OutcomesAreBookedOnce'
  <2>1. outcomes' = outcomes
    BY <1>2 DEF db
  <2>2. ASSUME NEW u \in Txns, NEW i \in DOMAIN outcomes[u]
        PROVE  /\ outcomes[u][i].pay \in DOMAIN attempts'[u]
               /\ attempts'[u][outcomes[u][i].pay] = attempts[u][outcomes[u][i].pay]
               /\ outcomes[u][i] = Booked(u, outcomes[u][i].pay)
    BY <1>5 DEF IInv, OutcomesAreBookedOnce
  <2>3. \A u \in Txns : \A i, j \in DOMAIN outcomes[u] :
           outcomes[u][i] = outcomes[u][j] => i = j
    BY DEF IInv, OutcomesAreBookedOnce
  <2>4. ASSUME NEW u \in Txns, NEW i \in DOMAIN outcomes'[u]
        PROVE  /\ outcomes'[u][i].pay \in DOMAIN attempts'[u]
               /\ outcomes'[u][i] = [pay |-> outcomes'[u][i].pay,
                                    kind |-> attempts'[u][outcomes'[u][i].pay]]
    BY <2>1, <2>2 DEF Booked
  <2>5. \A u \in Txns : \A i, j \in DOMAIN outcomes'[u] :
           outcomes'[u][i] = outcomes'[u][j] => i = j
    BY <2>1, <2>3
  <2> QED  BY <2>4, <2>5 DEF OutcomesAreBookedOnce, Booked
<1>11. SettledForAReason' /\ CancelledMeansNothingSent'
  BY <1>2 DEF IInv, SettledForAReason, Recorded, CancelledMeansNothingSent, db, mem
<1> QED  BY <1>6, <1>7, <1>8, <1>9, <1>10, <1>11 DEF IInv

\* Hearing of an attempt the rail booked, from the webhook or from the poll.
Hears(t, i) ==
    /\ Apply(t, Booked(t, i))
    /\ poll' = poll \/ poll' = [poll EXCEPT ![t] = NoPoll]
    /\ UNCHANGED <<now, up, crashes, terms, hasOrder, burned, stored, timer,
                   call, rail>>

\* An attempt the rail booked is an outcome of that payment.
LEMMA BookedIsOutcome ==
    ASSUME IInv, NEW t \in Txns, NEW i \in DOMAIN attempts[t]
    PROVE  /\ Booked(t, i) \in Outcome
           /\ Booked(t, i).pay = i /\ Booked(t, i).kind \in Kinds
<1>1. /\ attempts[t] \in Seq(Kinds) /\ Len(attempts[t]) <= MaxAttempts
      /\ Len(attempts[t]) \in Nat /\ MaxAttempts \in Nat
  BY SettlementBounds DEF IInv, TypeOK, Burns
<1>2. i \in 1..MaxAttempts /\ attempts[t][i] \in Kinds
  BY <1>1
<1> QED  BY <1>2 DEF Booked, Outcome

\* An outcome that is heard is booked once, whoever brings it.
LEMMA HearsKeeps ==
    ASSUME IInv, NEW t \in Txns, NEW i \in DOMAIN attempts[t], Hears(t, i)
    PROVE  IInv'
<1> DEFINE o == Booked(t, i)
<1>1. o \in Outcome /\ o.pay = i /\ o.kind \in Kinds
  BY BookedIsOutcome
<1>2. /\ poll' = poll \/ poll' = [poll EXCEPT ![t] = NoPoll]
      /\ UNCHANGED <<now, up, crashes, terms, hasOrder, burned, stored, timer,
                     call, rail>>
  BY DEF Hears
<1>3. /\ poll' \in [Txns -> [pc: {"off", "asking", "heard"}, saw: Outcome \cup {None}]]
      /\ \A u \in Txns : poll'[u] = poll[u] \/ poll'[u] = NoPoll
  <2> DEFINE Polls == [pc: {"off", "asking", "heard"}, saw: Outcome \cup {None}]
  <2>1. NoPoll \in Polls /\ poll \in [Txns -> Polls]
    BY DEF NoPoll, IInv, TypeOK
  <2> HIDE DEF Polls
  <2>2. poll' \in [Txns -> Polls] /\ \A u \in Txns : poll'[u] = poll[u] \/ poll'[u] = NoPoll
    <3>1. CASE poll' = poll
      BY <2>1, <3>1
    <3>2. CASE poll' = [poll EXCEPT ![t] = NoPoll]
      BY <2>1, <3>2
    <3> QED  BY <1>2, <3>1, <3>2
  <2> QED  BY <2>2 DEF Polls
<1>4. Watches'
  BY <1>2, <1>3 DEF IInv, Watches, Booked, NoPoll, rail
<1>5. Calls' /\ OneExecutionPerMandate' /\ ReplayOnlyToItsOwner'
  BY <1>2, CallsUndisturbed DEF Undisturbed, rail
<1>6. state[t] \in Sold
  <2>1. attempts[t] # <<>>
    OBVIOUS
  <2> QED  BY <2>1 DEF IInv, Burns
<1>7. CASE UNCHANGED <<state, cancelledAt, rsv, outcomes>>
  <2>1. TypeOK'
    BY <1>2, <1>3, <1>7 DEF IInv, TypeOK, terms, rail
  <2>2. Burns'
    BY <1>2, <1>7 DEF IInv, Burns, rail
  <2>3. OutcomesAreBookedOnce' /\ SettledForAReason' /\ CancelledMeansNothingSent'
    BY <1>2, <1>7 DEF IInv, OutcomesAreBookedOnce, Booked, SettledForAReason,
                      Recorded, CancelledMeansNothingSent, rail
  <2> QED  BY <1>4, <1>5, <2>1, <2>2, <2>3 DEF IInv
<1>8. CASE /\ ~Contains(outcomes[t], o)
           /\ outcomes' = [outcomes EXCEPT ![t] = Append(outcomes[t], o)]
           /\ Settle(t, IF o.kind = "captured" THEN "captured" ELSE "released")
           /\ Move(t, "link_issued", o.kind, None)
  <2> DEFINE n == Len(outcomes[t]) + 1
  <2>1. outcomes \in [Txns -> Seq(Outcome)] /\ outcomes[t] \in Seq(Outcome)
    BY DEF IInv, TypeOK
  <2>2. /\ Append(outcomes[t], o) \in Seq(Outcome)
        /\ DOMAIN outcomes[t] = 1..(n - 1) /\ n \in Nat \ {0}
        /\ DOMAIN Append(outcomes[t], o) = 1..n
        /\ \A j \in 1..(n - 1) : Append(outcomes[t], o)[j] = outcomes[t][j]
        /\ Append(outcomes[t], o)[n] = o
    <3> HIDE DEF o
    <3> QED  BY <1>1, <2>1, PushShape
  <2>3. /\ outcomes' \in [Txns -> Seq(Outcome)]
        /\ \A u \in Txns : u # t => outcomes'[u] = outcomes[u]
        /\ outcomes'[t] = Append(outcomes[t], o)
    <3> HIDE DEF o
    <3> QED  BY <1>8, <2>1, <2>2
  <2>4. /\ DOMAIN outcomes'[t] = 1..n /\ outcomes'[t][n] = o
        /\ \A j \in 1..(n - 1) : outcomes'[t][j] = outcomes[t][j]
    BY <2>2, <2>3
  <2>5. /\ state' \in [Txns -> TxnStates \cup {"none"}]
        /\ \A u \in Txns : u # t => state'[u] = state[u]
        /\ state'[t] = state[t] \/ state'[t] = o.kind
        /\ cancelledAt' \in [Txns -> 0..MaxTime \cup {None}]
    <3>1. o.kind \in TxnStates
      BY <1>1 DEF Kinds, TxnStates
    <3> HIDE DEF o
    <3> QED  BY <1>8, <3>1 DEF IInv, TypeOK, Move
  <2>6. state'[t] \in Sold
    BY <1>1, <1>6, <2>5 DEF Sold, Kinds
  <2>7. /\ rsv' \in [Txns -> {"none", "open", "captured", "released"}]
        /\ \A u \in Txns : u # t => rsv'[u] = rsv[u]
        /\ rsv'[t] # "open"
        /\ rsv'[t] = "captured" => rsv[t] = "captured" \/ o.kind = "captured"
    <3> HIDE DEF o
    <3> QED  BY <1>8 DEF IInv, TypeOK, Settle
  <2>8. TypeOK'
    BY <1>2, <1>3, <2>3, <2>5, <2>7 DEF IInv, TypeOK, terms, rail
  <2>9. Burns'
    BY <1>2, <2>5, <2>6, <2>7 DEF IInv, Burns, Sold, rail
  <2>10. CancelledMeansNothingSent'
    BY <1>2, <2>5, <2>6, <2>7 DEF IInv, CancelledMeansNothingSent, Sold, rail
  <2>11. OutcomesAreBookedOnce'
    <3>1. \A u \in Txns : u # t =>
            /\ \A j \in DOMAIN outcomes'[u] :
                /\ outcomes'[u][j].pay \in DOMAIN attempts[u]
                /\ outcomes'[u][j] = Booked(u, outcomes'[u][j].pay)
            /\ \A j, l \in DOMAIN outcomes'[u] :
                outcomes'[u][j] = outcomes'[u][l] => j = l
      BY <2>3 DEF IInv, OutcomesAreBookedOnce
    <3>2. \A j \in 1..n :
            /\ outcomes'[t][j].pay \in DOMAIN attempts[t]
            /\ outcomes'[t][j] = Booked(t, outcomes'[t][j].pay)
      <4>1. \A j \in 1..(n - 1) :
              /\ outcomes'[t][j].pay \in DOMAIN attempts[t]
              /\ outcomes'[t][j] = Booked(t, outcomes'[t][j].pay)
        BY <2>2, <2>4 DEF IInv, OutcomesAreBookedOnce
      <4>2. /\ outcomes'[t][n].pay \in DOMAIN attempts[t]
            /\ outcomes'[t][n] = Booked(t, outcomes'[t][n].pay)
        BY <1>1, <2>4
      <4>3. \A j \in 1..n : j = n \/ j \in 1..(n - 1)
        BY <2>2
      <4> QED  BY <4>1, <4>2, <4>3
    <3>3. \A j \in 1..(n - 1) : outcomes[t][j] # o
      BY <1>8, <2>1, <2>2 DEF Contains
    <3>4. ASSUME NEW j \in 1..n, NEW l \in 1..n, outcomes'[t][j] = outcomes'[t][l]
          PROVE  j = l
      <4>1. \A a, b \in 1..(n - 1) : outcomes[t][a] = outcomes[t][b] => a = b
        BY <2>2 DEF IInv, OutcomesAreBookedOnce
      <4>2. \A a \in 1..n : a = n \/ a \in 1..(n - 1)
        BY <2>2
      <4> QED  BY <2>4, <3>3, <3>4, <4>1, <4>2
    <3>5. attempts' = attempts
      BY <1>2 DEF rail
    <3>6. ASSUME NEW u \in Txns
          PROVE  /\ \A j \in DOMAIN outcomes'[u] :
                     /\ outcomes'[u][j].pay \in DOMAIN attempts[u]
                     /\ outcomes'[u][j] = Booked(u, outcomes'[u][j].pay)
                 /\ \A j, l \in DOMAIN outcomes'[u] :
                     outcomes'[u][j] = outcomes'[u][l] => j = l
      <4>1. CASE u # t
        BY <3>1, <4>1
      <4>2. CASE u = t
        BY <2>4, <3>2, <3>4, <4>2
      <4> QED  BY <4>1, <4>2
    <3> QED  BY <3>5, <3>6 DEF OutcomesAreBookedOnce, Booked
  <2>12. SettledForAReason'
    <3> DEFINE Told(u, kind) == \E j \in DOMAIN outcomes'[u] : outcomes'[u][j].kind = kind
    <3>1. ASSUME NEW u \in Txns, NEW kind \in Kinds, Recorded(u, kind)
          PROVE  Told(u, kind)
      <4>1. PICK j \in DOMAIN outcomes[u] : outcomes[u][j].kind = kind
        BY <3>1 DEF Recorded
      <4>2. CASE u = t
        <5>1. j \in 1..(n - 1) /\ j \in 1..n
          BY <2>2, <4>2
        <5> QED  BY <2>4, <4>1, <4>2, <5>1
      <4>3. CASE u # t
        BY <2>3, <4>1, <4>3
      <4> QED  BY <4>2, <4>3
    <3>2. Told(t, o.kind)
      BY <2>2, <2>4
    <3>3. /\ \A u \in Txns : outcomes[u] # <<>> => rsv[u] # "open"
          /\ \A u \in Txns : state[u] \in Kinds => Recorded(u, state[u])
          /\ \A u \in Txns : rsv[u] = "captured" => Recorded(u, "captured")
      BY DEF IInv, SettledForAReason
    <3> HIDE DEF Told, o
    <3>4. ASSUME NEW u \in Txns
          PROVE  /\ state'[u] \in Kinds => Told(u, state'[u])
                 /\ rsv'[u] = "captured" => Told(u, "captured")
                 /\ outcomes'[u] # <<>> => rsv'[u] # "open"
      <4>1. CASE u # t
        BY <2>3, <2>5, <2>7, <3>1, <3>3, <4>1 DEF Kinds
      <4>2. CASE u = t
        BY <2>5, <2>7, <3>1, <3>2, <3>3, <4>2 DEF Kinds
      <4> QED  BY <4>1, <4>2
    <3> QED  BY <3>4 DEF SettledForAReason, Recorded, Told
  <2> QED  BY <1>4, <1>5, <2>8, <2>9, <2>10, <2>11, <2>12 DEF IInv
<1> QED  BY <1>7, <1>8 DEF Hears, Apply

\* A webhook brings an outcome.
LEMMA WebhookKeeps ==
    ASSUME IInv, NEW t \in Txns, Webhook(t)
    PROVE  IInv'
<1>1. PICK i \in DOMAIN attempts[t] : Apply(t, Booked(t, i))
  BY DEF Webhook
<1>2. Hears(t, i)
  BY <1>1 DEF Webhook, Hears, mem
<1> QED  BY <1>2, HearsKeeps

\* A poll brings the outcome it saw.
LEMMA PollHearsKeeps ==
    ASSUME IInv, NEW t \in Txns, PollHears(t)
    PROVE  IInv'
<1> DEFINE i == poll[t].saw.pay
<1>1. i \in DOMAIN attempts[t] /\ poll[t].saw = Booked(t, i)
  BY DEF PollHears, IInv, Watches
<1>2. Hears(t, i)
  BY <1>1 DEF PollHears, Hears
<1> QED  BY <1>1, <1>2, HearsKeeps

-----------------------------------------------------------------------------
\* The poll's own steps, and the clock.
PollsOnly ==
    UNCHANGED <<now, up, crashes, terms, db, timer, call, rail>>

\* A step of the polls alone keeps every conjunct but what they saw.
LEMMA PollStep ==
    ASSUME IInv, PollsOnly, Watches',
           poll' \in [Txns -> [pc: {"off", "asking", "heard"}, saw: Outcome \cup {None}]]
    PROVE  IInv'
<1>1. TypeOK'
  BY DEF IInv, TypeOK, PollsOnly, terms, db, rail
<1>2. Calls' /\ OneExecutionPerMandate' /\ ReplayOnlyToItsOwner'
  BY CallsUndisturbed DEF PollsOnly, Undisturbed, db, rail
<1>3. Burns' /\ OutcomesAreBookedOnce' /\ SettledForAReason'
      /\ CancelledMeansNothingSent'
  BY DEF PollsOnly, IInv, Burns, OutcomesAreBookedOnce, SettledForAReason, Booked,
         Recorded, CancelledMeansNothingSent, db, rail
<1> QED  BY <1>1, <1>2, <1>3 DEF IInv

\* The watcher's loop moves without having heard anything new.
LEMMA PollMoves ==
    ASSUME IInv, NEW t \in Txns, NEW p \in {"off", "asking", "heard"}, PollsOnly,
           poll' = [poll EXCEPT ![t].pc = p]
    PROVE  IInv'
<1> DEFINE new == [poll[t] EXCEPT !.pc = p]
<1>1. poll' = [poll EXCEPT ![t] = new]
  BY DEF IInv, TypeOK
<1>2. /\ new \in [pc: {"off", "asking", "heard"}, saw: Outcome \cup {None}]
      /\ new.saw = poll[t].saw
  BY DEF IInv, TypeOK
<1>3. /\ poll' \in [Txns -> [pc: {"off", "asking", "heard"}, saw: Outcome \cup {None}]]
      /\ \A u \in Txns : poll'[u].saw = poll[u].saw
  <2> DEFINE Polls == [pc: {"off", "asking", "heard"}, saw: Outcome \cup {None}]
  <2>1. new \in Polls /\ poll \in [Txns -> Polls]
    BY <1>2 DEF IInv, TypeOK
  <2> HIDE DEF new, Polls
  <2>2. /\ poll' \in [Txns -> Polls] /\ poll'[t] = new
        /\ \A u \in Txns : u # t => poll'[u] = poll[u]
    BY <1>1, <2>1
  <2>3. \A u \in Txns : poll'[u].saw = poll[u].saw
    BY <1>2, <2>2
  <2> QED  BY <2>2, <2>3 DEF Polls
<1>4. attempts' = attempts
  BY DEF PollsOnly, rail
<1>5. Watches'
  BY <1>3, <1>4 DEF IInv, Watches, Booked
<1> QED  BY <1>3, <1>5, PollStep

\* A poll starts having seen nothing.
LEMMA WatchKeeps ==
    ASSUME IInv, NEW t \in Txns, Watch(t)
    PROVE  IInv'
  BY PollMoves DEF Watch, PollsOnly

\* The best attempt is one of the attempts.
LEMMA BestIsBooked ==
    ASSUME IInv, NEW t \in Txns, attempts[t] # <<>>
    PROVE  \E i \in DOMAIN attempts[t] : Best(t) = Booked(t, i)
<1> DEFINE rank == IF Contains(attempts[t], "captured") THEN "captured" ELSE "failed"
           I == {i \in 1..Len(attempts[t]) : attempts[t][i] = rank}
<1>1. /\ attempts[t] \in Seq(Kinds) /\ Len(attempts[t]) \in Nat
      /\ DOMAIN attempts[t] = 1..Len(attempts[t]) /\ Len(attempts[t]) # 0
  BY DEF IInv, TypeOK
<1>2. I # {}
  <2>1. CASE Contains(attempts[t], "captured")
    BY <2>1 DEF Contains
  <2>2. CASE ~Contains(attempts[t], "captured")
    <3>1. 1 \in 1..Len(attempts[t]) /\ attempts[t][1] \in Kinds
      BY <1>1
    <3>2. attempts[t][1] # "captured"
      BY <2>2, <3>1 DEF Contains
    <3> QED  BY <2>2, <3>1, <3>2 DEF Kinds
  <2> QED  BY <2>1, <2>2
<1>3. Min(I) \in I
  <2>1. I \in SUBSET Nat
    OBVIOUS
  <2> HIDE DEF I
  <2> QED  BY <1>2, <2>1, FirstExists
<1>4. Best(t) = Booked(t, Min(I))
  BY <1>2 DEF Best, SelectInSeq
<1> QED  BY <1>1, <1>3, <1>4

\* What a poll sees is an attempt the rail booked.
LEMMA RailLooksKeeps ==
    ASSUME IInv, NEW t \in Txns, RailLooks(t)
    PROVE  IInv'
<1> DEFINE new == [pc |-> "heard", saw |-> Best(t)]
<1>1. poll' = [poll EXCEPT ![t] = new] /\ PollsOnly
  BY DEF RailLooks, PollsOnly
<1>2. \/ Best(t) = None
      \/ \E i \in DOMAIN attempts[t] : Best(t) = Booked(t, i)
  <2>1. CASE attempts[t] = <<>>
    BY <2>1 DEF Best
  <2>2. CASE attempts[t] # <<>>
    BY <2>2, BestIsBooked
  <2> QED  BY <2>1, <2>2
<1>3. /\ Best(t) \in Outcome \cup {None}
      /\ Best(t) # None => /\ Best(t).pay \in DOMAIN attempts[t]
                           /\ Best(t) = Booked(t, Best(t).pay)
  <2>1. CASE Best(t) = None
    BY <2>1
  <2>2. ASSUME NEW i \in DOMAIN attempts[t], Best(t) = Booked(t, i)
        PROVE  /\ Best(t) \in Outcome /\ Best(t).pay \in DOMAIN attempts[t]
               /\ Best(t) = Booked(t, Best(t).pay)
    BY <2>2, BookedIsOutcome
  <2> QED  BY <1>2, <2>1, <2>2
<1>4. new \in [pc: {"off", "asking", "heard"}, saw: Outcome \cup {None}]
      /\ new.saw = Best(t)
  BY <1>3
<1>5. /\ poll' \in [Txns -> [pc: {"off", "asking", "heard"}, saw: Outcome \cup {None}]]
      /\ poll'[t].saw = Best(t)
      /\ \A u \in Txns : u # t => poll'[u] = poll[u]
  <2> HIDE DEF new
  <2> QED  BY <1>1, <1>4 DEF IInv, TypeOK
<1>6. attempts' = attempts
  BY <1>1 DEF PollsOnly, rail
<1>7. Watches'
  BY <1>3, <1>5, <1>6 DEF IInv, Watches, Booked
<1> QED  BY <1>1, <1>5, <1>7, PollStep

\* A poll that saw nothing waits.
LEMMA PollWaitsKeeps ==
    ASSUME IInv, NEW t \in Txns, PollWaits(t)
    PROVE  IInv'
<1>1. /\ PollsOnly
      /\ \/ poll' = [poll EXCEPT ![t].pc = "asking"]
         \/ poll' = [poll EXCEPT ![t] = NoPoll]
  BY DEF PollWaits, PollsOnly
<1>2. CASE poll' = [poll EXCEPT ![t].pc = "asking"]
  BY <1>1, <1>2, PollMoves
<1>3. CASE poll' = [poll EXCEPT ![t] = NoPoll]
  <2>1. /\ NoPoll \in [pc: {"off", "asking", "heard"}, saw: Outcome \cup {None}]
        /\ NoPoll.saw = None
    BY DEF NoPoll
  <2>2. /\ poll' \in [Txns -> [pc: {"off", "asking", "heard"}, saw: Outcome \cup {None}]]
        /\ poll'[t].saw = None /\ \A u \in Txns : u # t => poll'[u] = poll[u]
    BY <1>3, <2>1 DEF IInv, TypeOK
  <2>3. attempts' = attempts
    BY <1>1 DEF PollsOnly, rail
  <2>4. Watches'
    BY <2>2, <2>3 DEF IInv, Watches, Booked
  <2> QED  BY <1>1, <2>2, <2>4, PollStep
<1> QED  BY <1>1, <1>2, <1>3

\* The clock moves nothing else.
LEMMA TickKeeps ==
    ASSUME IInv, Tick
    PROVE  IInv'
<1>1. UNCHANGED <<up, crashes, terms, db, mem, rail>> /\ now' \in 0..MaxTime
  BY SettlementBounds DEF Tick, IInv, TypeOK
<1>2. TypeOK'
  BY <1>1 DEF IInv, TypeOK, terms, db, mem, rail
<1>3. Calls' /\ OneExecutionPerMandate' /\ ReplayOnlyToItsOwner'
  BY <1>1, CallsUndisturbed DEF Undisturbed, db, mem, rail
<1>4. Burns' /\ Watches' /\ OutcomesAreBookedOnce' /\ SettledForAReason'
      /\ CancelledMeansNothingSent'
  BY <1>1 DEF IInv, Burns, Watches, OutcomesAreBookedOnce, SettledForAReason,
              Booked, Recorded, CancelledMeansNothingSent, db, mem, rail
<1> QED  BY <1>2, <1>3, <1>4 DEF IInv

-----------------------------------------------------------------------------
\* Rows as verification leaves them: none at all, or one nobody has moved yet.
Untouched ==
    /\ state \in [Txns -> {"none", "approved", "pending_cooloff"}]
    /\ rsv \in [Txns -> {"none", "open"}]
    /\ due \in [Txns -> Nat] /\ mandateExp \in [Txns -> Nat]
    /\ \A t \in Txns : state[t] # "none" => rsv[t] = "open"

\* A store nobody has touched satisfies the invariant.
LEMMA QuietKeeps ==
    ASSUME Quiet, Untouched
    PROVE  IInv
<1> USE DEF Quiet, Untouched
<1>1. /\ Idle \in CallRecord /\ Idle.pc = "idle" /\ Idle.reply = "none"
      /\ NoPoll \in [pc: {"off", "asking", "heard"}, saw: Outcome \cup {None}]
      /\ NoPoll.saw = None
  BY DEF Idle, CallRecord, NoPoll
<1>2. <<>> \in Seq(Outcome) /\ <<>> \in Seq(Kinds) /\ DOMAIN <<>> = {}
  OBVIOUS
<1>3. Len(<<>>) = 0
  BY EmptySeq, Zenon
<1>4. TypeOK
  <2>1. /\ now \in 0..MaxTime /\ up \in BOOLEAN /\ crashes \in 0..MaxCrashes
        /\ timer \subseteq Txns
    BY SettlementBounds
  <2>2. /\ state \in [Txns -> TxnStates \cup {"none"}]
        /\ due \in [Txns -> Nat] /\ mandateExp \in [Txns -> Nat]
    BY DEF TxnStates
  <2>3. /\ cancelledAt \in [Txns -> 0..MaxTime \cup {None}]
        /\ hasOrder \in [Txns -> BOOLEAN]
        /\ rsv \in [Txns -> {"none", "open", "captured", "released"}]
        /\ burned \in [Txns -> Callers \cup {None}]
        /\ stored \in [Txns -> {"none", "placeholder", "final"}]
        /\ railOrder \in [Txns -> BOOLEAN]
    OBVIOUS
  <2>4. /\ outcomes \in [Txns -> Seq(Outcome)] /\ attempts \in [Txns -> Seq(Kinds)]
        /\ call \in [Callers -> CallRecord]
        /\ poll \in [Txns -> [pc: {"off", "asking", "heard"}, saw: Outcome \cup {None}]]
    BY <1>1, <1>2
  <2> QED  BY <2>1, <2>2, <2>3, <2>4 DEF TypeOK
<1>5. Calls
  BY <1>1 DEF Calls, InFlight
<1>6. Burns
  <2>1. \A t \in Txns : state[t] \in {"pending_cooloff", "cancelled"} => rsv[t] # "none"
    OBVIOUS
  <2>2. \A t \in Txns : /\ burned[t] = None /\ ~hasOrder[t] /\ attempts[t] = <<>>
                        /\ Len(attempts[t]) <= MaxAttempts
    BY <1>3, SettlementBounds
  <2> QED  BY <2>1, <2>2 DEF Burns
<1>7. Watches
  BY <1>1 DEF Watches
<1>8. OneExecutionPerMandate
  BY <1>1 DEF OneExecutionPerMandate, InFlight
<1>9. CancelledMeansNothingSent
  BY DEF CancelledMeansNothingSent
<1>10. OutcomesAreBookedOnce
  BY <1>2 DEF OutcomesAreBookedOnce
<1>11. SettledForAReason
  BY DEF SettledForAReason, Kinds
<1>12. ReplayOnlyToItsOwner
  BY <1>1 DEF ReplayOnlyToItsOwner
<1> QED  BY <1>4, <1>5, <1>6, <1>7, <1>8, <1>9, <1>10, <1>11, <1>12 DEF IInv

\* The initial states do.
LEMMA InitKeeps ==
    ASSUME NEW dues \in SUBSET Nat, NEW exps \in SUBSET Nat, InitWith(dues, exps)
    PROVE  IInv
<1>1. dues \cup {0} \subseteq Nat
  OBVIOUS
<1>2. Untouched
  BY <1>1 DEF InitWith, Untouched
<1> QED  BY <1>2, QuietKeeps DEF InitWith

\* A stutter keeps the invariant.
LEMMA IdleKeeps ==
    ASSUME IInv, UNCHANGED vars
    PROVE  IInv'
<1>1. UNCHANGED <<now, up, crashes, terms, db, mem, rail>>
  BY DEF vars
<1>2. TypeOK'
  BY <1>1 DEF IInv, TypeOK, terms, db, mem, rail
<1>3. Calls' /\ OneExecutionPerMandate' /\ ReplayOnlyToItsOwner'
  BY <1>1, CallsUndisturbed DEF Undisturbed, db, mem, rail
<1>4. Burns' /\ Watches' /\ OutcomesAreBookedOnce' /\ SettledForAReason'
      /\ CancelledMeansNothingSent'
  BY <1>1 DEF IInv, Burns, Watches, OutcomesAreBookedOnce, SettledForAReason,
              Booked, Recorded, CancelledMeansNothingSent, db, mem, rail
<1> QED  BY <1>2, <1>3, <1>4 DEF IInv

\* Every step of Settlement keeps the invariant.
LEMMA StepKeeps ==
    ASSUME IInv, [Next]_vars
    PROVE  IInv'
<1>1. ASSUME NEW k \in Clients, ClientCall(k)  PROVE IInv'
  BY <1>1, ClientCallKeeps
<1>2. ASSUME NEW k \in Callers, Execute(k)  PROVE IInv'
  BY <1>2, RefuseKeeps, ReplayKeeps, BurnKeeps, CallFailsKeeps, RailCreatesKeeps,
     OrderPlacedKeeps, LinkOutcomeKeeps DEF Execute
<1>3. ASSUME NEW t \in Txns, Cooloff(t)  PROVE IInv'
  BY <1>3, MatureKeeps, CancelKeeps, RestoreKeeps DEF Cooloff
<1>4. ASSUME NEW t \in Txns, Observe(t)  PROVE IInv'
  BY <1>4, AttemptKeeps, WebhookKeeps, WatchKeeps, RailLooksKeeps, PollHearsKeeps,
     PollWaitsKeeps DEF Observe
<1>5. CASE Crash \/ Boot \/ Tick
  BY <1>5, CrashKeeps, BootKeeps, TickKeeps
<1>6. CASE UNCHANGED vars
  BY <1>6, IdleKeeps
<1> QED  BY <1>1, <1>2, <1>3, <1>4, <1>5, <1>6 DEF Next

-----------------------------------------------------------------------------
\* The invariant is inductive: it holds whatever rows verification left, and
\* every segment of the process, the rail, the customer and the clock keeps it.
THEOREM SettlementStands ==
    ASSUME NEW dues \in SUBSET Nat, NEW exps \in SUBSET Nat
    PROVE  InitWith(dues, exps) /\ [][Next]_vars => []IInv
<1>1. InitWith(dues, exps) => IInv
  BY InitKeeps
<1>2. IInv /\ [Next]_vars => IInv'
  BY StepKeeps
<1> QED  BY <1>1, <1>2, PTL

\* Rows, calls, polls and the rail's books keep their types.
THEOREM SettlementTypes ==
    ASSUME NEW dues \in SUBSET Nat, NEW exps \in SUBSET Nat
    PROVE  InitWith(dues, exps) /\ [][Next]_vars => []TypeOK
<1>1. IInv => TypeOK
  BY DEF IInv
<1> QED  BY <1>1, SettlementStands, PTL

\* One execution gets past the burn of a mandate, however many callers hold it
\* and whatever dies between, and the rail's order is that one's.
THEOREM OneExecution ==
    ASSUME NEW dues \in SUBSET Nat, NEW exps \in SUBSET Nat
    PROVE  InitWith(dues, exps) /\ [][Next]_vars => []OneExecutionPerMandate
<1>1. IInv => OneExecutionPerMandate
  BY DEF IInv
<1> QED  BY <1>1, SettlementStands, PTL

\* A cancelled hold was never sent to the rail, and its timer is gone.
THEOREM CancelledNeverSent ==
    ASSUME NEW dues \in SUBSET Nat, NEW exps \in SUBSET Nat
    PROVE  InitWith(dues, exps) /\ [][Next]_vars => []CancelledMeansNothingSent
<1>1. IInv => CancelledMeansNothingSent
  BY DEF IInv
<1> QED  BY <1>1, SettlementStands, PTL

\* Webhook and poller together record an attempt at most once, and only one
\* the rail booked.
THEOREM OutcomesOnce ==
    ASSUME NEW dues \in SUBSET Nat, NEW exps \in SUBSET Nat
    PROVE  InitWith(dues, exps) /\ [][Next]_vars => []OutcomesAreBookedOnce
<1>1. IInv => OutcomesAreBookedOnce
  BY DEF IInv
<1> QED  BY <1>1, SettlementStands, PTL

\* Money and capacity move only on a recorded outcome of that kind.
THEOREM SettledWithReason ==
    ASSUME NEW dues \in SUBSET Nat, NEW exps \in SUBSET Nat
    PROVE  InitWith(dues, exps) /\ [][Next]_vars => []SettledForAReason
<1>1. IInv => SettledForAReason
  BY DEF IInv
<1> QED  BY <1>1, SettlementStands, PTL

\* A stored answer is shown only to the request it was stored for.
THEOREM ReplayStaysHome ==
    ASSUME NEW dues \in SUBSET Nat, NEW exps \in SUBSET Nat
    PROVE  InitWith(dues, exps) /\ [][Next]_vars => []ReplayOnlyToItsOwner
<1>1. IInv => ReplayOnlyToItsOwner
  BY DEF IInv
<1> QED  BY <1>1, SettlementStands, PTL

-----------------------------------------------------------------------------
(* The gateway: Settlement and verification on one store.                   *)

\* What verification keeps: who is suspended has presented a command, and a row
\* that was opened names the presentation that holds the cart's burn and its
\* unit's claim, with the credential it was answered for.
VerifyTypes ==
    /\ pc \in [Txns -> {"idle", "risk", "signing", "done"}]
    /\ cmd \in [Txns -> V!Commands \cup {None}]
    /\ signed = [t \in Txns |-> signed[t]]
    /\ reply = [t \in Txns |-> reply[t]]
    /\ nonce \in [Carts -> Txns \cup {None}]
    /\ claim \in [Units -> Txns \cup {None}]

Suspends ==
    \A t \in Txns : pc[t] \in {"risk", "signing"} => cmd[t] \in V!Commands

Attested(t) ==
    /\ pc[t] = "done" /\ cmd[t] \in V!Commands
    /\ nonce[cmd[t].cart] = t
    /\ claim[UnitOf[cmd[t].cart]] = t
    /\ V!DecisionOf(signed[t]) = reply[t].decision
    /\ reply[t].decision \in {"approve", "hold"}

\* A hold was given its full time when it was opened, and is sold after it,
\* unless no timer can wait for it.
HoldKept(t) ==
    V!DecisionOf(signed[t]) = "hold" =>
        /\ ~Reviewed(t) => due[t] >= Sooner(SignedAt(t) + Wait(cmd[t].cart),
                                           IntentExp[cmd[t].cart])
        /\ state[t] \in Sold => now >= due[t] \/ TooLong(t)

GInv ==
    /\ IInv
    /\ VerifyTypes
    /\ Suspends
    /\ \A t \in Txns : mandateExp[t] <= now + MandateTtl
    /\ \A t \in Txns : state[t] = "none" <=> rsv[t] = "none"
    /\ \A t \in Txns : state[t] # "none" => Attested(t) /\ HoldKept(t)

-----------------------------------------------------------------------------
(* The settling half.                                                       *)

\* How a settling step moves a transaction: not at all, between two states a
\* burn may stand on, out of a hold that rings, or by a cancel and its undo.
Moves(t) ==
    \/ state'[t] = state[t]
    \/ state[t] \in Sold /\ state'[t] \in Sold
    \/ state[t] = "pending_cooloff" /\ state'[t] = "approved" /\ Rings(t)
    \/ state[t] = "pending_cooloff" /\ state'[t] = "cancelled"
    \/ state[t] = "cancelled" /\ state'[t] = "pending_cooloff"

\* And its reservation: an open one is captured or released, once.
Settles(t) ==
    \/ rsv'[t] = rsv[t]
    \/ rsv[t] = "open" /\ rsv'[t] \in {"captured", "released"}

\* An outcome moves a row that is sold to another sold state.
LEMMA OutcomeMoves ==
    ASSUME IInv, NEW t \in Txns, NEW o, o.kind \in Kinds, Apply(t, o), NEW u \in Txns
    PROVE  /\ state'[u] = state[u] \/ (state[u] \in Sold /\ state'[u] \in Sold)
           /\ Settles(u)
<1>1. \/ UNCHANGED <<state, rsv>>
      \/ /\ Move(t, "link_issued", o.kind, None)
         /\ \E to \in {"captured", "released"} : Settle(t, to)
  BY DEF Apply
<1> QED  BY <1>1 DEF Move, Settle, Settles, IInv, TypeOK, Kinds, Sold

\* A step of Settlement moves rows forward, and opens no reservation.
LEMMA SettleMoves ==
    ASSUME IInv, Next
    PROVE  /\ UNCHANGED terms /\ now' >= now
           /\ \A t \in Txns : Moves(t) /\ Settles(t)
<1>0. now \in 0..MaxTime /\ now >= now /\ now + 1 >= now
  BY SettlementBounds DEF IInv, TypeOK
<1>1. ASSUME NEW k \in Callers, ClientCall(k) \/ Execute(k)
      PROVE  /\ UNCHANGED terms /\ now' = now /\ rsv' = rsv
             /\ \A t \in Txns : Moves(t)
  <2>1. CASE LinkOutcome(k)
    BY <2>1 DEF LinkOutcome, Move, Moves, IInv, TypeOK, Sold
  <2>2. CASE ~LinkOutcome(k)
    BY <1>1, <2>2 DEF ClientCall, Execute, Refuse, Replay, Burn, CallFails,
                      RailCreates, OrderPlaced, db, Moves
  <2> QED  BY <2>1, <2>2
<1>2. ASSUME NEW t \in Txns, Cooloff(t)
      PROVE  /\ UNCHANGED terms /\ now' = now
             /\ \A u \in Txns : Moves(u) /\ Settles(u)
  <2>1. CASE Mature(t)
    BY <2>1 DEF Mature, Move, Moves, Settles, IInv, TypeOK
  <2>2. CASE Cancel(t)
    BY <2>2 DEF Cancel, Move, Settle, Moves, Settles, IInv, TypeOK
  <2>3. CASE Restore(t)
    BY <2>3 DEF Restore, Move, Moves, Settles, IInv, TypeOK
  <2> QED  BY <1>2, <2>1, <2>2, <2>3 DEF Cooloff
<1>3. ASSUME NEW t \in Txns, Observe(t)
      PROVE  /\ UNCHANGED terms /\ now' = now
             /\ \A u \in Txns : Moves(u) /\ Settles(u)
  <2>1. CASE Webhook(t)
    <3>1. PICK i \in DOMAIN attempts[t] : Apply(t, Booked(t, i))
      BY <2>1 DEF Webhook
    <3>2. Booked(t, i).kind \in Kinds
      BY BookedIsOutcome
    <3> QED  BY <2>1, <3>1, <3>2, OutcomeMoves DEF Webhook, Moves
  <2>2. CASE PollHears(t)
    <3>1. Apply(t, poll[t].saw) /\ poll[t].saw # None
      BY <2>2 DEF PollHears
    <3>2. poll[t].saw.kind \in Kinds
      BY <3>1, BookedIsOutcome DEF IInv, Watches
    <3> QED  BY <2>2, <3>1, <3>2, OutcomeMoves DEF PollHears, Moves
  <2>3. CASE ~Webhook(t) /\ ~PollHears(t)
    BY <1>3, <2>3 DEF Observe, Attempt, Watch, RailLooks, PollWaits, Moves, Settles,
                      db
  <2> QED  BY <2>1, <2>2, <2>3
<1>4. CASE Crash \/ Boot \/ Tick
  BY <1>0, <1>4 DEF Crash, Boot, Tick, Moves, Settles, db
<1> QED  BY <1>0, <1>1, <1>2, <1>3, <1>4 DEF Next, Callers, Settles
-----------------------------------------------------------------------------
(* The verifying half.                                                      *)

\* The write transaction that opens a row, on the seals that were signed.
Opens(t) ==
    LET c == cmd[t].cart
        d == V!DecisionOf(signed[t])
    IN  /\ d \in {"approve", "hold"}
        /\ nonce[c] = None /\ claim[UnitOf[c]] = None
        /\ nonce' = [nonce EXCEPT ![c] = t]
        /\ claim' = [claim EXCEPT ![UnitOf[c]] = t]
        /\ rsv' = [rsv EXCEPT ![t] = "open"]
        /\ state' = [state EXCEPT ![t] = IF d = "hold" THEN "pending_cooloff"
                                                       ELSE "approved"]
        /\ pc' = [pc EXCEPT ![t] = "done"]
        /\ reply' = [reply EXCEPT ![t] = V!Verdict(d)]
        /\ UNCHANGED <<cmd, signed>>

\* Every other segment of a verification: no row is written.
Answers(t) ==
    /\ UNCHANGED <<nonce, claim, rsv, state>>
    /\ cmd' = [cmd EXCEPT ![t] = cmd'[t]]
    /\ signed' = [signed EXCEPT ![t] = signed'[t]]
    /\ reply' = [reply EXCEPT ![t] = reply'[t]]
    /\ pc' = [pc EXCEPT ![t] = pc'[t]] /\ pc'[t] \in {"risk", "signing", "done"}
    /\ cmd'[t] \in V!Commands \cup {None}
    /\ pc'[t] # "done" => cmd'[t] \in V!Commands

\* A verification's step is one or the other, and its request is not done.
LEMMA VerifySteps ==
    ASSUME VerifyTypes, Suspends, NEW t \in Txns, V!Step(t)
    PROVE  /\ now' = now /\ pc[t] \in {"idle", "risk", "signing"}
           /\ Answers(t) \/ (pc[t] = "signing" /\ Opens(t))
<1>1. CASE V!StageZero(t)
  BY <1>1 DEF V!StageZero, V!Answer, V!rows, VerifyTypes, Answers
<1>2. CASE V!Present(t)
  <2>1. PICK x \in V!Commands :
          /\ cmd' = [cmd EXCEPT ![t] = x]
          /\ \/ \E a : V!Answer(t, a)
             \/ pc' = [pc EXCEPT ![t] = "risk"] /\ reply' = reply
    BY <1>2 DEF V!Present
  <2>2. pc[t] = "idle" /\ UNCHANGED <<now, signed, nonce, claim, rsv, state>>
    BY <1>2 DEF V!Present, V!rows
  <2> QED  BY <2>1, <2>2 DEF V!Answer, VerifyTypes, Answers
<1>3. CASE V!Evaluate(t)
  <2>1. /\ \/ \E a : V!Answer(t, a) /\ signed' = signed
           \/ \E s : /\ pc' = [pc EXCEPT ![t] = "signing"] /\ reply' = reply
                     /\ signed' = [signed EXCEPT ![t] = s]
        /\ pc[t] = "risk" /\ UNCHANGED <<now, cmd, nonce, claim, rsv, state>>
    BY <1>3 DEF V!Evaluate, V!rows
  <2> QED  BY <2>1 DEF V!Answer, VerifyTypes, Suspends, Answers
<1>4. CASE V!Commit(t)
  <2>1. pc[t] = "signing" /\ UNCHANGED <<now, cmd, signed>>
    BY <1>4 DEF V!Commit
  <2>2. CASE V!Refusal(t) /\ UNCHANGED <<nonce, claim, rsv, state>>
    <3>1. \E a : V!Answer(t, a)
      BY <2>2 DEF V!Refusal
    <3> QED  BY <2>1, <2>2, <3>1 DEF V!Answer, VerifyTypes, Suspends, Answers
  <2>3. CASE ~(V!Refusal(t) /\ UNCHANGED <<nonce, claim, rsv, state>>)
    <3> DEFINE seals == V!SealsNow(cmd[t].cart)
               d == V!DecisionOf(seals)
    <3>1. /\ d # "reject" /\ signed[t] = seals /\ ~V!Conflict(t)
          /\ V!WriteAll(t, d) /\ V!Answer(t, V!Verdict(d))
      BY <1>4, <2>3 DEF V!Commit, V!rows
    <3>2. d \in {"approve", "hold"}
      BY <3>1 DEF V!DecisionOf
    <3> HIDE DEF seals
    <3> QED
      BY <2>1, <3>1, <3>2 DEF V!Conflict, V!WriteAll, V!Answer, Opens
  <2> QED  BY <2>2, <2>3
<1> QED  BY <1>1, <1>2, <1>3, <1>4 DEF V!Step

\* The end a hold is given is a time, and without a review it is as far off as
\* rule and intent ask.
LEMMA HoldEndsFit ==
    ASSUME GatewayData, now \in Nat, NEW t \in Txns, cmd[t].cart \in Carts,
           NEW e \in HoldEnds(t)
    PROVE  /\ e \in Nat
           /\ ~Reviewed(t) => e >= Sooner(now + Wait(cmd[t].cart),
                                          IntentExp[cmd[t].cart])
<1> DEFINE c == cmd[t].cart
<1>1. IntentExp[c] \in Nat /\ Wait(c) \in Nat
  BY DEF GatewayData, Wait
<1>2. CASE Reviewed(t)
  BY <1>2 DEF HoldEnds
<1>3. CASE ~Reviewed(t)
  <2>1. PICK b \in BlackoutEnds(c) :
          e = Sooner(Later(now + Wait(c), b), IntentExp[c])
    BY <1>3 DEF HoldEnds
  <2>2. b \in Nat
    BY <1>1, <2>1 DEF BlackoutEnds
  <2> QED  BY <1>1, <2>1, <2>2 DEF Sooner, Later
<1> QED  BY <1>2, <1>3

\* What a verification leaves to settlement: a request without a row gets one,
\* open, with nothing executed on it, and the other rows stay as they were.
LEMMA VerifyOpens ==
    ASSUME GatewayData, GInv, NEW t \in Txns, Verify(t)
    PROVE  /\ state[t] = "none" /\ pc[t] # "done" /\ UNCHANGED <<now, up, crashes>>
           /\ UNCHANGED <<cancelledAt, hasOrder, burned, stored, outcomes, timer,
                          call, poll, railOrder, attempts>>
           /\ due' \in [Txns -> Nat] /\ mandateExp' \in [Txns -> Nat]
           /\ state' \in [Txns -> TxnStates \cup {"none"}]
           /\ rsv' \in [Txns -> {"none", "open", "captured", "released"}]
           /\ \A u \in Txns \ {t} : /\ state'[u] = state[u] /\ rsv'[u] = rsv[u]
                                    /\ due'[u] = due[u]
                                    /\ mandateExp'[u] = mandateExp[u]
           /\ state'[t] \in {"none", "approved", "pending_cooloff"}
           /\ rsv'[t] \in {"none", "open"}
           /\ state'[t] = "none" <=> rsv'[t] = "none"
           /\ state'[t] = "pending_cooloff" => due'[t] \in HoldEnds(t)
           /\ mandateExp'[t] <= now + MandateTtl
           /\ state'[t] # "none" => mandateExp'[t] = mandateExp[t]
<1>1. /\ now' = now /\ pc[t] \in {"idle", "risk", "signing"}
      /\ Answers(t) \/ (pc[t] = "signing" /\ Opens(t))
  BY VerifySteps DEF GInv, Verify
<1>2. state[t] = "none" /\ rsv[t] = "none"
  BY <1>1 DEF GInv, Attested
<1>3. /\ UNCHANGED <<up, crashes>>
      /\ UNCHANGED <<cancelledAt, hasOrder, burned, stored, outcomes, timer,
                     call, poll, railOrder, attempts>>
  BY DEF Verify, settleOnly
<1>4. TypeOK /\ now \in Nat /\ now + MandateTtl \in Nat
  BY SettlementBounds DEF GInv, IInv, TypeOK, GatewayData
<1>5. /\ mandateExp' \in [Txns -> Nat]
      /\ \A u \in Txns \ {t} : mandateExp'[u] = mandateExp[u]
      /\ mandateExp'[t] <= now + MandateTtl
  BY <1>4 DEF Verify, Sign, TypeOK, GInv
<1>6. /\ state' \in [Txns -> TxnStates \cup {"none"}]
      /\ rsv' \in [Txns -> {"none", "open", "captured", "released"}]
      /\ \A u \in Txns \ {t} : state'[u] = state[u] /\ rsv'[u] = rsv[u]
      /\ state'[t] \in {"none", "approved", "pending_cooloff"}
      /\ rsv'[t] \in {"none", "open"}
      /\ state'[t] = "none" <=> rsv'[t] = "none"
  <2>1. CASE Answers(t)
    BY <1>2, <1>4, <2>1 DEF Answers, TypeOK
  <2>2. CASE Opens(t)
    BY <1>2, <1>4, <2>2 DEF Opens, TypeOK, TxnStates
  <2> QED  BY <1>1, <2>1, <2>2
<1>7. /\ due' \in [Txns -> Nat]
      /\ \A u \in Txns \ {t} : due'[u] = due[u]
      /\ state'[t] = "pending_cooloff" => due'[t] \in HoldEnds(t)
  <2>1. CASE state'[t] # "pending_cooloff"
    BY <1>4, <2>1 DEF Verify, Park, TypeOK
  <2>2. CASE state'[t] = "pending_cooloff"
    <3>1. pc[t] = "signing" /\ Opens(t)
      BY <1>1, <1>2, <2>2 DEF Answers
    <3>2. cmd[t].cart \in Carts
      BY <3>1 DEF GInv, Suspends, V!Commands
    <3>3. PICK e \in HoldEnds(t) : due' = [due EXCEPT ![t] = e]
      BY <1>2, <2>2 DEF Verify, Park
    <3>4. e \in Nat
      BY <1>4, <3>2, <3>3, HoldEndsFit
    <3> QED  BY <1>4, <3>3, <3>4 DEF TypeOK
  <2> QED  BY <2>1, <2>2
<1>8. state'[t] # "none" => mandateExp'[t] = mandateExp[t]
  <2> SUFFICES ASSUME state'[t] # "none"  PROVE mandateExp'[t] = mandateExp[t]
    OBVIOUS
  <2>1. pc'[t] = "done"
    BY <1>1, <1>2 DEF Answers, Opens, GInv, VerifyTypes
  <2> QED  BY <2>1 DEF Verify, Sign
<1> QED  BY <1>1, <1>2, <1>3, <1>5, <1>6, <1>7, <1>8
\* Opening a row breaks none of the promises settlement keeps.
LEMMA VerifyKeeps ==
    ASSUME GatewayData, GInv, NEW t \in Txns, Verify(t)
    PROVE  IInv'
<1>1. /\ state[t] = "none" /\ UNCHANGED <<now, up, crashes>>
      /\ UNCHANGED <<cancelledAt, hasOrder, burned, stored, outcomes, timer,
                     call, poll, railOrder, attempts>>
      /\ due' \in [Txns -> Nat] /\ mandateExp' \in [Txns -> Nat]
      /\ state' \in [Txns -> TxnStates \cup {"none"}]
      /\ rsv' \in [Txns -> {"none", "open", "captured", "released"}]
      /\ \A u \in Txns \ {t} : state'[u] = state[u] /\ rsv'[u] = rsv[u]
      /\ state'[t] \in {"none", "approved", "pending_cooloff"}
      /\ rsv'[t] \in {"none", "open"}
      /\ state'[t] = "none" <=> rsv'[t] = "none"
  BY VerifyOpens
<1> USE DEF GInv, IInv
<1>2. burned[t] = None /\ ~hasOrder[t] /\ attempts[t] = <<>>
  BY <1>1 DEF Burns, Sold
<1>3. outcomes[t] = <<>>
  <2>1. outcomes[t] \in Seq(Outcome)
    BY DEF TypeOK
  <2>2. \A i \in DOMAIN outcomes[t] : outcomes[t][i].pay \in DOMAIN attempts[t]
    BY DEF OutcomesAreBookedOnce
  <2>3. DOMAIN attempts[t] = {}
    BY <1>2
  <2>4. DOMAIN outcomes[t] = 1..Len(outcomes[t]) /\ Len(outcomes[t]) \in Nat
    BY <2>1
  <2>5. ~(1 \in DOMAIN outcomes[t])
    BY <2>2, <2>3
  <2>6. Len(outcomes[t]) = 0
    BY <2>4, <2>5
  <2> QED  BY <2>1, <2>6
<1>4. TypeOK'
  BY <1>1 DEF TypeOK
<1>5. Calls' /\ Watches'
  BY <1>1 DEF Calls, Watches, Booked
<1>6. Burns'
  BY <1>1, <1>2 DEF Burns
<1>7. OneExecutionPerMandate' /\ ReplayOnlyToItsOwner'
  BY <1>1 DEF OneExecutionPerMandate, ReplayOnlyToItsOwner, Holder
<1>8. CancelledMeansNothingSent'
  BY <1>1 DEF CancelledMeansNothingSent
<1>9. OutcomesAreBookedOnce'
  BY <1>1 DEF OutcomesAreBookedOnce, Booked
<1>10. SettledForAReason'
  <2>1. outcomes' = outcomes
    BY <1>1
  <2> SUFFICES ASSUME NEW u \in Txns
               PROVE  /\ state'[u] \in Kinds => \E i \in DOMAIN outcomes[u] :
                                                   outcomes[u][i].kind = state'[u]
                      /\ rsv'[u] = "captured" => \E i \in DOMAIN outcomes[u] :
                                                    outcomes[u][i].kind = "captured"
                      /\ outcomes[u] # <<>> => rsv'[u] # "open"
    BY <2>1 DEF SettledForAReason, Recorded, Kinds
  <2>2. CASE u = t
    BY <1>1, <1>3, <2>2 DEF Kinds
  <2>3. CASE u # t
    <3>1. state'[u] = state[u] /\ rsv'[u] = rsv[u]
      BY <1>1, <2>3
    <3> QED  BY <3>1 DEF SettledForAReason, Recorded
  <2> QED  BY <2>2, <2>3
<1> QED  BY <1>4, <1>5, <1>6, <1>7, <1>8, <1>9, <1>10

\* And it keeps what it promised of every row, the new one included.
LEMMA VerifyAttests ==
    ASSUME GatewayData, GInv, NEW t \in Txns, Verify(t)
    PROVE  GInv'
<1>1. IInv'
  BY VerifyKeeps
<1>2. /\ state[t] = "none" /\ now' = now
      /\ \A u \in Txns \ {t} : /\ state'[u] = state[u] /\ rsv'[u] = rsv[u]
                               /\ due'[u] = due[u]
                               /\ mandateExp'[u] = mandateExp[u]
      /\ state'[t] = "none" <=> rsv'[t] = "none"
      /\ state'[t] = "pending_cooloff" => due'[t] \in HoldEnds(t)
      /\ mandateExp'[t] <= now + MandateTtl
      /\ state'[t] # "none" => mandateExp'[t] = mandateExp[t]
  BY VerifyOpens
<1>3. /\ pc[t] \in {"idle", "risk", "signing"}
      /\ Answers(t) \/ (pc[t] = "signing" /\ Opens(t))
  BY VerifySteps DEF GInv, Verify
<1>4. /\ now \in Nat /\ MandateTtl \in Nat
      /\ \A u \in Txns : mandateExp[u] \in Nat /\ mandateExp[u] <= now + MandateTtl
  BY SettlementBounds DEF GInv, IInv, TypeOK, GatewayData
<1>7. \A u \in Txns : mandateExp'[u] <= now' + MandateTtl
  BY <1>2, <1>4
<1>8. VerifyTypes /\ Suspends
  BY DEF GInv
<1>5. CASE Answers(t)
  <2>1. state'[t] = "none"
    BY <1>2, <1>5 DEF Answers
  <2>2. VerifyTypes' /\ Suspends'
    BY <1>5, <1>8 DEF VerifyTypes, Suspends, Answers
  <2>3. ASSUME NEW u \in Txns, state'[u] # "none"
        PROVE  Attested(u)' /\ HoldKept(u)'
    <3>1. u # t /\ Attested(u) /\ HoldKept(u) /\ state[u] = state'[u]
      BY <1>2, <2>1, <2>3 DEF GInv
    <3>2. cmd'[u] = cmd[u] /\ signed'[u] = signed[u]
      BY <1>5, <3>1 DEF GInv, VerifyTypes, Answers
    <3>3. Attested(u)'
      BY <1>2, <1>5, <3>1 DEF GInv, VerifyTypes, Attested, Answers
    <3>4. HoldKept(u)'
      BY <1>2, <3>1, <3>2 DEF HoldKept, Reviewed, SignedAt, TooLong, V!DecisionOf,
                              Wait, Sooner
    <3> QED  BY <3>3, <3>4
  <2> QED  BY <1>1, <1>2, <1>7, <2>2, <2>3 DEF GInv
<1>6. CASE pc[t] = "signing" /\ Opens(t)
  <2> DEFINE c == cmd[t].cart
             d == V!DecisionOf(signed[t])
  <2>1. cmd[t] \in V!Commands /\ c \in Carts /\ UnitOf[c] \in Units
    BY <1>6 DEF GInv, Suspends, V!Commands, GatewayData
  <2>2. VerifyTypes' /\ Suspends'
    BY <1>6, <2>1 DEF GInv, VerifyTypes, Suspends, Opens
  <2>3. ASSUME NEW u \in Txns \ {t}, state'[u] # "none"
        PROVE  Attested(u)' /\ HoldKept(u)'
    <3>1. Attested(u) /\ HoldKept(u) /\ state[u] = state'[u]
      BY <1>2, <2>3 DEF GInv
    <3>2. cmd[u].cart \in Carts /\ UnitOf[cmd[u].cart] \in Units
      BY <3>1 DEF Attested, V!Commands, GatewayData
    <3>3. u # None
      BY SettlementNone
    <3>4. Attested(u)'
      BY <1>2, <1>6, <2>1, <3>1, <3>2, <3>3
      DEF GInv, VerifyTypes, Attested, Opens
    <3>5. cmd' = cmd /\ signed' = signed
      BY <1>6 DEF Opens
    <3>6. HoldKept(u)'
      BY <1>2, <3>1, <3>5 DEF HoldKept, Reviewed, SignedAt, TooLong, V!DecisionOf,
                              Wait, Sooner
    <3> QED  BY <3>4, <3>6
  <2>4. Attested(t)' /\ HoldKept(t)'
    <3>1. /\ cmd' = cmd /\ signed' = signed /\ d \in {"approve", "hold"}
          /\ nonce'[c] = t /\ claim'[UnitOf[c]] = t /\ pc'[t] = "done"
          /\ reply'[t] = V!Verdict(d)
          /\ state'[t] = IF d = "hold" THEN "pending_cooloff" ELSE "approved"
      BY <1>6, <2>1 DEF GInv, IInv, TypeOK, VerifyTypes, Opens
    <3>2. V!DecisionOf(signed[t])' = d
      BY <3>1 DEF V!DecisionOf
    <3>3. Attested(t)'
      BY <1>2, <2>1, <3>1, <3>2 DEF Attested, V!Verdict
    <3>4. CASE d # "hold"
      BY <3>2, <3>3, <3>4 DEF HoldKept
    <3>5. CASE d = "hold"
      <4>1. due'[t] \in HoldEnds(t) /\ state'[t] \notin Sold
        BY <1>2, <3>1, <3>5 DEF Sold
      <4>2. /\ due'[t] \in Nat
            /\ ~Reviewed(t) => due'[t] >= Sooner(now + Wait(c), IntentExp[c])
        BY <1>4, <2>1, <4>1, HoldEndsFit
      <4>3. /\ SignedAt(t)' = SignedAt(t) /\ SignedAt(t) \in Int /\ SignedAt(t) <= now
            /\ Reviewed(t)' <=> Reviewed(t)
        BY <1>2, <1>4, <3>1 DEF SignedAt, Reviewed
      <4>4. Wait(c) \in Nat /\ IntentExp[c] \in Nat
        BY <2>1 DEF Wait, GatewayData
      <4>5. ~Reviewed(t) => due'[t] >= Sooner(SignedAt(t) + Wait(c), IntentExp[c])
        BY <1>4, <4>2, <4>3, <4>4 DEF Sooner
      <4>6. Sooner(SignedAt(t) + Wait(cmd[t].cart), IntentExp[cmd[t].cart])'
              = Sooner(SignedAt(t) + Wait(c), IntentExp[c])
        BY <3>1, <4>3 DEF Sooner, Wait
      <4> QED  BY <3>1, <3>2, <3>3, <3>5, <4>1, <4>3, <4>5, <4>6 DEF HoldKept
    <3> QED  BY <3>3, <3>4, <3>5
  <2> QED  BY <1>1, <1>2, <1>7, <2>2, <2>3, <2>4 DEF GInv
<1> QED  BY <1>3, <1>5, <1>6

\* The settling half keeps what verification promised.
LEMMA SettleAttests ==
    ASSUME GInv, SettleStep
    PROVE  GInv'
<1>1. Next /\ IInv
  BY DEF SettleStep, GInv
<1>2. IInv'
  BY <1>1, StepKeeps
<1>3. /\ due' = due /\ mandateExp' = mandateExp /\ now' >= now
      /\ \A t \in Txns : Moves(t) /\ Settles(t)
  BY <1>1, SettleMoves DEF terms
<1>4. UNCHANGED <<cmd, signed, reply, nonce, claim>>
  BY DEF SettleStep, verifyOnly
<1>0. now \in Int /\ now' \in Int
  BY <1>1, <1>2, SettlementBounds DEF IInv, TypeOK
<1>5. /\ pc' \in [Txns -> {"idle", "risk", "signing", "done"}]
      /\ \A t \in Txns : pc'[t] = pc[t] \/ pc'[t] = "done"
  BY DEF SettleStep, Forget, GInv, VerifyTypes
<1>6. VerifyTypes' /\ Suspends'
  BY <1>4, <1>5 DEF GInv, VerifyTypes, Suspends
<1>7. \A t \in Txns : state'[t] = "none" <=> rsv'[t] = "none"
  BY <1>3 DEF GInv, Moves, Settles, Sold
<1>8. ASSUME NEW t \in Txns, state'[t] # "none"
      PROVE  Attested(t)' /\ HoldKept(t)'
  <2>1. state[t] # "none" /\ Attested(t) /\ HoldKept(t)
    BY <1>3, <1>7, <1>8 DEF GInv, Settles
  <2>2. Attested(t)'
    BY <1>4, <1>5, <2>1 DEF Attested, V!DecisionOf
  <2>3. /\ due[t] \in Int /\ SignedAt(t) \in Int /\ SignedAt(t) <= now
        /\ MaxDelay \in Int
    BY <1>1, <1>0, SettlementBounds, GatewayTimes
    DEF IInv, TypeOK, SignedAt, GInv, GatewayData
  <2>4. /\ SignedAt(t)' = SignedAt(t) /\ TooLong(t)' <=> TooLong(t)
        /\ Reviewed(t)' <=> Reviewed(t)
        /\ V!DecisionOf(signed[t])' = V!DecisionOf(signed[t])
        /\ Sooner(SignedAt(t) + Wait(cmd[t].cart), IntentExp[cmd[t].cart])'
             = Sooner(SignedAt(t) + Wait(cmd[t].cart), IntentExp[cmd[t].cart])
    BY <1>3, <1>4 DEF SignedAt, TooLong, Reviewed, V!DecisionOf, Sooner, Wait
  <2>5. ASSUME V!DecisionOf(signed[t]) = "hold", state'[t] \in Sold
        PROVE  now' >= due[t] \/ TooLong(t)
    <3>1. CASE state[t] \in Sold
      BY <1>3, <1>0, <2>1, <2>3, <2>5, <3>1 DEF HoldKept
    <3>2. CASE state[t] \notin Sold
      <4>1. Rings(t)
        BY <1>3, <2>5, <3>2 DEF Moves, Sold
      <4> QED  BY <1>3, <1>0, <2>3, <4>1 DEF Rings, TooLong
    <3> QED  BY <3>1, <3>2
  <2>6. HoldKept(t)'
    BY <1>3, <2>1, <2>4, <2>5 DEF HoldKept
  <2> QED  BY <2>2, <2>6
<1>10. \A t \in Txns : mandateExp'[t] <= now' + MandateTtl
  <2>1. MandateTtl \in Nat /\ \A t \in Txns : mandateExp[t] \in Nat
    BY <1>1, GatewayTimes DEF IInv, TypeOK, GatewayData
  <2> QED  BY <1>3, <1>0, <2>1 DEF GInv
<1> QED  BY <1>2, <1>6, <1>7, <1>8, <1>10 DEF GInv
-----------------------------------------------------------------------------
\* No row exists when the process first starts.
LEMMA GatewayStarts ==
    ASSUME GatewayInit
    PROVE  GInv
<1>1. Quiet
  BY DEF GatewayInit
<1>2. /\ state = [t \in Txns |-> "none"] /\ rsv = [t \in Txns |-> "none"]
      /\ due = [t \in Txns |-> 0] /\ mandateExp = [t \in Txns |-> 0]
  BY DEF GatewayInit, V!Init
<1>3. IInv
  BY <1>1, <1>2, QuietKeeps DEF Untouched
<1>4. VerifyTypes /\ Suspends
  BY DEF GatewayInit, V!Init, VerifyTypes, Suspends
<1>5. now = 0 /\ MandateTtl \in Nat
  BY <1>1, GatewayTimes DEF Quiet, GatewayData
<1> QED  BY <1>2, <1>3, <1>4, <1>5 DEF GInv

\* What the other checks say may drift under everything; nothing here reads it.
LEMMA GatewaySteps ==
    ASSUME GatewayData, GInv, [GatewayNext]_gatewayVars
    PROVE  GInv'
<1>1. ASSUME NEW t \in Txns, Verify(t)  PROVE GInv'
  BY <1>1, VerifyAttests
<1>2. CASE SettleStep
  BY <1>2, SettleAttests
<1>3. CASE (\E c \in Carts : Drift(c)) \/ UNCHANGED gatewayVars
  <2>1. /\ UNCHANGED vars
        /\ UNCHANGED <<pc, cmd, signed, reply, nonce, claim>>
    BY <1>3 DEF Drift, V!Drift, V!rows, settleOnly, gatewayVars,
                verifyOnly, vars, terms, db, mem, rail
  <2>2. IInv'
    BY <2>1, StepKeeps DEF GInv
  <2>3. UNCHANGED <<now, due, mandateExp, state, rsv>>
    BY <2>1 DEF vars, terms, db
  <2>4. ASSUME NEW t \in Txns, state'[t] # "none"
        PROVE  Attested(t)' /\ HoldKept(t)'
    BY <2>1, <2>3, <2>4
    DEF GInv, Attested, HoldKept, V!DecisionOf, Reviewed, SignedAt, TooLong,
        Sooner, Wait
  <2> QED
    BY <2>1, <2>2, <2>3, <2>4 DEF GInv, VerifyTypes, Suspends
<1> QED  BY <1>1, <1>2, <1>3 DEF GatewayNext

\* The invariant of the whole process.
LEMMA GatewayInvariant ==
    GatewaySpec => []GInv
<1>1. GInv /\ [GatewayNext]_gatewayVars => GInv'
  BY GatewaySteps, GatewayTimes
<1> QED  BY GatewayStarts, <1>1, PTL DEF GatewaySpec

\* OrderedOnceAndVerified: an order at the rail stands on a verdict that said
\* yes, on seals that say the same, and on the burn of its cart and the claim of
\* its unit, so no second order can (execute-payment-bracket.ts request,
\* verify-cart-committer.ts writeAll).
THEOREM OrdersAreVerified ==
    GatewaySpec => []OrderedOnceAndVerified
<1>1. GInv => OrderedOnceAndVerified
  BY DEF GInv, IInv, OneExecutionPerMandate, Burns, Sold, Attested,
         OrderedOnceAndVerified
<1> QED  BY <1>1, GatewayInvariant, PTL

\* HoldServedBeforeOrder: between a verdict that held and the order at the rail
\* lies the whole hold, which without a review is what rule and intent ask,
\* whatever was cancelled, restored, crashed or rebuilt meanwhile, unless it is
\* longer than a timer waits (cooloff-scheduler.ts mature).
THEOREM HoldsAreServed ==
    GatewaySpec => []HoldServedBeforeOrder
<1>1. GInv => HoldServedBeforeOrder
  BY DEF GInv, IInv, OneExecutionPerMandate, Burns, Sold, HoldKept,
         HoldServedBeforeOrder
<1> QED  BY <1>1, GatewayInvariant, PTL

\* Settlement's promises are the composed process's too: rows that appear while
\* payments run, and verifications that die with the process, break none.
THEOREM SettlementInGateway ==
    GatewaySpec => [](/\ OneExecutionPerMandate
                      /\ CancelledMeansNothingSent
                      /\ OutcomesAreBookedOnce
                      /\ SettledForAReason
                      /\ ReplayOnlyToItsOwner)
<1>1. GInv => /\ OneExecutionPerMandate
              /\ CancelledMeansNothingSent
              /\ OutcomesAreBookedOnce
              /\ SettledForAReason
              /\ ReplayOnlyToItsOwner
  BY DEF GInv, IInv
<1> QED  BY <1>1, GatewayInvariant, PTL

-----------------------------------------------------------------------------
(* Verification in the composed process: its rows are moved by settlement,   *)
(* and its suspended requests die with the process.                          *)

\* A request that is not done has answered nothing.  A burn and a claim name
\* the row that was opened for them, a key names one row, and a replay is the
\* answer of a row.
Records ==
    /\ \A t \in Txns : pc[t] # "done" => reply[t] = V!NoReply
    /\ \A c \in Carts : nonce[c] # None =>
          state[nonce[c]] # "none" /\ cmd[nonce[c]].cart = c
    /\ \A u \in Units : claim[u] # None =>
          state[claim[u]] # "none" /\ UnitOf[cmd[claim[u]].cart] = u
    /\ V!OneOutcomePerKey
    /\ V!ReplayIsVerbatim

\* A body is replayed from the row that holds the cart, to the same command.
Told(t) ==
    \/ reply'[t] = reply[t]
    \/ /\ pc'[t] = "done"
       /\ reply'[t].kind = "replay" =>
            \E s \in Txns : /\ state[s] # "none" /\ cmd[s] = cmd'[t]
                            /\ reply[s].decision = reply'[t].decision

\* A replay found the burn of the cart it presents.
LEMMA ReplayIsTold ==
    ASSUME GInv, Records, NEW x \in V!Commands, V!Idempotency(x) = "replay"
    PROVE  \E s \in Txns : /\ state[s] # "none" /\ cmd[s] = x
                           /\ reply[s].decision = reply[nonce[x.cart]].decision
<1> DEFINE h == nonce[x.cart]
<1>1. /\ h # None /\ cmd[h].tenant = x.tenant /\ cmd[h].key = x.key
      /\ cmd[h].payload = x.payload
  BY DEF V!Idempotency
<1>2. x.cart \in Carts
  BY DEF V!Commands
<1>3. h \in Txns /\ state[h] # "none" /\ cmd[h].cart = x.cart
  BY <1>1, <1>2 DEF GInv, VerifyTypes, Records
<1>4. cmd[h] \in V!Commands
  BY <1>3 DEF GInv, Attested
<1>5. cmd[h] = x
  BY <1>1, <1>3, <1>4 DEF V!Commands
<1> QED  BY <1>3, <1>5

\* A verification answers as its replay says, and opens a row for a free key.
LEMMA VerifyTells ==
    ASSUME GInv, Records, NEW t \in Txns, V!Step(t)
    PROVE  /\ Told(t)
           /\ nonce' # nonce => ~V!KeyTaken(t)
<1> USE DEF V!rows
<1>0. reply = [u \in Txns |-> reply[u]] /\ pc = [u \in Txns |-> pc[u]]
      /\ cmd = [u \in Txns |-> cmd[u]]
  BY DEF GInv, VerifyTypes
<1>1. ASSUME NEW a, V!Answer(t, a), a.kind # "replay"
      PROVE  Told(t)
  <2>1. reply'[t] = a /\ pc'[t] = "done"
    BY <1>0, <1>1 DEF V!Answer
  <2> QED  BY <1>1, <2>1 DEF Told
<1>2. \A d : V!Verdict(d).kind = "verdict"
  BY DEF V!Verdict
<1>3. CASE V!StageZero(t)
  BY <1>1, <1>2, <1>3 DEF V!StageZero
<1>4. CASE V!Present(t)
  <2>1. PICK x \in V!Commands :
          /\ cmd' = [cmd EXCEPT ![t] = x]
          /\ \/ /\ V!Idempotency(x) = "replay"
                /\ V!Answer(t, [kind |-> "replay",
                                decision |-> reply[nonce[x.cart]].decision])
             \/ V!Answer(t, [kind |-> "conflict", decision |-> "none"])
             \/ reply' = reply
    BY <1>4 DEF V!Present
  <2>2. cmd'[t] = x
    BY <1>0, <2>1
  <2>3. CASE /\ V!Idempotency(x) = "replay"
             /\ V!Answer(t, [kind |-> "replay",
                             decision |-> reply[nonce[x.cart]].decision])
    <3>1. /\ pc'[t] = "done"
          /\ reply'[t].decision = reply[nonce[x.cart]].decision
      BY <1>0, <2>3 DEF V!Answer
    <3>2. \E s \in Txns : /\ state[s] # "none" /\ cmd[s] = x
                          /\ reply[s].decision = reply[nonce[x.cart]].decision
      BY <2>3, ReplayIsTold
    <3> QED  BY <2>2, <3>1, <3>2, <1>4 DEF Told, V!Present
  <2>4. CASE V!Answer(t, [kind |-> "conflict", decision |-> "none"])
    BY <1>1, <1>4, <2>4 DEF V!Present
  <2>5. CASE reply' = reply
    BY <1>4, <2>5 DEF Told, V!Present
  <2> QED  BY <2>1, <2>3, <2>4, <2>5
<1>5. CASE V!Evaluate(t)
  BY <1>1, <1>2, <1>5 DEF V!Evaluate, Told
<1>6. CASE V!Commit(t)
  <2>1. PICK d : V!Answer(t, V!Verdict(d))
    BY <1>6 DEF V!Commit, V!Refusal
  <2>2. nonce' # nonce => ~V!KeyTaken(t)
    BY <1>6 DEF V!Commit, V!Conflict
  <2> QED  BY <1>1, <1>2, <2>1, <2>2
<1> QED  BY <1>3, <1>4, <1>5, <1>6 DEF V!Step

\* A step that writes no burn, whoever answers or ends, leaves the records.
LEMMA RecordsStand ==
    ASSUME GInv, Records, UNCHANGED <<nonce, claim>>,
           \A u \in Txns : state'[u] # "none" <=> state[u] # "none",
           \A u \in Txns : cmd'[u] = cmd[u] \/ (pc[u] # "done" /\ state[u] = "none"),
           \A u \in Txns : pc[u] = "done" => pc'[u] = "done" /\ reply'[u] = reply[u],
           \A u \in Txns : Told(u)
    PROVE  Records'
<1>1. \A u \in Txns : state[u] # "none" =>
        pc[u] = "done" /\ cmd'[u] = cmd[u] /\ reply'[u] = reply[u]
  BY DEF GInv, Attested
<1>2. ASSUME NEW u \in Txns, pc'[u] # "done"  PROVE reply'[u] = V!NoReply'
  BY <1>2 DEF Records, Told, V!NoReply
<1>3. ASSUME NEW c \in Carts, nonce'[c] # None
      PROVE  state'[nonce'[c]] # "none" /\ cmd'[nonce'[c]].cart = c
  BY <1>1, <1>3 DEF Records, GInv, VerifyTypes
<1>4. ASSUME NEW v \in Units, claim'[v] # None
      PROVE  state'[claim'[v]] # "none" /\ UnitOf[cmd'[claim'[v]].cart] = v
  BY <1>1, <1>4 DEF Records, GInv, VerifyTypes
<1>5. V!OneOutcomePerKey'
  BY <1>1 DEF Records, V!OneOutcomePerKey, V!Committed
<1>6. ASSUME NEW u \in Txns, reply'[u].kind = "replay"
      PROVE  \E s \in Txns : /\ state'[s] # "none" /\ cmd'[s] = cmd'[u]
                             /\ reply'[s].decision = reply'[u].decision
  <2>1. CASE reply'[u] = reply[u]
    <3>1. pc[u] = "done"
      BY <1>6, <2>1 DEF Records, V!NoReply
    <3>2. cmd'[u] = cmd[u]
      BY <3>1
    <3>3. PICK s \in Txns : /\ state[s] # "none" /\ cmd[s] = cmd[u]
                            /\ reply[s].decision = reply[u].decision
      BY <1>6, <2>1 DEF Records, V!ReplayIsVerbatim, V!Committed
    <3> QED  BY <1>1, <2>1, <3>2, <3>3
  <2>2. CASE reply'[u] # reply[u]
    BY <1>1, <1>6, <2>2 DEF Told
  <2> QED  BY <2>1, <2>2
<1>7. V!ReplayIsVerbatim'
  BY <1>6 DEF V!ReplayIsVerbatim, V!Committed
<1> QED  BY <1>2, <1>3, <1>4, <1>5, <1>7 DEF Records

\* The write transaction files its row under a cart, a unit and a key of which
\* none was taken.
LEMMA OpenFiles ==
    ASSUME GatewayData, GInv, Records, NEW t \in Txns, pc[t] = "signing", Opens(t),
           ~V!KeyTaken(t)
    PROVE  Records'
<1> DEFINE c == cmd[t].cart
<1>1. cmd[t] \in V!Commands /\ c \in Carts /\ UnitOf[c] \in Units /\ t # None
  BY SettlementNone DEF GInv, Suspends, V!Commands, GatewayData
<1>2. /\ cmd' = cmd /\ nonce[c] = None /\ claim[UnitOf[c]] = None
      /\ nonce' = [nonce EXCEPT ![c] = t]
      /\ claim' = [claim EXCEPT ![UnitOf[c]] = t]
      /\ pc' = [pc EXCEPT ![t] = "done"]
      /\ \A u \in Txns \ {t} : state'[u] = state[u] /\ reply'[u] = reply[u]
      /\ state'[t] # "none" /\ reply'[t].kind = "verdict"
  BY DEF Opens, GInv, IInv, TypeOK, VerifyTypes, V!Verdict
<1>3. state[t] = "none"
  BY DEF GInv, Attested
<1>4. ASSUME NEW u \in Txns, pc'[u] # "done"  PROVE reply'[u] = V!NoReply'
  BY <1>2, <1>4 DEF Records, GInv, VerifyTypes, V!NoReply
<1>5. ASSUME NEW b \in Carts, nonce'[b] # None
      PROVE  state'[nonce'[b]] # "none" /\ cmd'[nonce'[b]].cart = b
  BY <1>1, <1>2, <1>3, <1>5 DEF Records, GInv, VerifyTypes
<1>6. ASSUME NEW v \in Units, claim'[v] # None
      PROVE  state'[claim'[v]] # "none" /\ UnitOf[cmd'[claim'[v]].cart] = v
  BY <1>1, <1>2, <1>3, <1>6 DEF Records, GInv, VerifyTypes
<1>7. ASSUME NEW r \in Txns, state[r] # "none"
      PROVE  ~(cmd[r].tenant = cmd[t].tenant /\ cmd[r].key = cmd[t].key)
  <2>1. cmd[r].cart \in Carts /\ nonce[cmd[r].cart] = r /\ r # None
    BY <1>7, SettlementNone DEF GInv, Attested, V!Commands
  <2> QED  BY <2>1 DEF V!KeyTaken
<1>8. V!OneOutcomePerKey'
  BY <1>2, <1>7 DEF Records, V!OneOutcomePerKey, V!Committed
<1>9. ASSUME NEW u \in Txns, reply'[u].kind = "replay"
      PROVE  \E s \in Txns : /\ state'[s] # "none" /\ cmd'[s] = cmd'[u]
                             /\ reply'[s].decision = reply'[u].decision
  <2>1. u # t /\ reply'[u] = reply[u]
    BY <1>2, <1>9
  <2>2. PICK s \in Txns : /\ state[s] # "none" /\ cmd[s] = cmd[u]
                          /\ reply[s].decision = reply[u].decision
    BY <1>9, <2>1 DEF Records, V!ReplayIsVerbatim, V!Committed
  <2> QED  BY <1>2, <1>3, <2>1, <2>2
<1>10. V!ReplayIsVerbatim'
  BY <1>9 DEF V!ReplayIsVerbatim, V!Committed
<1> QED  BY <1>4, <1>5, <1>6, <1>8, <1>10 DEF Records

\* Every step of the process keeps the records.
LEMMA RecordsKept ==
    ASSUME GatewayData, GInv, Records, [GatewayNext]_gatewayVars
    PROVE  Records'
<1>1. ASSUME NEW t \in Txns, Verify(t)  PROVE Records'
  <2>1. /\ V!Step(t) /\ pc[t] \in {"idle", "risk", "signing"}
        /\ Answers(t) \/ (pc[t] = "signing" /\ Opens(t))
    BY <1>1, VerifySteps DEF GInv, Verify
  <2>2. Told(t) /\ (nonce' # nonce => ~V!KeyTaken(t))
    BY <2>1, VerifyTells
  <2>3. state[t] = "none"
    BY <2>1 DEF GInv, Attested
  <2>4. CASE Answers(t)
    <3>1. /\ UNCHANGED <<nonce, claim, state>>
          /\ \A u \in Txns \ {t} : /\ cmd'[u] = cmd[u] /\ pc'[u] = pc[u]
                                   /\ reply'[u] = reply[u]
      BY <2>4 DEF Answers, GInv, VerifyTypes
    <3>2. \A u \in Txns : Told(u)
      BY <2>2, <3>1 DEF Told
    <3> QED  BY <2>1, <2>3, <3>1, <3>2, RecordsStand
  <2>5. CASE pc[t] = "signing" /\ Opens(t)
    <3>1. cmd[t].cart \in Carts /\ t # None
      BY <2>5, SettlementNone DEF GInv, Suspends, V!Commands
    <3>2. nonce' # nonce
      BY <2>5, <3>1 DEF Opens, GInv, VerifyTypes
    <3> QED  BY <2>2, <2>5, <3>2, OpenFiles
  <2> QED  BY <2>1, <2>4, <2>5
<1>2. CASE SettleStep
  <2>1. /\ UNCHANGED <<cmd, reply, nonce, claim>>
        /\ \A u \in Txns : pc[u] = "done" => pc'[u] = "done"
    BY <1>2 DEF SettleStep, Forget, verifyOnly
  <2>2. \A u \in Txns : state'[u] # "none" <=> state[u] # "none"
    BY <1>2, SettleMoves DEF SettleStep, GInv, Moves, Sold
  <2> QED  BY <2>1, <2>2, RecordsStand DEF Told
<1>3. CASE (\E c \in Carts : Drift(c)) \/ UNCHANGED gatewayVars
  <2>1. UNCHANGED <<pc, cmd, reply, nonce, claim, state>>
    BY <1>3 DEF Drift, V!Drift, V!rows, gatewayVars, verifyOnly
  <2> QED  BY <2>1, RecordsStand DEF Told
<1> QED  BY <1>1, <1>2, <1>3 DEF GatewayNext

\* The records stand in every state of the process.
LEMMA RecordsInvariant == GatewaySpec => []Records
<1>1. GatewayInit => Records
  BY DEF GatewayInit, V!Init, Records, V!OneOutcomePerKey, V!Committed,
         V!ReplayIsVerbatim, V!NoReply
<1>2. GInv /\ Records /\ [GatewayNext]_gatewayVars => Records'
  BY RecordsKept, GatewayTimes
<1> QED  BY <1>1, <1>2, GatewayInvariant, PTL DEF GatewaySpec

\* ReplayIsVerbatim and what else verification promises alone it promises beside
\* settlement, which moves the rows it opened, and through crashes: one row for
\* a cart and for a key, with its burn, claim and reservation, and a replayed
\* body shown only to the command it was stored for (verify-cart-committer.ts
\* writeAll, idempotency-resolver.ts).
THEOREM VerificationInGateway ==
    GatewaySpec => [](/\ V!OneTxnPerCart
                      /\ V!RowsTogether
                      /\ V!OneOutcomePerKey
                      /\ V!ReplayIsVerbatim)
<1>1. GInv => V!OneTxnPerCart
  BY DEF GInv, Attested, V!OneTxnPerCart, V!Committed
<1>2. ASSUME GatewayData, GInv, Records, NEW r \in Txns
      PROVE  /\ V!Committed(r) <=> \E c \in Carts : nonce[c] = r
             /\ V!Committed(r) <=> \E u \in Units : claim[u] = r
             /\ V!Committed(r) <=> rsv[r] # "none"
             /\ V!Committed(r) => /\ nonce[cmd[r].cart] = r
                                  /\ claim[UnitOf[cmd[r].cart]] = r
  <2>1. r # None
    BY SettlementNone
  <2>2. V!Committed(r) => /\ cmd[r].cart \in Carts /\ UnitOf[cmd[r].cart] \in Units
                          /\ nonce[cmd[r].cart] = r
                          /\ claim[UnitOf[cmd[r].cart]] = r
    BY <1>2 DEF GatewayData, GInv, Attested, V!Commands, V!Committed
  <2>3. (\E c \in Carts : nonce[c] = r) \/ (\E u \in Units : claim[u] = r)
          => V!Committed(r)
    BY <1>2, <2>1 DEF Records, V!Committed
  <2>4. V!Committed(r) <=> rsv[r] # "none"
    BY <1>2 DEF GInv, V!Committed
  <2> QED  BY <2>2, <2>3, <2>4
<1>3. GInv /\ Records => V!RowsTogether
  BY <1>2, GatewayTimes DEF V!RowsTogether
<1>4. Records => V!OneOutcomePerKey /\ V!ReplayIsVerbatim
  BY DEF Records
<1> QED  BY <1>1, <1>3, <1>4, GatewayInvariant, RecordsInvariant, PTL

-----------------------------------------------------------------------------
(* The process implements the cart register: a verification is a step of it  *)
(* or none, settlement is none, and a crash ends whoever was suspended.      *)

\* A verification's segment, as the register sees it.
LEMMA VerifyMaps ==
    ASSUME GatewayData, GInv, NEW t \in Txns, Verify(t)
    PROVE  [V!Register!Next]_(V!Register!vars)
<1>1. /\ pc[t] \in {"idle", "risk", "signing"}
      /\ Answers(t) \/ (pc[t] = "signing" /\ Opens(t))
  BY VerifySteps DEF GInv, Verify
<1>2. CASE Answers(t) /\ pc'[t] = "done"
  <2>1. V!Register!Decline({t})
    BY <1>1, <1>2 DEF V!Register!Decline, Answers, GInv, VerifyTypes
  <2> QED  BY <2>1 DEF V!Register!Next
<1>3. CASE Answers(t) /\ pc'[t] # "done"
  BY <1>1, <1>3 DEF V!Register!vars, Answers, GInv, VerifyTypes
<1>4. CASE pc[t] = "signing" /\ Opens(t)
  <2>1. PICK c \in Carts : c = cmd[t].cart
    BY <1>4 DEF GInv, Suspends, V!Commands
  <2>2. V!Register!Spend(t, c)
    <3>1. /\ pc[t] # "done" /\ nonce[c] = None
          /\ claim[UnitOf[c]] = None
          /\ nonce' = [nonce EXCEPT ![c] = t]
          /\ claim' = [claim EXCEPT ![UnitOf[c]] = t]
      BY <1>4, <2>1 DEF Opens
    <3>2. \A u \in Txns : (pc'[u] = "done") <=> (pc[u] = "done" \/ u = t)
      BY <1>4 DEF Opens, GInv, VerifyTypes
    <3>3. [u \in Txns |-> pc'[u] = "done"]
            = [[u \in Txns |-> pc[u] = "done"] EXCEPT ![t] = TRUE]
      BY <3>2
    <3> QED  BY <3>1, <3>3 DEF V!Register!Spend
  <2> QED  BY <2>1, <2>2 DEF V!Register!Next
<1> QED  BY <1>1, <1>2, <1>3, <1>4

\* A crash ends the presentations that were suspended, and spends nothing.
LEMMA SettleMaps ==
    ASSUME GInv, SettleStep
    PROVE  [V!Register!Next]_(V!Register!vars)
<1>1. PICK rs \in SUBSET Txns :
        rs = {t \in Txns : up /\ ~up' /\ pc[t] \in {"risk", "signing"}}
  OBVIOUS
<1>2. /\ UNCHANGED <<nonce, claim>>
      /\ \A t \in rs : pc[t] # "done"
      /\ \A t \in Txns : (pc'[t] = "done") <=> (pc[t] = "done" \/ t \in rs)
  BY <1>1 DEF SettleStep, Forget, verifyOnly
<1>3. V!Register!Decline(rs)
  BY <1>2 DEF V!Register!Decline
<1> QED  BY <1>3 DEF V!Register!Next

\* RegisterSpec: the whole process, with settlement, crashes and retries,
\* implements the atomic register of CartSpending: no presentation spends a cart
\* or a unit twice, and none comes back once it ended (verify-cart-committer.ts).
THEOREM GatewayImplementsRegister == GatewaySpec => V!RegisterSpec
<1>1. GatewayInit => V!Register!Init
  BY DEF GatewayInit, V!Init, V!Register!Init
<1>2. GInv /\ [GatewayNext]_gatewayVars => [V!Register!Next]_(V!Register!vars)
  <2> SUFFICES ASSUME GInv, [GatewayNext]_gatewayVars
               PROVE  [V!Register!Next]_(V!Register!vars)
    OBVIOUS
  <2>1. ASSUME NEW t \in Txns, Verify(t)
        PROVE  [V!Register!Next]_(V!Register!vars)
    BY <2>1, VerifyMaps, GatewayTimes
  <2>2. CASE SettleStep
    BY <2>2, SettleMaps
  <2>3. CASE (\E c \in Carts : Drift(c)) \/ UNCHANGED gatewayVars
    BY <2>3 DEF Drift, V!Drift, V!rows, gatewayVars, verifyOnly, V!Register!vars
  <2> QED  BY <2>1, <2>2, <2>3 DEF GatewayNext
<1> QED  BY <1>1, <1>2, GatewayInvariant, PTL
         DEF GatewaySpec, V!RegisterSpec, V!Register!Spec

-----------------------------------------------------------------------------
(* The envelope in the composed process.  Verification adds a reservation    *)
(* only after reading that it fits, and settlement turns open ones into      *)
(* captured or released ones; what a category draws grows in no other way    *)
(* as long as no reservation is captured after it stopped counting.          *)

\* The rows a category answers for, and what each reserves.
On(k) == {r \in Txns : V!Counted(r) /\ V!DominantCategory(cmd[r].cart) = k}
Weight == [r \in Txns |-> V!Total(cmd[r].cart)]
Opened == {r \in Txns : state[r] # "none"}

\* Every cart draws on one category: the one the reservation names.
OneCategoryEach ==
    \A c \in Carts : \A j, k \in Cats : Draw[c][j] > 0 /\ Draw[c][k] > 0 => j = k

\* Drawn adds up the weights of a category's rows.
LEMMA DrawnIsSum ==
    \A k : IsFiniteSet(On(k)) => V!Drawn(k) = SumOver(Weight, On(k))
<1> SUFFICES ASSUME NEW k, IsFiniteSet(On(k))
             PROVE  V!Drawn(k) = SumOver(Weight, On(k))
  OBVIOUS
<1> DEFINE Adds(g) ==
              g = [s \in SUBSET On(k) |->
                     IF s = {} THEN 0
                     ELSE V!Total(cmd[AnyOf(s)].cart) + g[s \ {AnyOf(s)}]]
<1>1. V!Drawn(k) = (CHOOSE g : Adds(g))[On(k)]
  BY DEF V!Drawn, V!MapThenSumSet, V!MapThenFoldSet, AnyOf, On
<1>2. ASSUME NEW s \in SUBSET On(k), s # {}
      PROVE  Weight[AnyOf(s)] = V!Total(cmd[AnyOf(s)].cart)
  BY <1>2 DEF AnyOf, Weight, On
<1>3. ASSUME NEW g  PROVE Adds(g) <=> AddsUp(Weight, On(k), g)
  BY <1>2 DEF AddsUp
<1>4. PICK g : AddsUp(Weight, On(k), g) /\ SumOver(Weight, On(k)) = g[On(k)]
  BY SumIsTheSolution
<1> DEFINE h == CHOOSE f : Adds(f)
<1>5. AddsUp(Weight, On(k), h)
  <2>1. Adds(g)
    BY <1>3, <1>4
  <2> HIDE DEF Adds
  <2>2. Adds(h)
    BY <2>1
  <2> QED  BY <1>3, <2>2
<1> HIDE DEF h
<1>6. \A s \in SUBSET On(k) : h[s] = g[s]
  BY <1>4, <1>5, AddsUpOnce
<1> QED  BY <1>1, <1>4, <1>6 DEF h

\* A cart's total is a number.
LEMMA TotalType == ASSUME NEW c \in Carts PROVE V!Total(c) \in Nat
<1>1. V!Total(c) = SumOver(Draw[c], Cats)
  BY DEF V!Total, SumOver, MapThenSumSet, MapThenFoldSet, V!MapThenSumSet, V!MapThenFoldSet
<1>2. IsFiniteSet(Cats) /\ \A k \in Cats : Draw[c][k] \in Nat
  BY GatewayTimes DEF GatewayData
<1> QED  BY <1>1, <1>2, SumType

\* The total of a cart of one category is that category's draw.
LEMMA TotalIsOneDraw ==
    ASSUME OneCategoryEach, NEW c \in Carts, NEW k \in Cats,
           Draw[c][k] > 0 \/ V!DominantCategory(c) = k
    PROVE  V!Total(c) = Draw[c][k] /\ (Draw[c][k] > 0 => V!DominantCategory(c) = k)
<1>1. V!Total(c) = SumOver(Draw[c], Cats)
  BY DEF V!Total, SumOver, MapThenSumSet, MapThenFoldSet, V!MapThenSumSet, V!MapThenFoldSet
<1>2. IsFiniteSet(Cats) /\ \A j \in Cats : Draw[c][j] \in Nat
  BY GatewayTimes DEF GatewayData
<1>3. /\ V!DominantCategory(c) \in Cats
      /\ \A j \in Cats : Draw[c][j] <= Draw[c][V!DominantCategory(c)]
  <2>1. \E d \in Cats : \A j \in Cats : Draw[c][j] <= Draw[c][d]
    BY <1>2 DEF OneCategoryEach
  <2> QED  BY <2>1 DEF V!DominantCategory
<1>4. \A i, j \in Cats : Draw[c][i] > 0 /\ Draw[c][j] > 0 => i = j
  BY DEF OneCategoryEach
<1>5. V!DominantCategory(c) = k
  <2>1. CASE Draw[c][k] > 0
    BY <1>2, <1>3, <1>4, <2>1
  <2> QED  BY <2>1
<1>6. \A j \in Cats : Draw[c][j] <= Draw[c][k]
  BY <1>3, <1>5
<1>7. V!Total(c) = Draw[c][k]
  BY <1>1, <1>2, <1>4, <1>6, OneSummand
<1> QED  BY <1>5, <1>7

\* A request with a row was presented, so it weighs a number; only finitely many
\* have one.
LEMMA OnlyOpenedCounts ==
    ASSUME GInv, NEW k, IsFiniteSet(Opened)
    PROVE  /\ On(k) \subseteq Opened /\ IsFiniteSet(On(k))
           /\ \A r \in Opened : cmd[r].cart \in Carts /\ Weight[r] \in Nat
<1>1. On(k) \subseteq Opened
  BY DEF On, Opened, V!Counted, GInv
<1>2. ASSUME NEW r \in Opened  PROVE cmd[r].cart \in Carts /\ Weight[r] \in Nat
  <2>1. r \in Txns /\ cmd[r].cart \in Carts
    BY DEF Opened, GInv, Attested, V!Commands
  <2> QED  BY <2>1, TotalType DEF Weight
<1> QED  BY <1>1, <1>2, FS_Subset

\* No outcome is recorded for a reservation that stopped counting.
CapturedInTime ==
    \A r \in Txns : rsv[r] = "open" /\ rsv'[r] = "captured" =>
        V!ExpiresAt(cmd[r].cart) > now

\* A step settles open reservations, or lets them lapse; or it takes one, in a
\* write transaction that found the draw to fit.
Frees ==
    /\ now' \in Nat /\ now' >= now /\ Opened' = Opened
    /\ \A r \in Opened : cmd'[r] = cmd[r]
    /\ \A r \in Txns : Settles(r)

Takes(r) ==
    /\ now' = now /\ cmd' = cmd
    /\ rsv' = [rsv EXCEPT ![r] = "open"]
    /\ Opened' = Opened \cup {r} /\ r \notin Opened
    /\ cmd[r].cart \in Carts /\ V!EnvelopeSeal(cmd[r].cart) = "pass"

\* A verification opens one row in its envelope, or none.
LEMMA VerifyTakes ==
    ASSUME GatewayData, GInv, NEW t \in Txns, Verify(t)
    PROVE  Frees \/ Takes(t)
<1>1. /\ now' = now /\ pc[t] \in {"idle", "risk", "signing"}
      /\ Answers(t) \/ (pc[t] = "signing" /\ Opens(t))
  BY VerifySteps DEF GInv, Verify
<1>2. now \in Nat /\ t \notin Opened
  BY <1>1, SettlementBounds DEF GInv, IInv, TypeOK, Attested, Opened
<1>3. CASE Answers(t)
  BY <1>1, <1>2, <1>3 DEF Answers, Frees, Settles, Opened, GInv, VerifyTypes
<1>4. CASE pc[t] = "signing" /\ Opens(t)
  <2>1. cmd[t].cart \in Carts
    BY <1>4 DEF GInv, Suspends, V!Commands
  <2>2. V!EnvelopeSeal(cmd[t].cart) = "pass"
    <3>1. V!Commit(t) /\ ~UNCHANGED V!rows
      <4>1. state'[t] # "none"
        BY <1>4 DEF Opens, GInv, IInv, TypeOK
      <4>2. ~UNCHANGED V!rows
        BY <1>2, <4>1 DEF Opened, V!rows
      <4> QED
        BY <4>2 DEF Verify, V!Step, V!StageZero, V!Present, V!Evaluate
    <3>2. V!DecisionOf(V!SealsNow(cmd[t].cart)) # "reject"
      BY <3>1 DEF V!Commit
    <3> QED  BY <3>2 DEF V!DecisionOf, V!SealsNow, V!EnvelopeSeal
  <2>3. rsv' = [rsv EXCEPT ![t] = "open"] /\ cmd' = cmd
    BY <1>4 DEF Opens
  <2>4. Opened' = Opened \cup {t}
    BY <1>4 DEF Opens, Opened, GInv, IInv, TypeOK
  <2> QED  BY <1>1, <1>2, <2>1, <2>2, <2>3, <2>4 DEF Takes
<1> QED  BY <1>1, <1>3, <1>4

\* Settlement opens none; it settles what is open.
LEMMA SettleFrees ==
    ASSUME GInv, SettleStep
    PROVE  Frees
<1>1. Next /\ IInv
  BY DEF SettleStep, GInv
<1>2. IInv'
  BY <1>1, StepKeeps
<1>3. /\ now' >= now
      /\ \A t \in Txns : Moves(t) /\ Settles(t)
  BY <1>1, SettleMoves
<1>4. now' \in Nat
  BY <1>2, SettlementBounds DEF IInv, TypeOK
<1>5. Opened' = Opened
  BY <1>3 DEF GInv, Moves, Sold, Opened
<1>6. cmd' = cmd
  BY DEF SettleStep, verifyOnly
<1> QED  BY <1>3, <1>4, <1>5, <1>6 DEF Frees

\* A step of the gateway frees, or takes one.
LEMMA StepKinds ==
    ASSUME GInv, [GatewayNext]_gatewayVars
    PROVE  Frees \/ \E r \in Txns : Takes(r)
<1>1. ASSUME NEW t \in Txns, Verify(t)  PROVE Frees \/ Takes(t)
  BY <1>1, VerifyTakes, GatewayTimes
<1>2. CASE SettleStep
  BY <1>2, SettleFrees
<1>3. CASE (\E c \in Carts : Drift(c)) \/ UNCHANGED gatewayVars
  <2>1. UNCHANGED <<now, rsv, state, cmd>>
    BY <1>3 DEF Drift, V!Drift, V!rows, gatewayVars, verifyOnly
  <2>2. now \in Nat /\ now >= now
    BY SettlementBounds DEF GInv, IInv, TypeOK
  <2> QED  BY <2>1, <2>2 DEF Frees, Settles, Opened
<1> QED  BY <1>1, <1>2, <1>3 DEF GatewayNext

\* Settling in time only takes rows off a category.
LEMMA FreesKeep ==
    ASSUME GatewayData, GInv, IsFiniteSet(Opened), Frees, CapturedInTime, NEW k
    PROVE  /\ IsFiniteSet(On(k)') /\ SumOver(Weight', On(k)') \in Nat
           /\ SumOver(Weight', On(k)') <= SumOver(Weight, On(k))
<1>1. /\ On(k) \subseteq Opened /\ IsFiniteSet(On(k))
      /\ \A r \in Opened : cmd[r].cart \in Carts /\ Weight[r] \in Nat
  BY OnlyOpenedCounts
<1>2. ASSUME NEW r \in Opened  PROVE cmd'[r] = cmd[r] /\ Weight'[r] = Weight[r]
  BY <1>2 DEF Frees, Weight, Opened
<1>3. ASSUME NEW r \in On(k)'  PROVE r \in On(k)
  <2>1. r \in Txns /\ r \in Opened
    BY <1>3 DEF On, V!Counted, Frees, Settles, Opened, GInv
  <2>2. V!DominantCategory(cmd[r].cart) = k /\ cmd'[r] = cmd[r]
    BY <1>2, <1>3, <2>1 DEF On, V!DominantCategory
  <2>3. V!ExpiresAt(cmd[r].cart) \in Int
    <3>1. CartExp[cmd[r].cart] \in Nat /\ Grace \in Nat
      BY <1>1, <2>1 DEF GatewayData
    <3> QED  BY <3>1 DEF V!ExpiresAt
  <2>4. now \in Int /\ now' \in Int /\ now' >= now
    BY SettlementBounds DEF GInv, IInv, TypeOK, Frees
  <2>5. V!Counted(r)
    <3>1. rsv'[r] = "captured" \/ (rsv'[r] = "open" /\ V!ExpiresAt(cmd[r].cart) > now')
      BY <1>3, <2>2 DEF On, V!Counted, V!ExpiresAt
    <3>2. Settles(r) /\ (rsv[r] = "open" /\ rsv'[r] = "captured" =>
                             V!ExpiresAt(cmd[r].cart) > now)
      BY <2>1 DEF Frees, CapturedInTime
    <3> QED  BY <2>3, <2>4, <3>1, <3>2 DEF V!Counted, Settles
  <2> QED  BY <2>1, <2>2, <2>5 DEF On
<1>4. IsFiniteSet(On(k)')
  BY <1>1, <1>3, FS_Subset
<1>5. \A r \in On(k) : Weight'[r] \in Nat /\ Weight[r] \in Nat
  BY <1>1, <1>2
<1>6. \A r \in On(k)' : Weight'[r] \in Nat /\ Weight'[r] <= Weight[r]
  BY <1>1, <1>2, <1>3
<1>7. SumOver(Weight', On(k)') <= SumOver(Weight, On(k))
  BY <1>1, <1>3, <1>5, <1>6, SumGrows
<1>8. SumOver(Weight', On(k)') \in Nat
  BY <1>4, <1>6, SumType
<1> QED  BY <1>4, <1>7, <1>8

\* A new reservation adds one weight, and only where the draw was found to fit.
LEMMA TakesKeep ==
    ASSUME GatewayData, GInv, IsFiniteSet(Opened), OneCategoryEach,
           NEW r \in Txns, Takes(r), NEW k \in Declared,
           SumOver(Weight, On(k)) <= Cap[k],
           V!Drawn(k) = SumOver(Weight, On(k))
    PROVE  IsFiniteSet(On(k)') /\ SumOver(Weight', On(k)') <= Cap[k]
<1> DEFINE c == cmd[r].cart
<1>1. /\ On(k) \subseteq Opened /\ IsFiniteSet(On(k))
      /\ \A s \in Opened : Weight[s] \in Nat
  BY OnlyOpenedCounts
<1>2. c \in Carts /\ k \in Cats /\ r \notin On(k)
  BY <1>1 DEF Takes, GatewayData
<1>3. V!Total(c) \in Nat /\ Draw[c][k] \in Nat /\ Cap[k] \in Nat
  BY <1>2, TotalType DEF GatewayData
<1>4. Weight' = Weight /\ Weight[r] = V!Total(c)
  BY DEF Takes, Weight
<1>5. On(k)' \subseteq On(k) \cup {r}
  <2>1. ASSUME NEW s \in On(k)', s # r  PROVE s \in On(k)
    BY <2>1 DEF On, V!Counted, Takes, V!ExpiresAt, V!DominantCategory, GInv, IInv, TypeOK
  <2> QED  BY <2>1
<1>6. ASSUME r \in On(k)'
      PROVE  Weight[r] \in Nat /\ SumOver(Weight, On(k)) + Weight[r] <= Cap[k]
  <2>1. V!DominantCategory(c) = k
    BY <1>6 DEF On, Takes, V!DominantCategory
  <2>2. V!Total(c) = Draw[c][k]
    BY <1>2, <2>1, TotalIsOneDraw
  <2>3. SumOver(Weight, On(k)) \in Nat
    BY <1>1, SumType
  <2>4. Draw[c][k] > 0 => Draw[c][k] <= Cap[k] - V!Drawn(k)
    BY <1>2 DEF Takes, V!EnvelopeSeal, V!CatsOf, V!DrawFits
  <2> QED  BY <1>3, <1>4, <2>2, <2>3, <2>4
<1>7. IsFiniteSet(On(k)') /\ SumOver(Weight, On(k)') <= Cap[k]
  <2>1. \A s \in On(k) : Weight[s] \in Nat
    BY <1>1
  <2> QED  BY <1>1, <1>2, <1>3, <1>5, <1>6, <2>1, StaysWithin
<1> QED  BY <1>4, <1>7

\* The envelope's invariant: finitely many rows, and each category within cap.
CapInv ==
    /\ IsFiniteSet(Opened)
    /\ \A k \in Declared : SumOver(Weight, On(k)) <= Cap[k]

\* Nothing is reserved at the start.
LEMMA CapInvInit == GatewayData /\ GatewayInit => CapInv
<1> SUFFICES ASSUME GatewayData, GatewayInit PROVE CapInv
  OBVIOUS
<1>1. Opened = {} /\ \A k : On(k) = {}
  BY DEF GatewayInit, V!Init, Opened, On, V!Counted
<1>2. \A k \in Declared : Cap[k] \in Nat
  BY DEF GatewayData
<1> QED  BY <1>1, <1>2, SumEmpty, FS_EmptySet DEF CapInv

\* Every step that captures in time keeps what is reserved within the cap.
LEMMA CapInvKept ==
    ASSUME GatewayData, OneCategoryEach, GInv, CapInv, [GatewayNext]_gatewayVars,
           CapturedInTime
    PROVE  CapInv'
<1>1. IsFiniteSet(Opened) /\ \A k \in Declared : SumOver(Weight, On(k)) <= Cap[k]
  BY DEF CapInv
<1>2. CASE Frees
  <2>1. IsFiniteSet(Opened')
    BY <1>1, <1>2 DEF Frees
  <2>2. ASSUME NEW k \in Declared  PROVE SumOver(Weight', On(k)') <= Cap[k]
    <3>1. /\ SumOver(Weight', On(k)') \in Nat
          /\ SumOver(Weight', On(k)') <= SumOver(Weight, On(k))
      BY <1>1, <1>2, FreesKeep
    <3>2. SumOver(Weight, On(k)) <= Cap[k] /\ Cap[k] \in Nat
      BY <1>1 DEF GatewayData
    <3>3. SumOver(Weight, On(k)) \in Nat
      BY <1>1, OnlyOpenedCounts, SumType
    <3> QED  BY <3>1, <3>2, <3>3
  <2> QED  BY <2>1, <2>2 DEF CapInv
<1>3. ASSUME NEW r \in Txns, Takes(r)  PROVE CapInv'
  <2>1. IsFiniteSet(Opened')
    BY <1>1, <1>3, FS_AddElement DEF Takes
  <2>2. ASSUME NEW k \in Declared  PROVE SumOver(Weight', On(k)') <= Cap[k]
    BY <1>1, <1>3, OnlyOpenedCounts, DrawnIsSum, TakesKeep
  <2> QED  BY <2>1, <2>2 DEF CapInv
<1> QED  BY <1>2, <1>3, StepKinds

\* The sum invariant holds as long as every capture is in time.
LEMMA CapInvariant ==
    ASSUME OneCategoryEach
    PROVE  GatewaySpec /\ [][CapturedInTime]_gatewayVars => []CapInv
<1>1. GatewayInit => CapInv
  BY CapInvInit, GatewayTimes
<1>2. GInv /\ CapInv /\ [GatewayNext]_gatewayVars /\ [CapturedInTime]_gatewayVars
         => CapInv'
  <2> SUFFICES ASSUME GInv, CapInv, [GatewayNext]_gatewayVars,
                      [CapturedInTime]_gatewayVars
               PROVE  CapInv'
    OBVIOUS
  <2>1. CapturedInTime
    BY DEF CapturedInTime, gatewayVars
  <2> QED  BY <2>1, CapInvKept, GatewayTimes
<1> QED  BY <1>1, <1>2, GatewayInvariant, PTL DEF GatewaySpec

\* CapNeverOverdrawn in the whole process: settlement, cancels, undos, crashes
\* and retries take no envelope past its cap, as long as no outcome is recorded
\* for a reservation that lapsed (envelope-check.ts inside the write transaction,
\* envelope-reservations.ts transition).
THEOREM CapInGateway ==
    ASSUME OneCategoryEach
    PROVE  GatewaySpec /\ [][CapturedInTime]_gatewayVars => []V!CapNeverOverdrawn
<1>1. GInv /\ CapInv => V!CapNeverOverdrawn
  BY OnlyOpenedCounts, DrawnIsSum DEF CapInv, V!CapNeverOverdrawn
<1> QED  BY <1>1, CapInvariant, GatewayInvariant, PTL

-----------------------------------------------------------------------------
(* What customers are charged.  A purchase holds its capacity from the       *)
(* commit until it is given back; nothing that was given back is held again, *)
(* and a commit finds everything that is still held in the rows it adds up.  *)

\* The rows that hold capacity of a category, and those that hold any.
Kept(k) == {r \in Opened : ~GivenBack(r) /\ V!DominantCategory(cmd[r].cart) = k}

\* Of every open row that stopped counting it is known that it did.
Lapses ==
    \A r \in Txns :
        rsv[r] = "open" /\ V!ExpiresAt(cmd[r].cart) <= now => r \in lapsed

KeptInv ==
    /\ IsFiniteSet(Opened)
    /\ Lapses
    /\ \A k \in Declared : SumOver(Weight, Kept(k)) <= Cap[k]

\* What is held is counted.
LEMMA KeptCounts ==
    ASSUME GatewayData, GInv, Lapses, NEW k
    PROVE  Kept(k) \subseteq On(k)
<1> SUFFICES ASSUME NEW r \in Kept(k)  PROVE r \in On(k)
  OBVIOUS
<1>1. /\ r \in Txns /\ state[r] # "none" /\ rsv[r] # "released" /\ r \notin lapsed
      /\ V!DominantCategory(cmd[r].cart) = k
  BY DEF Kept, Opened, GivenBack
<1>2. rsv[r] \in {"open", "captured"}
  BY <1>1 DEF GInv, IInv, TypeOK
<1>3. CartExp[cmd[r].cart] \in Nat /\ Grace \in Nat /\ now \in Nat
  BY <1>1, SettlementBounds DEF GInv, IInv, TypeOK, Attested, V!Commands, GatewayData
<1>4. V!Counted(r)
  BY <1>1, <1>2, <1>3 DEF Lapses, V!Counted, V!ExpiresAt
<1> QED  BY <1>1, <1>4 DEF On

\* Every step of the process files what lapses with it, and forgets nothing.
LEMMA LapsesFiled ==
    ASSUME Lapses, [GatewayNext]_gatewayVars
    PROVE  Lapses' /\ lapsed \subseteq lapsed'
<1>1. CASE GatewayNext
  BY <1>1 DEF GatewayNext, Lapse, Lapses, V!ExpiresAt
<1>2. CASE UNCHANGED gatewayVars
  BY <1>2 DEF gatewayVars, verifyOnly, Lapses, V!ExpiresAt
<1> QED  BY <1>1, <1>2

\* A settling step takes rows out of what is held, and puts none back.
LEMMA FreesKept ==
    ASSUME GatewayData, GInv, IsFiniteSet(Opened), Frees, lapsed \subseteq lapsed',
           NEW k
    PROVE  /\ SumOver(Weight', Kept(k)') \in Nat
           /\ SumOver(Weight', Kept(k)') <= SumOver(Weight, Kept(k))
<1>1. /\ Kept(k) \subseteq Opened /\ IsFiniteSet(Kept(k))
      /\ \A r \in Opened : cmd[r].cart \in Carts /\ Weight[r] \in Nat
  BY OnlyOpenedCounts, FS_Subset DEF Kept
<1>2. ASSUME NEW r \in Opened  PROVE cmd'[r] = cmd[r] /\ Weight'[r] = Weight[r]
  BY <1>2 DEF Frees, Weight, Opened
<1>3. ASSUME NEW r \in Kept(k)'  PROVE r \in Kept(k)
  <2>1. r \in Opened /\ r \in Txns
    BY <1>3 DEF Kept, Frees, Opened
  <2>2. V!DominantCategory(cmd[r].cart) = k
    BY <1>2, <1>3, <2>1 DEF Kept, V!DominantCategory
  <2>3. rsv'[r] # "released" /\ r \notin lapsed
    BY <1>3 DEF Kept, GivenBack
  <2>4. rsv[r] # "released"
    BY <2>1, <2>3 DEF Frees, Settles
  <2> QED  BY <2>1, <2>2, <2>3, <2>4 DEF Kept, GivenBack
<1>4. IsFiniteSet(Kept(k)')
  BY <1>1, <1>3, FS_Subset
<1>5. \A r \in Kept(k) : Weight'[r] \in Nat /\ Weight[r] \in Nat
  BY <1>1, <1>2
<1>6. \A r \in Kept(k)' : Weight'[r] \in Nat /\ Weight'[r] <= Weight[r]
  BY <1>1, <1>2, <1>3
<1>7. SumOver(Weight', Kept(k)') <= SumOver(Weight, Kept(k))
  BY <1>1, <1>3, <1>5, <1>6, SumGrows
<1>8. SumOver(Weight', Kept(k)') \in Nat
  BY <1>4, <1>6, SumType
<1> QED  BY <1>7, <1>8

\* A commit adds one weight to what is held, and found it to fit beside more.
LEMMA TakesKept ==
    ASSUME GatewayData, GInv, OneCategoryEach, KeptInv, lapsed \subseteq lapsed',
           NEW r \in Txns, Takes(r), NEW k \in Declared
    PROVE  SumOver(Weight', Kept(k)') <= Cap[k]
<1> DEFINE c == cmd[r].cart
<1>1. /\ On(k) \subseteq Opened /\ IsFiniteSet(On(k)) /\ IsFiniteSet(Opened)
      /\ \A s \in Opened : Weight[s] \in Nat
  BY OnlyOpenedCounts DEF KeptInv
<1>2. Kept(k) \subseteq On(k)
  BY KeptCounts DEF KeptInv
<1>3. c \in Carts /\ k \in Cats /\ r \notin Kept(k)
  BY <1>1, <1>2 DEF Takes, GatewayData
<1>4. V!Total(c) \in Nat /\ Draw[c][k] \in Nat /\ Cap[k] \in Nat
  BY <1>3, TotalType DEF GatewayData
<1>5. Weight' = Weight /\ Weight[r] = V!Total(c)
  BY DEF Takes, Weight
<1>6. Kept(k)' \subseteq Kept(k) \cup {r}
  <2>1. ASSUME NEW s \in Kept(k)', s # r  PROVE s \in Kept(k)
    <3>1. s \in Opened /\ rsv'[s] = rsv[s] /\ cmd' = cmd
      BY <2>1 DEF Kept, Opened, Takes, GInv, IInv, TypeOK
    <3>2. V!DominantCategory(cmd[s].cart) = k
      BY <2>1, <3>1 DEF Kept, V!DominantCategory
    <3> QED  BY <2>1, <3>1, <3>2 DEF Kept, GivenBack
  <2> QED  BY <2>1
<1>7. /\ SumOver(Weight, Kept(k)) \in Nat /\ SumOver(Weight, On(k)) \in Nat
      /\ SumOver(Weight, Kept(k)) <= SumOver(Weight, On(k))
      /\ SumOver(Weight, Kept(k)) <= Cap[k] /\ IsFiniteSet(Kept(k))
  <2>1. IsFiniteSet(Kept(k)) /\ \A s \in On(k) : Weight[s] \in Nat
    BY <1>1, <1>2, FS_Subset
  <2> QED  BY <1>1, <1>2, <2>1, SumGrows, SumType DEF KeptInv
<1>8. ASSUME r \in Kept(k)'
      PROVE  Weight[r] \in Nat /\ SumOver(Weight, Kept(k)) + Weight[r] <= Cap[k]
  <2>1. V!DominantCategory(c) = k
    BY <1>8 DEF Kept, Takes, V!DominantCategory
  <2>2. V!Total(c) = Draw[c][k]
    BY <1>3, <2>1, TotalIsOneDraw
  <2>3. Draw[c][k] > 0 => Draw[c][k] <= Cap[k] - V!Drawn(k)
    BY <1>3 DEF Takes, V!EnvelopeSeal, V!CatsOf, V!DrawFits
  <2>4. V!Drawn(k) = SumOver(Weight, On(k))
    BY <1>1, DrawnIsSum
  <2> QED  BY <1>4, <1>5, <1>7, <2>2, <2>3, <2>4
<1>9. SumOver(Weight, Kept(k)') <= Cap[k]
  <2>1. \A s \in Kept(k) : Weight[s] \in Nat
    BY <1>1, <1>2
  <2> QED  BY <1>3, <1>4, <1>5, <1>6, <1>7, <1>8, <2>1, StaysWithin
<1> QED  BY <1>5, <1>9

\* Nothing is held at the start.
LEMMA KeptInvInit == GatewayInit => KeptInv
<1> SUFFICES ASSUME GatewayInit  PROVE KeptInv
  OBVIOUS
<1>1. Opened = {} /\ Lapses
  BY DEF GatewayInit, V!Init, Opened, Lapses
<1>2. \A k : Kept(k) = {}
  BY <1>1 DEF Kept
<1>3. \A k \in Declared : Cap[k] \in Nat
  BY GatewayTimes DEF GatewayData
<1> QED  BY <1>1, <1>2, <1>3, SumEmpty, FS_EmptySet DEF KeptInv

\* Every step keeps what is held within the cap.
LEMMA KeptInvKept ==
    ASSUME GatewayData, OneCategoryEach, GInv, KeptInv, [GatewayNext]_gatewayVars
    PROVE  KeptInv'
<1>1. Lapses' /\ lapsed \subseteq lapsed' /\ IsFiniteSet(Opened)
  BY LapsesFiled DEF KeptInv
<1>2. CASE Frees
  <2>1. IsFiniteSet(Opened')
    BY <1>1, <1>2 DEF Frees
  <2>2. ASSUME NEW k \in Declared  PROVE SumOver(Weight', Kept(k)') <= Cap[k]
    <3>1. /\ SumOver(Weight', Kept(k)') \in Nat
          /\ SumOver(Weight', Kept(k)') <= SumOver(Weight, Kept(k))
      BY <1>1, <1>2, FreesKept
    <3>2. SumOver(Weight, Kept(k)) <= Cap[k] /\ Cap[k] \in Nat
      BY DEF KeptInv, GatewayData
    <3>3. SumOver(Weight, Kept(k)) \in Nat
      <4>1. /\ IsFiniteSet(Kept(k))
            /\ \A r \in Kept(k) : Weight[r] \in Nat
        BY <1>1, OnlyOpenedCounts, FS_Subset DEF Kept
      <4> QED  BY <4>1, SumType
    <3> QED  BY <3>1, <3>2, <3>3
  <2> QED  BY <1>1, <2>1, <2>2 DEF KeptInv
<1>3. ASSUME NEW r \in Txns, Takes(r)  PROVE KeptInv'
  <2>1. IsFiniteSet(Opened')
    BY <1>1, <1>3, FS_AddElement DEF Takes
  <2>2. ASSUME NEW k \in Declared  PROVE SumOver(Weight', Kept(k)') <= Cap[k]
    BY <1>1, <1>3, TakesKept
  <2> QED  BY <1>1, <2>1, <2>2 DEF KeptInv
<1> QED  BY <1>2, <1>3, StepKinds

\* Who was charged out of capacity he held, and what in a category.
Payers == {r \in Txns : Contains(attempts[r], "captured") /\ ~GivenBack(r)}
Paid(k) == [r \in Txns |-> Draw[cmd[r].cart][k]]

\* Whoever was charged has a row.
LEMMA PayersOpened ==
    ASSUME GInv
    PROVE  Payers \subseteq Opened
<1> SUFFICES ASSUME NEW r \in Txns, Contains(attempts[r], "captured")
             PROVE  state[r] \in Sold
  BY DEF Payers, Opened, Sold
<1>1. attempts[r] # <<>>
  <2>1. PICK i \in 1..Len(attempts[r]) : attempts[r][i] = "captured"
    BY DEF Contains
  <2> QED  BY <2>1
<1> QED  BY <1>1 DEF GInv, IInv, Burns

\* Charged adds up what the payers paid.
LEMMA ChargedIsSum ==
    ASSUME NEW k, IsFiniteSet(Payers)
    PROVE  Charged(k) = SumOver(Paid(k), Payers)
<1> DEFINE Adds(g) ==
              g = [s \in SUBSET Payers |->
                     IF s = {} THEN 0
                     ELSE Draw[cmd[AnyOf(s)].cart][k] + g[s \ {AnyOf(s)}]]
<1>1. Charged(k) = (CHOOSE g : Adds(g))[Payers]
  BY DEF Charged, MapThenSumSet, MapThenFoldSet, AnyOf, Payers
<1>2. ASSUME NEW s \in SUBSET Payers, s # {}
      PROVE  Paid(k)[AnyOf(s)] = Draw[cmd[AnyOf(s)].cart][k]
  BY <1>2 DEF AnyOf, Paid, Payers
<1>3. ASSUME NEW g  PROVE Adds(g) <=> AddsUp(Paid(k), Payers, g)
  BY <1>2 DEF AddsUp
<1>4. PICK g : AddsUp(Paid(k), Payers, g) /\ SumOver(Paid(k), Payers) = g[Payers]
  BY SumIsTheSolution
<1> DEFINE h == CHOOSE f : Adds(f)
<1>5. AddsUp(Paid(k), Payers, h)
  <2>1. Adds(g)
    BY <1>3, <1>4
  <2> HIDE DEF Adds
  <2>2. Adds(h)
    BY <2>1
  <2> QED  BY <1>3, <2>2
<1> HIDE DEF h
<1>6. \A s \in SUBSET Payers : h[s] = g[s]
  BY <1>4, <1>5, AddsUpOnce
<1> QED  BY <1>1, <1>4, <1>6 DEF h

\* What is charged is within what is held.
LEMMA ChargedWithinKept ==
    ASSUME GatewayData, OneCategoryEach, GInv, KeptInv, NEW k \in Declared
    PROVE  Charged(k) <= Cap[k]
<1>1. /\ IsFiniteSet(Opened) /\ IsFiniteSet(Kept(k)) /\ Kept(k) \subseteq Opened
      /\ \A r \in Opened : cmd[r].cart \in Carts /\ Weight[r] \in Nat
      /\ SumOver(Weight, Kept(k)) <= Cap[k]
  BY OnlyOpenedCounts, FS_Subset DEF KeptInv, Kept
<1>2. \A r \in Payers : r \in Opened /\ ~GivenBack(r)
  BY PayersOpened DEF Payers
<1>3. k \in Cats /\ \A r \in Opened : Paid(k)[r] \in Nat
  BY <1>1 DEF GatewayData, Paid, Opened
<1>4. IsFiniteSet(Payers)
  BY <1>1, <1>2, FS_Subset
<1> DEFINE T == {r \in Payers : Paid(k)[r] # 0}
<1>5. SumOver(Paid(k), Payers) = SumOver(Paid(k), T)
  <2>1. \A r \in Payers : Paid(k)[r] \in Nat
    BY <1>2, <1>3
  <2>2. T \in SUBSET Payers /\ \A r \in Payers \ T : Paid(k)[r] = 0
    OBVIOUS
  <2> HIDE DEF T
  <2> QED  BY <1>4, <2>1, <2>2, SumWithoutZeros
<1>6. ASSUME NEW r \in T  PROVE r \in Kept(k) /\ Paid(k)[r] = Weight[r]
  <2>1. /\ r \in Opened /\ ~GivenBack(r) /\ cmd[r].cart \in Carts
        /\ Paid(k)[r] = Draw[cmd[r].cart][k] /\ Draw[cmd[r].cart][k] > 0
    BY <1>1, <1>2, <1>3 DEF Paid, Opened
  <2>2. /\ V!Total(cmd[r].cart) = Draw[cmd[r].cart][k]
        /\ V!DominantCategory(cmd[r].cart) = k
    BY <1>3, <2>1, TotalIsOneDraw
  <2> QED  BY <2>1, <2>2 DEF Kept, Weight, Opened
<1>7. SumOver(Paid(k), T) <= SumOver(Weight, Kept(k))
  <2>1. \A r \in Kept(k) : Paid(k)[r] \in Nat /\ Weight[r] \in Nat
    BY <1>1, <1>3
  <2>2. T \in SUBSET Kept(k) /\ \A r \in T : Paid(k)[r] <= Weight[r]
    BY <1>6, <2>1
  <2> HIDE DEF T
  <2> QED  BY <1>1, <2>1, <2>2, SumGrows
<1>8. SumOver(Paid(k), T) \in Nat /\ SumOver(Weight, Kept(k)) \in Nat /\ Cap[k] \in Nat
  <2>1. IsFiniteSet(T) /\ \A r \in T : Paid(k)[r] \in Nat
    BY <1>2, <1>3, <1>4, FS_Subset
  <2> HIDE DEF T
  <2> QED  BY <1>1, <1>3, <2>1, SumType DEF GatewayData
<1> QED  BY <1>1, <1>4, <1>5, <1>7, <1>8, ChargedIsSum

\* ChargedWithinCap: for any concurrent verifications, payments, undos, retries
\* and lapses, the only charges that may pass the cap the user signed are those
\* to purchases whose own capacity was given back before; everyone else's fit it
\* together (envelope-check.ts, payment-outcome-service.ts apply).
THEOREM ChargesWithinCap ==
    ASSUME OneCategoryEach
    PROVE  GatewaySpec => []ChargedWithinCap
<1>1. GInv /\ KeptInv /\ [GatewayNext]_gatewayVars => KeptInv'
  BY KeptInvKept, GatewayTimes
<1>2. GatewaySpec => []KeptInv
  BY <1>1, KeptInvInit, GatewayInvariant, PTL DEF GatewaySpec
<1>3. GInv /\ KeptInv => ChargedWithinCap
  BY ChargedWithinKept, GatewayTimes DEF ChargedWithinCap
<1> QED  BY <1>2, <1>3, GatewayInvariant, PTL
=============================================================================
