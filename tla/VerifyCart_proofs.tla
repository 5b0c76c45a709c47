------------------------- MODULE VerifyCart_proofs -------------------------
(***************************************************************************)
(* What VerifyCart guarantees for any number of requests, carts, units,    *)
(* tenants and keys: its rows stand and fall together, a cart is spent     *)
(* once, a key names one outcome, and the whole is the atomic register of  *)
(* CartSpending.                                                           *)
(***************************************************************************)
EXTENDS VerifyCart, Basics

\* A committed decision is one of three, whatever the seals.
LEMMA DecisionType == ASSUME NEW s PROVE DecisionOf(s) \in Decisions
  BY DEF DecisionOf, Decisions

\* The pipeline's seals have the shape of the signed ones.
LEMMA SealsType ==
    ASSUME TypeOK, NEW c \in Carts
    PROVE  SealsNow(c) \in Seals \X Seals \X (Seals \X Seals)
  BY StaticData DEF TypeOK, SealsNow, NonceSeal, EnvelopeSeal, Seals

\* A fresh verdict is an answer of the wire's type.
LEMMA VerdictType == ASSUME NEW d \in Decisions PROVE Verdict(d) \in Replies
  BY DEF Verdict, Replies

\* The inductive invariant holds of an empty database.
LEMMA InitIInv == Init => IInv
  <1> SUFFICES ASSUME Init PROVE IInv
    OBVIOUS
  <1>1. TypeOK
    BY DEF Init, TypeOK, Replies, NoReply
  <1>2. PhaseLinks /\ RowLinks /\ OneOutcomePerKey
    BY DEF Init, PhaseLinks, RowLinks, OneOutcomePerKey, Committed
  <1> QED BY <1>1, <1>2 DEF IInv

-----------------------------------------------------------------------------
(* One lemma per action.                                                    *)

\* A request that is not yet committed may be answered without harm.
LEMMA AnswerKeeps ==
    ASSUME IInv, NEW r \in Reqs, NEW a \in Replies, ~Committed(r), Answer(r, a),
           UNCHANGED <<now, standing, signed, rows>>,
           cmd' \in [Reqs -> Commands \cup {None}],
           \A s \in Reqs \ {r} : cmd'[s] = cmd[s]
    PROVE  IInv'
  <1> USE DEF IInv, rows
  <1>1. TypeOK'
    BY DEF TypeOK, Answer
  <1>2. \A s \in Reqs : Committed(s)' <=> Committed(s)
    BY DEF Committed
  <1>3. \A s \in Reqs : Committed(s) => s # r /\ cmd'[s] = cmd[s]
    BY DEF Committed
  <1>4. PhaseLinks'
    <2> SUFFICES ASSUME NEW s \in Reqs
                 PROVE  /\ pc'[s] \in {"risk", "signing"} => cmd'[s] \in Commands
                        /\ pc'[s] # "done" => reply'[s] = NoReply
                        /\ Committed(s) =>
                             /\ pc'[s] = "done" /\ cmd'[s] \in Commands
                             /\ reply'[s].kind = "verdict"
                             /\ reply'[s].decision # "reject"
      BY <1>2 DEF PhaseLinks
    <2>1. CASE s = r
      BY <2>1 DEF Answer, TypeOK
    <2>2. CASE s # r
      BY <2>2 DEF Answer, TypeOK, PhaseLinks
    <2> QED BY <2>1, <2>2
  <1>5. \A c \in Carts : nonce[c] # None => nonce[c] \in Reqs
    BY DEF TypeOK
  <1>6. \A u \in Units : claim[u] # None => claim[u] \in Reqs
    BY DEF TypeOK
  <1>7. RowLinks'
    BY <1>2, <1>3, <1>5, <1>6 DEF RowLinks
  <1>8. OneOutcomePerKey'
    BY <1>2, <1>3 DEF OneOutcomePerKey
  <1> QED BY <1>1, <1>4, <1>7, <1>8

\* A request may be suspended at a later await, with its command or its seals.
LEMMA SuspendKeeps ==
    ASSUME IInv, NEW r \in Reqs, ~Committed(r), pc[r] # "done",
           UNCHANGED <<now, standing, reply, rows>>,
           cmd' \in [Reqs -> Commands \cup {None}],
           signed' \in [Reqs -> (Seals \X Seals \X (Seals \X Seals)) \cup {None}],
           NEW phase \in {"risk", "signing"}, pc' = [pc EXCEPT ![r] = phase],
           cmd'[r] \in Commands,
           \A s \in Reqs \ {r} : cmd'[s] = cmd[s] /\ signed'[s] = signed[s]
    PROVE  IInv'
  <1> USE DEF IInv, rows
  <1>1. TypeOK'
    BY DEF TypeOK
  <1>2. \A s \in Reqs : Committed(s)' <=> Committed(s)
    BY DEF Committed
  <1>3. \A s \in Reqs : Committed(s) => s # r /\ cmd'[s] = cmd[s]
    BY DEF Committed
  <1>4. PhaseLinks'
    BY <1>2, <1>3 DEF PhaseLinks, TypeOK
  <1>5. \A c \in Carts : nonce[c] # None => nonce[c] \in Reqs
    BY DEF TypeOK
  <1>6. \A u \in Units : claim[u] # None => claim[u] \in Reqs
    BY DEF TypeOK
  <1>7. RowLinks'
    BY <1>2, <1>3, <1>5, <1>6 DEF RowLinks
  <1>8. OneOutcomePerKey'
    BY <1>2, <1>3 DEF OneOutcomePerKey
  <1> QED BY <1>1, <1>4, <1>7, <1>8

\* A refusal at stage zero answers a request that has committed nothing.
LEMMA StageZeroKeeps == ASSUME IInv, NEW r \in Reqs, StageZero(r) PROVE IInv'
  <1>1. ~Committed(r)
    BY DEF IInv, PhaseLinks, StageZero
  <1>2. Verdict("reject") \in Replies
    BY VerdictType DEF Decisions
  <1> QED BY <1>1, <1>2, AnswerKeeps DEF StageZero, IInv, TypeOK

\* A presented command is answered by replay or sent on to be evaluated.
LEMMA PresentKeeps == ASSUME IInv, NEW r \in Reqs, Present(r) PROVE IInv'
  <1>1. ~Committed(r)
    BY DEF IInv, PhaseLinks, Present
  <1>2. PICK x \in Commands :
          /\ cmd' = [cmd EXCEPT ![r] = x]
          /\ \/ /\ Idempotency(x) = "replay"
                /\ Answer(r, [kind |-> "replay",
                              decision |-> reply[nonce[x.cart]].decision])
             \/ Answer(r, [kind |-> "conflict", decision |-> "none"])
             \/ pc' = [pc EXCEPT ![r] = "risk"] /\ UNCHANGED reply
    BY DEF Present
  <1>3. /\ cmd' \in [Reqs -> Commands \cup {None}]
        /\ cmd'[r] = x /\ \A s \in Reqs \ {r} : cmd'[s] = cmd[s]
    BY <1>2 DEF IInv, TypeOK
  <1>4. UNCHANGED <<now, standing, signed, rows>>
    BY DEF Present
  <1>5. CASE /\ Idempotency(x) = "replay"
             /\ Answer(r, [kind |-> "replay",
                           decision |-> reply[nonce[x.cart]].decision])
    <2>1. nonce[x.cart] # None
      BY <1>5 DEF Idempotency
    <2>2. nonce[x.cart] \in Reqs /\ Committed(nonce[x.cart])
      BY <2>1 DEF IInv, TypeOK, RowLinks, Commands
    <2>3. reply[nonce[x.cart]].decision \in Decisions
      BY <2>2 DEF IInv, TypeOK, PhaseLinks, Replies, NoReply
    <2>4. [kind |-> "replay", decision |-> reply[nonce[x.cart]].decision] \in Replies
      BY <2>3 DEF Replies
    <2> QED BY <1>1, <1>3, <1>4, <1>5, <2>4, AnswerKeeps
  <1>6. CASE Answer(r, [kind |-> "conflict", decision |-> "none"])
    <2>1. [kind |-> "conflict", decision |-> "none"] \in Replies
      BY DEF Replies
    <2> QED BY <1>1, <1>3, <1>4, <1>6, <2>1, AnswerKeeps
  <1>7. CASE pc' = [pc EXCEPT ![r] = "risk"] /\ UNCHANGED reply
    BY <1>1, <1>3, <1>4, <1>7, SuspendKeeps DEF Present, IInv, TypeOK
  <1> QED BY <1>2, <1>5, <1>6, <1>7

\* The evaluation answers a reject or hands the seals to be signed.
LEMMA EvaluateKeeps == ASSUME IInv, NEW r \in Reqs, Evaluate(r) PROVE IInv'
  <1>1. ~Committed(r) /\ cmd[r] \in Commands
    BY DEF IInv, PhaseLinks, Evaluate
  <1>2. /\ cmd \in [Reqs -> Commands \cup {None}]
        /\ signed \in [Reqs -> (Seals \X Seals \X (Seals \X Seals)) \cup {None}]
    BY DEF IInv, TypeOK
  <1>3. CASE Answer(r, Verdict("reject")) /\ UNCHANGED signed
    <2>1. Verdict("reject") \in Replies
      BY VerdictType DEF Decisions
    <2> QED BY <1>1, <1>2, <1>3, <2>1, AnswerKeeps DEF Evaluate
  <1>4. CASE /\ pc' = [pc EXCEPT ![r] = "signing"]
             /\ signed' = [signed EXCEPT ![r] = SealsNow(cmd[r].cart)]
             /\ UNCHANGED reply
    <2>1. SealsNow(cmd[r].cart) \in Seals \X Seals \X (Seals \X Seals)
      BY <1>1, SealsType DEF IInv, Commands
    <2>2. signed' \in [Reqs -> (Seals \X Seals \X (Seals \X Seals)) \cup {None}]
      BY <1>2, <1>4, <2>1
    <2>3. \A s \in Reqs \ {r} : cmd'[s] = cmd[s] /\ signed'[s] = signed[s]
      BY <1>2, <1>4 DEF Evaluate
    <2> QED BY <1>1, <1>2, <1>4, <2>2, <2>3, SuspendKeeps DEF Evaluate
  <1> QED BY <1>3, <1>4 DEF Evaluate

\* The write transaction that commits: every row of r is new, and points back.
LEMMA WriteKeeps ==
    ASSUME IInv, NEW r \in Reqs, pc[r] = "signing",
           NEW d \in Decisions, d # "reject", ~Conflict(r), WriteAll(r, d),
           Answer(r, Verdict(d)), UNCHANGED <<now, standing, cmd, signed>>
    PROVE  IInv'
  <1> USE DEF IInv
  <1>1. cmd[r] \in Commands /\ ~Committed(r)
    BY DEF PhaseLinks
  <1> DEFINE c == cmd[r].cart
  <1>2. c \in Carts /\ UnitOf[c] \in Units
    BY <1>1, StaticData DEF Commands
  <1>3. nonce[c] = None /\ claim[UnitOf[c]] = None
    BY DEF Conflict
  <1>4. Verdict(d) \in Replies /\ Verdict(d).kind = "verdict" /\ Verdict(d).decision = d
    BY VerdictType DEF Verdict
  <1>5. TypeOK'
    BY <1>2, <1>4 DEF TypeOK, WriteAll, Answer
  <1>6. /\ Committed(r)'
        /\ \A s \in Reqs \ {r} : Committed(s)' <=> Committed(s)
    BY DEF Committed, WriteAll, TypeOK
  <1>7. PhaseLinks'
    BY <1>1, <1>4, <1>6 DEF PhaseLinks, Answer, TypeOK
  <1>8. RowLinks'
    <2>1. /\ nonce' = [nonce EXCEPT ![c] = r]
          /\ claim' = [claim EXCEPT ![UnitOf[c]] = r]
          /\ rsv' = [rsv EXCEPT ![r] = "open"]
          /\ nonce \in [Carts -> Reqs \cup {None}]
          /\ claim \in [Units -> Reqs \cup {None}]
          /\ rsv \in [Reqs -> {"none", "open", "captured", "released"}]
      BY DEF WriteAll, TypeOK
    <2>2. \A s \in Reqs \ {r} : Committed(s) =>
            /\ cmd[s].cart \in Carts /\ cmd[s].cart # c
            /\ UnitOf[cmd[s].cart] \in Units /\ UnitOf[cmd[s].cart] # UnitOf[c]
      BY <1>3, NoneIsNobody, StaticData DEF PhaseLinks, RowLinks, Commands
    <2>3. \A s \in Reqs : IF Committed(s)'
                          THEN /\ nonce'[cmd[s].cart] = s
                               /\ claim'[UnitOf[cmd[s].cart]] = s
                               /\ rsv'[s] = "open"
                          ELSE rsv'[s] = "none"
      BY <1>2, <1>6, <2>1, <2>2 DEF RowLinks
    <2>4. ASSUME NEW k \in Carts, nonce'[k] # None
          PROVE  txn'[nonce'[k]] # "none" /\ cmd[nonce'[k]].cart = k
      <3>1. CASE k = c
        BY <1>2, <1>6, <2>1, <3>1 DEF Committed
      <3>2. CASE k # c
        <4>1. nonce'[k] = nonce[k] /\ nonce[k] \in Reqs
          BY <2>1, <2>4, <3>2
        <4>2. Committed(nonce[k]) /\ cmd[nonce[k]].cart = k
          BY <2>4, <4>1 DEF RowLinks
        <4> QED BY <1>1, <1>6, <4>1, <4>2 DEF Committed
      <3> QED BY <3>1, <3>2
    <2>5. ASSUME NEW u \in Units, claim'[u] # None
          PROVE  txn'[claim'[u]] # "none" /\ UnitOf[cmd[claim'[u]].cart] = u
      <3>1. CASE u = UnitOf[c]
        BY <1>2, <1>6, <2>1, <3>1 DEF Committed
      <3>2. CASE u # UnitOf[c]
        <4>1. claim'[u] = claim[u] /\ claim[u] \in Reqs
          BY <2>1, <2>5, <3>2
        <4>2. Committed(claim[u]) /\ UnitOf[cmd[claim[u]].cart] = u
          BY <2>5, <4>1 DEF RowLinks
        <4> QED BY <1>1, <1>6, <4>1, <4>2 DEF Committed
      <3> QED BY <3>1, <3>2
    <2>6. cmd' = cmd
      OBVIOUS
    <2> QED BY <2>3, <2>4, <2>5, <2>6 DEF RowLinks, Committed
  <1>9. OneOutcomePerKey'
    <2>1. \A s \in Reqs : Committed(s) =>
            cmd[s].tenant # cmd[r].tenant \/ cmd[s].key # cmd[r].key
      BY NoneIsNobody DEF Conflict, KeyTaken, RowLinks, PhaseLinks, Commands
    <2> QED BY <1>6, <2>1 DEF OneOutcomePerKey
  <1> QED BY <1>5, <1>7, <1>8, <1>9

\* The commit writes the row, the reservation and the answer together.
LEMMA CommitKeeps == ASSUME IInv, NEW r \in Reqs, Commit(r) PROVE IInv'
  <1>1. ~Committed(r) /\ cmd \in [Reqs -> Commands \cup {None}]
    BY DEF IInv, TypeOK, PhaseLinks, Commit
  <1> DEFINE d == DecisionOf(SealsNow(cmd[r].cart))
  <1>2. d \in Decisions /\ Verdict(d) \in Replies /\ Verdict("reject") \in Replies
    BY DecisionType, VerdictType DEF Decisions
  <1>3. CASE Refusal(r) /\ UNCHANGED rows
    <2>1. Answer(r, Verdict(d)) \/ Answer(r, Verdict("reject"))
      BY <1>3 DEF Refusal
    <2> QED BY <1>1, <1>2, <1>3, <2>1, AnswerKeeps DEF Commit
  <1>4. CASE d # "reject" /\ ~Conflict(r) /\ WriteAll(r, d) /\ Answer(r, Verdict(d))
    BY <1>2, <1>4, WriteKeeps DEF Commit
  <1> QED BY <1>3, <1>4 DEF Commit

\* The environment and the clock touch no row.
LEMMA WorldKeeps ==
    ASSUME IInv, now' \in Nat, standing' \in [Carts -> Standings],
           UNCHANGED <<pc, cmd, signed, reply, rows>>
    PROVE  IInv'
  BY DEF IInv, TypeOK, PhaseLinks, RowLinks, OneOutcomePerKey, Committed, rows

\* Every step keeps the invariant.
LEMMA NextKeeps == IInv /\ [Next]_vars => IInv'
  <1> SUFFICES ASSUME IInv, [Next]_vars PROVE IInv'
    OBVIOUS
  <1>0. now \in Nat /\ standing \in [Carts -> Standings]
    BY DEF IInv, TypeOK
  <1>1. ASSUME NEW r \in Reqs, Step(r) PROVE IInv'
    BY <1>1, StageZeroKeeps, PresentKeeps, EvaluateKeeps, CommitKeeps DEF Step
  <1>2. ASSUME NEW c \in Carts, Drift(c) PROVE IInv'
    BY <1>0, <1>2, WorldKeeps DEF Drift
  <1>3. CASE Tick
    BY <1>0, <1>3, WorldKeeps DEF Tick
  <1>4. CASE UNCHANGED vars
    BY <1>0, <1>4, WorldKeeps DEF vars
  <1> QED BY <1>1, <1>2, <1>3, <1>4 DEF Next

-----------------------------------------------------------------------------
(* The theorems.                                                            *)

\* The bookkeeping invariant holds for every value of the constants.
THEOREM Bookkeeping == Spec => []IInv
  BY InitIInv, NextKeeps, PTL DEF Spec

\* Every variable keeps its type.
THEOREM TypeCorrect == Spec => []TypeOK
  BY Bookkeeping, PTL DEF IInv

\* Burn, transaction, stock claim and reservation stand and fall together.
THEOREM RowsStandTogether == Spec => []RowsTogether
  <1>1. IInv => RowsTogether
    BY NoneIsNobody, StaticData
    DEF IInv, TypeOK, PhaseLinks, RowLinks, RowsTogether, Commands
  <1> QED BY <1>1, Bookkeeping, PTL

\* A cart buys at most one transaction, for any number of presentations.
THEOREM CartSpentOnce == Spec => []OneTxnPerCart
  <1>1. IInv => OneTxnPerCart
    BY DEF IInv, RowLinks, OneTxnPerCart
  <1> QED BY <1>1, Bookkeeping, PTL

\* A tenant's idempotency key names at most one committed outcome.
THEOREM KeyNamesOneOutcome == Spec => []OneOutcomePerKey
  BY Bookkeeping, PTL DEF IInv

-----------------------------------------------------------------------------
(* The signed credential and the replayed body.                             *)

\* What a committed presentation was asked, signed and answered never changes,
\* and neither does an answer once given.
LEMMA HistoryStands ==
    ASSUME IInv, [Next]_vars, NEW r \in Reqs
    PROVE  /\ Committed(r) => /\ Committed(r)' /\ txn'[r] = txn[r]
                              /\ signed'[r] = signed[r]
           /\ pc[r] = "done" => /\ reply'[r] = reply[r] /\ cmd'[r] = cmd[r]
  <1> USE DEF IInv, rows
  <1>0. pc[r] = "done" \/ ~Committed(r)
    BY DEF PhaseLinks
  <1>1. ASSUME NEW s \in Reqs, StageZero(s) \/ Present(s)
        PROVE  /\ pc[r] = "done" => s # r /\ reply'[r] = reply[r] /\ cmd'[r] = cmd[r]
               /\ UNCHANGED <<txn, signed>>
    BY <1>1 DEF StageZero, Present, Answer, TypeOK
  <1>2. ASSUME NEW s \in Reqs, Evaluate(s)
        PROVE  /\ pc[r] = "done" => /\ reply'[r] = reply[r] /\ cmd'[r] = cmd[r]
                                    /\ signed'[r] = signed[r]
               /\ UNCHANGED txn
    BY <1>2 DEF Evaluate, Answer, TypeOK
  <1>3. ASSUME NEW s \in Reqs, Commit(s)
        PROVE  /\ pc[r] = "done" => /\ reply'[r] = reply[r] /\ cmd'[r] = cmd[r]
                                    /\ signed'[r] = signed[r] /\ txn'[r] = txn[r]
    BY <1>3 DEF Commit, Refusal, WriteAll, Answer, TypeOK
  <1>4. ASSUME NEW c \in Carts, Drift(c)
        PROVE  UNCHANGED <<txn, signed, reply, cmd>>
    BY <1>4 DEF Drift
  <1>5. CASE Tick \/ UNCHANGED vars
    BY <1>5 DEF Tick, vars, Committed
  <1> QED BY <1>0, <1>1, <1>2, <1>3, <1>4, <1>5 DEF Next, Step, Committed

\* The step that commits r opens the transaction its signed seals attest to.
LEMMA CommitsAttested ==
    ASSUME IInv, [Next]_vars, NEW r \in Reqs, ~Committed(r), Committed(r)'
    PROVE  /\ DecisionOf(signed'[r]) = reply'[r].decision
           /\ txn'[r] = IF DecisionOf(signed'[r]) = "hold"
                        THEN "pending_cooloff" ELSE "approved"
  <1> USE DEF IInv, rows
  <1>1. PICK s \in Reqs : Commit(s) /\ ~UNCHANGED rows
    BY DEF Next, Step, StageZero, Present, Evaluate, Commit, Drift, Tick, vars, Committed
  <1> DEFINE d == DecisionOf(SealsNow(cmd[s].cart))
  <1>2. /\ WriteAll(s, d) /\ Answer(s, Verdict(d)) /\ signed' = signed
        /\ signed[s] = SealsNow(cmd[s].cart)
    BY <1>1 DEF Commit
  <1>3. s = r
    BY <1>2 DEF WriteAll, Committed, TypeOK
  <1> QED BY <1>2, <1>3 DEF WriteAll, Answer, Verdict, TypeOK

\* The credential handed out attests to the transaction that was opened.
THEOREM CommitsAsSigned == Spec => []CommitsWhatWasSigned
  <1>1. Init => CommitsWhatWasSigned
    BY DEF Init, CommitsWhatWasSigned, Committed
  <1>2. IInv /\ CommitsWhatWasSigned /\ [Next]_vars => CommitsWhatWasSigned'
    <2> SUFFICES ASSUME IInv, CommitsWhatWasSigned, [Next]_vars,
                        NEW r \in Reqs, Committed(r)'
                 PROVE  /\ DecisionOf(signed'[r]) = reply'[r].decision
                        /\ txn'[r] = IF DecisionOf(signed'[r]) = "hold"
                                     THEN "pending_cooloff" ELSE "approved"
      BY DEF CommitsWhatWasSigned, DecisionOf
    <2>1. CASE ~Committed(r)
      BY <2>1, CommitsAttested
    <2>2. CASE Committed(r)
      BY <2>2, HistoryStands DEF CommitsWhatWasSigned, IInv, PhaseLinks
    <2> QED BY <2>1, <2>2
  <1> QED BY <1>1, <1>2, Bookkeeping, PTL DEF Spec

\* A replay shows only its owner the body the commit stored, verbatim.
THEOREM ReplaysVerbatim == Spec => []ReplayIsVerbatim
  <1>1. Init => ReplayIsVerbatim
    BY DEF Init, ReplayIsVerbatim, NoReply
  <1>2. IInv /\ ReplayIsVerbatim /\ [Next]_vars => ReplayIsVerbatim'
    <2> SUFFICES ASSUME IInv, ReplayIsVerbatim, [Next]_vars,
                        NEW r \in Reqs, reply'[r].kind = "replay"
                 PROVE  \E s \in Reqs : /\ Committed(s)' /\ cmd'[s] = cmd'[r]
                                        /\ reply'[s].decision = reply'[r].decision
      BY DEF ReplayIsVerbatim
    <2> USE DEF IInv
    <2>1. \A s \in Reqs : Committed(s) =>
            Committed(s)' /\ cmd'[s] = cmd[s] /\ reply'[s] = reply[s]
      BY HistoryStands DEF PhaseLinks
    <2>2. CASE pc[r] = "done"
      BY <2>1, <2>2, HistoryStands DEF ReplayIsVerbatim
    <2>3. CASE pc[r] # "done"
      <3>1. reply'[r] # reply[r]
        BY <2>3 DEF PhaseLinks, NoReply
      <3>2. PICK q \in Reqs : Present(q)
        BY <3>1 DEF Next, Step, StageZero, Present, Evaluate, Commit, Refusal,
                    Drift, Tick, vars, Answer, Verdict, TypeOK
      <3>3. PICK x \in Commands :
              /\ cmd' = [cmd EXCEPT ![r] = x] /\ Idempotency(x) = "replay"
              /\ reply' = [reply EXCEPT ![r] =
                    [kind |-> "replay", decision |-> reply[nonce[x.cart]].decision]]
        <4>1. q = r
          BY <3>1, <3>2 DEF Present, Answer, TypeOK
        <4>2. PICK x \in Commands :
                /\ cmd' = [cmd EXCEPT ![r] = x]
                /\ \/ /\ Idempotency(x) = "replay"
                      /\ Answer(r, [kind |-> "replay",
                                    decision |-> reply[nonce[x.cart]].decision])
                   \/ Answer(r, [kind |-> "conflict", decision |-> "none"])
          BY <3>1, <3>2, <4>1 DEF Present
        <4>3. ~Answer(r, [kind |-> "conflict", decision |-> "none"])
          BY DEF Answer, TypeOK
        <4> QED BY <4>2, <4>3 DEF Answer
      <3> DEFINE h == nonce[x.cart]
      <3>4. /\ h # None /\ cmd[h].tenant = x.tenant /\ cmd[h].key = x.key
            /\ cmd[h].payload = x.payload
        BY <3>3 DEF Idempotency
      <3>5. h \in Reqs /\ Committed(h) /\ cmd[h].cart = x.cart /\ cmd[h] \in Commands
        BY <3>4 DEF TypeOK, RowLinks, PhaseLinks, Commands
      <3>6. cmd[h] = x
        BY <3>4, <3>5 DEF Commands
      <3>7. cmd'[r] = x /\ reply'[r].decision = reply[h].decision
        BY <3>3 DEF TypeOK
      <3> QED BY <2>1, <3>5, <3>6, <3>7
    <2> QED BY <2>2, <2>3
  <1> QED BY <1>1, <1>2, Bookkeeping, PTL DEF Spec

-----------------------------------------------------------------------------
(* The envelope.  What a category's reservations draw is a sum over the     *)
(* committed requests, and a request joins it only through the write        *)
(* transaction, which has just read it.                                     *)

\* The rows a category answers for, and what each reserves.
On(k) == {r \in Reqs : Counted(r) /\ DominantCategory(cmd[r].cart) = k}
Weight == [r \in Reqs |-> Total(cmd[r].cart)]
Opened == {r \in Reqs : Committed(r)}

\* Every cart draws on one category: the one the reservation names.
OneCategoryEach ==
    \A c \in Carts : \A j, k \in Cats : Draw[c][j] > 0 /\ Draw[c][k] > 0 => j = k

\* Drawn adds up the weights of a category's rows.
LEMMA DrawnIsSum ==
    \A k : IsFiniteSet(On(k)) => Drawn(k) = SumOver(Weight, On(k))
<1> SUFFICES ASSUME NEW k, IsFiniteSet(On(k))
             PROVE  Drawn(k) = SumOver(Weight, On(k))
  OBVIOUS
<1> DEFINE Adds(g) ==
              g = [s \in SUBSET On(k) |->
                     IF s = {} THEN 0
                     ELSE Total(cmd[AnyOf(s)].cart) + g[s \ {AnyOf(s)}]]
<1>1. Drawn(k) = (CHOOSE g : Adds(g))[On(k)]
  BY DEF Drawn, MapThenSumSet, MapThenFoldSet, AnyOf, On
<1>2. ASSUME NEW s \in SUBSET On(k), s # {}
      PROVE  Weight[AnyOf(s)] = Total(cmd[AnyOf(s)].cart)
  BY <1>2 DEF AnyOf, Weight, On
<1>3. ASSUME NEW g  PROVE Adds(g) <=> AddsUp(Weight, On(k), g)
  BY <1>2 DEF AddsUp
<1>4. PICK g : AddsUp(Weight, On(k), g) /\ SumOver(Weight, On(k)) = g[On(k)]
  BY SumIsTheSolution
<1> DEFINE h == CHOOSE f : Adds(f)
<1>5. AddsUp(Weight, On(k), h)
  <2>1. Adds(g)
    BY <1>3, <1>4
  <2> HIDE DEF Adds
  <2>2. Adds(h)
    BY <2>1
  <2> QED  BY <1>3, <2>2
<1> HIDE DEF h
<1>6. \A s \in SUBSET On(k) : h[s] = g[s]
  BY <1>4, <1>5, AddsUpOnce
<1> QED  BY <1>1, <1>4, <1>6 DEF h

\* A cart's total is a number; and it is the draw on its one category.
LEMMA TotalType == ASSUME NEW c \in Carts PROVE Total(c) \in Nat
<1>1. Total(c) = SumOver(Draw[c], Cats)
  BY DEF Total, SumOver
<1>2. IsFiniteSet(Cats) /\ \A k \in Cats : Draw[c][k] \in Nat
  BY StaticData
<1> QED  BY <1>1, <1>2, SumType

\* The total of a cart of one category is that category's draw.
LEMMA TotalIsOneDraw ==
    ASSUME OneCategoryEach, NEW c \in Carts, NEW k \in Cats, DominantCategory(c) = k
    PROVE  Total(c) = Draw[c][k]
<1>1. Total(c) = SumOver(Draw[c], Cats)
  BY DEF Total, SumOver
<1>2. IsFiniteSet(Cats) /\ \A j \in Cats : Draw[c][j] \in Nat
  BY StaticData
<1>3. \A j \in Cats : Draw[c][j] <= Draw[c][k]
  <2>1. \E d \in Cats : \A j \in Cats : Draw[c][j] <= Draw[c][d]
    BY <1>2 DEF OneCategoryEach
  <2> QED  BY <2>1 DEF DominantCategory
<1>4. \A i, j \in Cats : Draw[c][i] > 0 /\ Draw[c][j] > 0 => i = j
  BY DEF OneCategoryEach
<1> QED  BY <1>1, <1>2, <1>3, <1>4, OneSummand

\* What is counted was committed, so it weighs a number; only finitely much was.
LEMMA OnlyOpenedCounts ==
    ASSUME IInv, NEW k, IsFiniteSet(Opened)
    PROVE  /\ On(k) \subseteq Opened /\ IsFiniteSet(On(k))
           /\ \A r \in Opened : Weight[r] \in Nat
<1>1. On(k) \subseteq Opened
  BY DEF On, Opened, Counted, IInv, RowLinks
<1>2. ASSUME NEW r \in Opened  PROVE Weight[r] \in Nat
  <2>1. r \in Reqs /\ cmd[r].cart \in Carts
    BY DEF Opened, IInv, PhaseLinks, Commands
  <2> QED  BY <2>1, TotalType DEF Weight
<1> QED  BY <1>1, <1>2, FS_Subset

\* A step leaves the reservations alone, and time only lets them lapse; or it
\* opens one, in a write transaction that found the draw to fit.
Lapses ==
    /\ now' \in Nat /\ now' >= now /\ rsv' = rsv /\ Opened' = Opened
    /\ \A r \in Opened : cmd'[r] = cmd[r]

Opens(r) ==
    /\ now' = now /\ cmd' = cmd
    /\ rsv' = [rsv EXCEPT ![r] = "open"]
    /\ Opened' = Opened \cup {r} /\ r \notin Opened
    /\ cmd[r].cart \in Carts /\ EnvelopeSeal(cmd[r].cart) = "pass"

\* A step opens one row in its envelope, or opens none while the clock moves on.
LEMMA StepKinds ==
    ASSUME IInv, [Next]_vars
    PROVE  Lapses \/ \E r \in Reqs : Opens(r)
<1> USE DEF rows
<1>0. now \in Nat /\ now >= now
  BY DEF IInv, TypeOK
<1>1. CASE UNCHANGED rows
  <2>1. Opened' = Opened
    BY <1>1 DEF Opened, Committed
  <2>2. ASSUME NEW r \in Opened  PROVE cmd'[r] = cmd[r]
    BY HistoryStands DEF Opened, IInv, PhaseLinks
  <2>3. now' \in Nat /\ now' >= now
    BY <1>0 DEF Next, Step, StageZero, Present, Evaluate, Commit, Drift, Tick, vars
  <2> QED  BY <1>1, <2>1, <2>2, <2>3 DEF Lapses
<1>2. CASE ~UNCHANGED rows
  <2>1. PICK r \in Reqs : Commit(r)
    BY <1>2 DEF Next, Step, StageZero, Present, Evaluate, Commit, Drift, Tick, vars
  <2> DEFINE d == DecisionOf(SealsNow(cmd[r].cart))
  <2>2. /\ d # "reject" /\ WriteAll(r, d) /\ pc[r] = "signing"
        /\ now' = now /\ cmd' = cmd
    BY <1>2, <2>1 DEF Commit
  <2>3. cmd[r].cart \in Carts /\ r \notin Opened
    BY <2>2 DEF IInv, PhaseLinks, Commands, Opened
  <2>4. EnvelopeSeal(cmd[r].cart) = "pass"
    BY <2>2 DEF DecisionOf, SealsNow, EnvelopeSeal
  <2>5. Opened' = Opened \cup {r}
    BY <2>2 DEF WriteAll, Opened, Committed, IInv, TypeOK
  <2> QED  BY <2>2, <2>3, <2>4, <2>5 DEF Opens, WriteAll
<1> QED  BY <1>1, <1>2

\* Lapsing only takes rows off a category.
LEMMA LapsesKeep ==
    ASSUME IInv, IsFiniteSet(Opened), Lapses, NEW k
    PROVE  /\ IsFiniteSet(On(k)') /\ On(k)' \subseteq On(k)
           /\ SumOver(Weight', On(k)') <= SumOver(Weight, On(k))
<1>1. /\ On(k) \subseteq Opened /\ IsFiniteSet(On(k))
      /\ \A r \in Opened : Weight[r] \in Nat
  BY OnlyOpenedCounts
<1>2. ASSUME NEW r \in Opened  PROVE Weight'[r] = Weight[r]
  BY <1>2 DEF Lapses, Weight, Opened
<1>3. ASSUME NEW r \in On(k)'  PROVE r \in On(k)
  <2>1. r \in Opened /\ cmd'[r] = cmd[r] /\ cmd[r].cart \in Carts
    <3>1. r \in Reqs /\ rsv[r] # "none"
      BY <1>3 DEF On, Counted, Lapses
    <3>2. Committed(r)
      BY <3>1 DEF IInv, RowLinks
    <3> QED  BY <3>1, <3>2 DEF Lapses, Opened, IInv, PhaseLinks, Commands
  <2>2. ExpiresAt(cmd[r].cart) \in Int
    <3> HIDE DEF Commands
    <3>1. CartExp[cmd[r].cart] \in Nat
      BY <2>1, StaticData
    <3> QED  BY <3>1, StaticData DEF ExpiresAt
  <2>3. now \in Int /\ now' \in Int /\ now' >= now
    BY DEF IInv, TypeOK, Lapses
  <2>4. now' < ExpiresAt(cmd[r].cart) => now < ExpiresAt(cmd[r].cart)
    BY <2>2, <2>3
  <2> QED  BY <1>3, <2>1, <2>4 DEF On, Counted, Lapses, ExpiresAt
<1>4. IsFiniteSet(On(k)')
  BY <1>1, <1>3, FS_Subset
<1>5. \A r \in On(k) : Weight'[r] \in Nat /\ Weight[r] \in Nat
  BY <1>1, <1>2
<1>6. \A r \in On(k)' : Weight'[r] <= Weight[r]
  BY <1>1, <1>2, <1>3
<1>7. SumOver(Weight', On(k)') <= SumOver(Weight, On(k))
  BY <1>1, <1>3, <1>5, <1>6, SumGrows
<1> QED  BY <1>3, <1>4, <1>7

\* Opening adds one weight, and only where the draw was found to fit.
LEMMA OpensKeep ==
    ASSUME IInv, IsFiniteSet(Opened), OneCategoryEach, NEW r \in Reqs, Opens(r),
           NEW k \in Declared, SumOver(Weight, On(k)) <= Cap[k],
           Drawn(k) = SumOver(Weight, On(k))
    PROVE  /\ IsFiniteSet(On(k)')
           /\ SumOver(Weight', On(k)') <= Cap[k]
<1> DEFINE c == cmd[r].cart
<1>1. /\ On(k) \subseteq Opened /\ IsFiniteSet(On(k))
      /\ \A s \in Opened : Weight[s] \in Nat
  BY OnlyOpenedCounts
<1>2. c \in Carts /\ k \in Cats /\ r \notin On(k)
  BY <1>1, StaticData DEF Opens
<1>3. Total(c) \in Nat /\ Draw[c][k] \in Nat /\ Cap[k] \in Nat
  BY <1>2, TotalType, StaticData
<1>4. Weight' = Weight /\ Weight[r] = Total(c)
  BY DEF Opens, Weight
<1>5. On(k)' \subseteq On(k) \cup {r}
  <2>1. ASSUME NEW s \in On(k)', s # r  PROVE s \in On(k)
    BY <2>1 DEF On, Counted, Opens, ExpiresAt, IInv, TypeOK
  <2> QED  BY <2>1
<1>6. ASSUME r \in On(k)'
      PROVE  Weight[r] \in Nat /\ SumOver(Weight, On(k)) + Weight[r] <= Cap[k]
  <2>1. DominantCategory(c) = k
    BY <1>6 DEF On, Opens
  <2>2. Total(c) = Draw[c][k]
    BY <1>2, <2>1, TotalIsOneDraw
  <2>3. SumOver(Weight, On(k)) \in Nat
    BY <1>1, SumType
  <2>4. Draw[c][k] > 0 => Draw[c][k] <= Cap[k] - Drawn(k)
    BY <1>2 DEF Opens, EnvelopeSeal, CatsOf, DrawFits
  <2> QED  BY <1>3, <1>4, <2>2, <2>3, <2>4
<1>7. IsFiniteSet(On(k)') /\ SumOver(Weight, On(k)') <= Cap[k]
  <2>1. \A s \in On(k) : Weight[s] \in Nat
    BY <1>1
  <2> QED  BY <1>1, <1>2, <1>3, <1>5, <1>6, <2>1, StaysWithin
<1> QED  BY <1>4, <1>7

\* The envelope's invariant: finitely many rows, and each category within cap.
CapInv ==
    /\ IsFiniteSet(Opened)
    /\ \A k \in Declared : SumOver(Weight, On(k)) <= Cap[k]

\* Nothing is reserved at the start.
LEMMA CapInvInit == Init => CapInv
<1> SUFFICES ASSUME Init PROVE CapInv
  OBVIOUS
<1>1. Opened = {} /\ \A k : On(k) = {}
  BY DEF Init, Opened, Committed, On, Counted
<1>2. \A k \in Declared : Cap[k] \in Nat
  BY StaticData
<1> QED  BY <1>1, <1>2, SumEmpty, FS_EmptySet DEF CapInv

\* Every step keeps what is reserved within the cap.
LEMMA CapInvKept ==
    OneCategoryEach /\ IInv /\ CapInv /\ [Next]_vars => CapInv'
<1> SUFFICES ASSUME OneCategoryEach, IInv, CapInv, [Next]_vars  PROVE CapInv'
  OBVIOUS
<1>1. IsFiniteSet(Opened) /\ \A k \in Declared : SumOver(Weight, On(k)) <= Cap[k]
  BY DEF CapInv
<1>2. CASE Lapses
  <2>1. IsFiniteSet(Opened')
    BY <1>1, <1>2 DEF Lapses
  <2>2. ASSUME NEW k \in Declared  PROVE SumOver(Weight', On(k)') <= Cap[k]
    <3>1. /\ IsFiniteSet(On(k)') /\ On(k)' \subseteq On(k)
          /\ SumOver(Weight', On(k)') <= SumOver(Weight, On(k))
      BY <1>1, <1>2, LapsesKeep
    <3>2. SumOver(Weight, On(k)) <= Cap[k] /\ Cap[k] \in Nat
      BY <1>1, StaticData
    <3>3. SumOver(Weight, On(k)) \in Nat
      BY <1>1, OnlyOpenedCounts, SumType
    <3>4. SumOver(Weight', On(k)') \in Nat
      <4>1. \A r \in On(k)' : Weight'[r] \in Nat
        BY <1>1, <1>2, <3>1, OnlyOpenedCounts DEF Lapses, Weight, Opened
      <4> QED  BY <3>1, <4>1, SumType
    <3> QED  BY <3>1, <3>2, <3>3, <3>4
  <2> QED  BY <2>1, <2>2 DEF CapInv
<1>3. ASSUME NEW r \in Reqs, Opens(r)  PROVE CapInv'
  <2>1. IsFiniteSet(Opened')
    BY <1>1, <1>3, FS_AddElement DEF Opens
  <2>2. ASSUME NEW k \in Declared  PROVE SumOver(Weight', On(k)') <= Cap[k]
    BY <1>1, <1>3, OnlyOpenedCounts, DrawnIsSum, OpensKeep
  <2> QED  BY <2>1, <2>2 DEF CapInv
<1> QED  BY <1>2, <1>3, StepKinds

\* No category is ever drawn beyond the cap the user signed, for any number of
\* concurrent verifications, when every cart draws on one category.
THEOREM CapHolds ==
    ASSUME OneCategoryEach
    PROVE  Spec => []CapNeverOverdrawn
<1>1. IInv /\ CapInv /\ [Next]_vars => CapInv'
  BY CapInvKept
<1>2. Spec => []CapInv
  BY <1>1, CapInvInit, Bookkeeping, PTL DEF Spec
<1>3. IInv /\ CapInv => CapNeverOverdrawn
  BY OnlyOpenedCounts, DrawnIsSum DEF CapInv, CapNeverOverdrawn
<1> QED  BY <1>2, <1>3, Bookkeeping, PTL

-----------------------------------------------------------------------------
(* Refinement.                                                              *)

\* Answering without writing a row declines; it never spends.
LEMMA AnswerDeclines ==
    ASSUME IInv, NEW r \in Reqs, NEW a, pc[r] # "done", Answer(r, a), UNCHANGED rows
    PROVE  \E rs \in SUBSET Reqs : Register!Decline(rs)
  <1>1. Register!Decline({r})
    BY DEF Register!Decline, Answer, rows, IInv, TypeOK
  <1> QED  BY <1>1

\* Moving between awaits is invisible to the register.
LEMMA SuspendStutters ==
    ASSUME IInv, NEW r \in Reqs, pc[r] # "done", NEW phase, phase # "done",
           pc' = [pc EXCEPT ![r] = phase], UNCHANGED rows
    PROVE  UNCHANGED Register!vars
  BY DEF Register!vars, rows, IInv, TypeOK

\* The write transaction spends the cart and its unit.
LEMMA WriteSpends ==
    ASSUME IInv, NEW r \in Reqs, pc[r] = "signing", NEW d, ~Conflict(r),
           WriteAll(r, d), Answer(r, Verdict(d))
    PROVE  \E c \in Carts : Register!Spend(r, c)
  <1>1. cmd[r].cart \in Carts
    BY DEF IInv, PhaseLinks, Commands
  <1>2. Register!Spend(r, cmd[r].cart)
    BY <1>1 DEF Register!Spend, Conflict, WriteAll, Answer, IInv, TypeOK
  <1> QED BY <1>1, <1>2 DEF Register!Spend

\* Every segment of the handler is one step of the register, or none.
LEMMA StepMaps ==
    ASSUME IInv, [Next]_vars PROVE [Register!Next]_(Register!vars)
  <1> USE DEF Register!Next
  <1>1. ASSUME NEW r \in Reqs, StageZero(r)
        PROVE  [Register!Next]_(Register!vars)
    BY <1>1, AnswerDeclines DEF StageZero
  <1>2. ASSUME NEW r \in Reqs, Present(r)
        PROVE  [Register!Next]_(Register!vars)
    <2>1. pc[r] # "done" /\ UNCHANGED rows
      BY <1>2 DEF Present
    <2>2. (\E a : Answer(r, a)) \/ pc' = [pc EXCEPT ![r] = "risk"]
      BY <1>2 DEF Present
    <2> QED BY <2>1, <2>2, AnswerDeclines, SuspendStutters
  <1>3. ASSUME NEW r \in Reqs, Evaluate(r)
        PROVE  [Register!Next]_(Register!vars)
    BY <1>3, AnswerDeclines, SuspendStutters DEF Evaluate
  <1>4. ASSUME NEW r \in Reqs, Commit(r)
        PROVE  [Register!Next]_(Register!vars)
    <2>1. CASE Refusal(r) /\ UNCHANGED rows
      <3>1. \E a : Answer(r, a)
        BY <2>1 DEF Refusal
      <3> QED BY <1>4, <2>1, <3>1, AnswerDeclines DEF Commit
    <2>2. CASE ~(Refusal(r) /\ UNCHANGED rows)
      BY <1>4, <2>2, WriteSpends DEF Commit
    <2> QED BY <2>1, <2>2
  <1>5. CASE (\E c \in Carts : Drift(c)) \/ Tick \/ UNCHANGED vars
    BY <1>5 DEF Drift, Tick, vars, rows, Register!vars
  <1> QED BY <1>1, <1>2, <1>3, <1>4, <1>5 DEF Next, Step

\* POST /verify-cart implements the atomic cart register, for any number of
\* concurrent presentations.
THEOREM ImplementsRegister == Spec => RegisterSpec
  <1>1. Init => Register!Init
    BY DEF Init, Register!Init
  <1>2. IInv /\ [Next]_vars => [Register!Next]_(Register!vars)
    BY StepMaps
  <1> QED BY <1>1, <1>2, Bookkeeping, PTL DEF Spec, RegisterSpec, Register!Spec
=============================================================================
