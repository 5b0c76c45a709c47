------------------------ MODULE Conversation_proofs -------------------------
(***************************************************************************)
(* Theorems about one host's conversations, for any conversations, turns,  *)
(* caps and kinds (ChatLanes), and about the bill of one of them, for any  *)
(* shelf and any number of sentences, taps, holds, failures and reloads    *)
(* (Bill): a run that waits can be answered, a closing host closes under   *)
(* no run, no cart is paid that was not held for, a deleted conversation   *)
(* pays nothing more, a hold buys one cart and a second only for a turn    *)
(* that overlapped the first, and the panel shows the payment of the       *)
(* transaction it was opened on.                                           *)
(***************************************************************************)
EXTENDS ChatLanes, Bill, Basics

(***************************************************************************)
(* The lanes.  One request may admit a turn, prune lanes, abort two runs   *)
(* and start what stood in line, all before the host does anything else.   *)
(* So the invariant (Stands) is said of a host value, and each operator of *)
(* the model is shown to keep it, whatever other operator made that value: *)
(* LaneFor, PruneLanes, Commence, Queue, Settle, the gates, and Drain,     *)
(* which is an induction over the line, on the function a fold is.         *)
(* An action is then a composition of them (Become).                       *)
(*                                                                         *)
(* Stands says of a run that is under way that its lane runs it and no     *)
(* other, that the gate it stands at has it as its waiter, and that its    *)
(* cart gate was not signed before it was held there (Signless). Down      *)
(* says what a host that closes has put behind it.                         *)
(***************************************************************************)

Hosts == [turn: [Turns -> TurnRecord], line: Seq(Turns), held: Seq(Lanes),
          lane: [Lanes -> LaneRecord]]

CalmIn(h, c) ==
    \A t \in Turns : h.turn[t].chat = c => h.turn[t].after = None

\* The stages before a cart is held for: what is signed there must be new.
Signless(r) ==
    \/ r.stage = "shopping"
    \/ r.kind = "say" /\ r.stage \in {"thinking", "intent", "issuing"}

\* What any turn keeps, whatever its lane does.
Kept(r) ==
    /\ r.stage \in {"unasked", "line"} => ~r.gone /\ r.after = None
    /\ r.stage = "behind" => r.after # None

\* What a turn that is not finished may say of its lane, m.
Placed(r, m, held_) ==
    /\ r.chat \in Chats /\ r.lane \in Lanes /\ m.chat = r.chat
    /\ r.gone => r.lane \notin held_

\* What its lane owes a run of a calm chat.
Owed(t, r, m, held_) ==
    /\ m.running = t
    /\ r.gone \/ r.lane \in held_
    /\ r.stage = "intent" /\ r.lane \in held_ => m.intent.waiter = t
    /\ r.stage = "cart" /\ r.lane \in held_ => m.cart.waiter = t
    /\ Signless(r) => ~m.cart.released

TurnStands(h, t) ==
    /\ Kept(h.turn[t])
    /\ Unfinished(h, t) =>
          Placed(h.turn[t], h.lane[h.turn[t].lane], Range(h.held))
    /\ Live(h, t) /\ CalmIn(h, h.turn[t].chat) =>
          Owed(t, h.turn[t], h.lane[h.turn[t].lane], Range(h.held))

\* A gate's waiter is a run of that lane that stands at that gate.
GateStands(h, l) ==
    /\ h.lane[l].intent.waiter # None =>
          /\ h.turn[h.lane[l].intent.waiter].stage = "intent"
          /\ h.turn[h.lane[l].intent.waiter].lane = l
    /\ h.lane[l].cart.waiter # None =>
          /\ h.turn[h.lane[l].cart.waiter].stage = "cart"
          /\ h.turn[h.lane[l].cart.waiter].lane = l

LineStands(h) ==
    /\ \A i \in DOMAIN h.line : /\ h.turn[h.line[i]].stage = "line"
                                /\ h.turn[h.line[i]].chat \in Chats
    /\ \A i, j \in DOMAIN h.line : h.line[i] = h.line[j] => i = j

HeldStands(h) ==
    /\ \A i, j \in DOMAIN h.held : h.held[i] = h.held[j] => i = j
    /\ Len(h.held) <= MaxHeld

Stands(h) ==
    /\ h \in Hosts
    /\ \A t \in Turns : TurnStands(h, t)
    /\ \A l \in Lanes : GateStands(h, l)
    /\ LineStands(h)
    /\ HeldStands(h)

-----------------------------------------------------------------------------
(* Data.                                                                   *)

LEMMA Bounds ==
    /\ MaxTurns \in Nat /\ Cap \in Nat /\ MaxHeld \in Nat
    /\ MaxTurns > 0 /\ Cap > 0 /\ MaxHeld > 0 /\ Cap <= MaxHeld
    /\ None \notin Chats /\ None \notin Nat
    /\ Turns \subseteq Nat /\ Lanes \subseteq Nat
    /\ None \notin Turns /\ None \notin Lanes
<1>1. /\ MaxTurns \in Nat \ {0} /\ Cap \in Nat \ {0} /\ MaxHeld \in Nat \ {0}
      /\ Cap <= MaxHeld /\ None \notin Chats /\ None \notin Nat
  BY LaneBounds
<1>2. Turns \subseteq Nat /\ Lanes \subseteq Nat
  BY <1>1 DEF Turns, Lanes
<1>3. None \notin Turns /\ None \notin Lanes
  BY <1>1, <1>2
<1>4. MaxTurns > 0 /\ Cap > 0 /\ MaxHeld > 0
  BY <1>1
<1> QED  BY <1>1, <1>2, <1>3, <1>4

\* A sequence with one element taken out.
LEMMA RemoveAtShape ==
    ASSUME NEW S, NEW q \in Seq(S), NEW i \in DOMAIN q
    PROVE  /\ RemoveAt(q, i) \in Seq(S) /\ Len(RemoveAt(q, i)) = Len(q) - 1
           /\ \A j \in 1..(Len(q) - 1) :
                 RemoveAt(q, i)[j] = IF j < i THEN q[j] ELSE q[j + 1]
<1> DEFINE a == SubSeq(q, 1, i - 1)
           b == SubSeq(q, i + 1, Len(q))
<1>1. DOMAIN q = 1..Len(q) /\ Len(q) \in Nat /\ i \in 1..Len(q) /\ \A j \in 1..Len(q) : q[j] \in S
  OBVIOUS
<1>2. RemoveAt(q, i) = a \o b
  BY DEF RemoveAt
<1>3. /\ a \in Seq(S) /\ Len(a) = i - 1
      /\ \A j \in 1..(i - 1) : a[j] = q[j]
  <2>1. 1 \in Int /\ i - 1 \in Int /\ \A j \in 1..(i - 1) : q[j] \in S
    BY <1>1
  <2>2. /\ a \in Seq(S) /\ Len(a) = IF 1 <= i - 1 THEN (i - 1) - 1 + 1 ELSE 0
        /\ \A j \in 1..((i - 1) - 1 + 1) : a[j] = q[1 + j - 1]
    BY <2>1, SubSeqProperties
  <2> QED  BY <1>1, <2>2
<1>4. /\ b \in Seq(S) /\ Len(b) = Len(q) - i
      /\ \A j \in 1..(Len(q) - i) : b[j] = q[i + j]
  <2>1. i + 1 \in Int /\ Len(q) \in Int /\ \A j \in (i + 1)..Len(q) : q[j] \in S
    BY <1>1
  <2>2. /\ b \in Seq(S) /\ Len(b) = IF i + 1 <= Len(q) THEN Len(q) - (i + 1) + 1 ELSE 0
        /\ \A j \in 1..(Len(q) - (i + 1) + 1) : b[j] = q[(i + 1) + j - 1]
    BY <2>1, SubSeqProperties
  <2> HIDE DEF b
  <2>3. Len(q) - (i + 1) + 1 = Len(q) - i
    BY <1>1
  <2>4. \A j \in 1..(Len(q) - i) : (i + 1) + j - 1 = i + j
    BY <1>1
  <2>5. \A j \in 1..(Len(q) - i) : b[j] = q[i + j]
    BY <2>2, <2>3, <2>4
  <2>6. Len(b) = Len(q) - i
    BY <1>1, <2>2, <2>3
  <2> QED  BY <2>2, <2>5, <2>6
<1> HIDE DEF a, b
<1>5. /\ a \o b \in Seq(S) /\ Len(a \o b) = Len(q) - 1
      /\ \A j \in 1..(Len(q) - 1) : (a \o b)[j] = IF j <= i - 1 THEN a[j] ELSE b[j - (i - 1)]
  <2>1. /\ a \o b \in Seq(S) /\ Len(a \o b) = Len(a) + Len(b)
        /\ \A j \in 1..(Len(a) + Len(b)) :
              (a \o b)[j] = IF j <= Len(a) THEN a[j] ELSE b[j - Len(a)]
    BY <1>3, <1>4, ConcatProperties
  <2>2. Len(a) + Len(b) = Len(q) - 1 /\ Len(a) = i - 1
    BY <1>1, <1>3, <1>4
  <2> QED  BY <2>1, <2>2
<1>6. ASSUME NEW j \in 1..(Len(q) - 1)
      PROVE  (a \o b)[j] = IF j < i THEN q[j] ELSE q[j + 1]
  <2>1. CASE j <= i - 1
    <3>1. j \in 1..(i - 1) /\ j < i
      BY <1>1, <2>1
    <3> QED  BY <1>3, <1>5, <2>1, <3>1
  <2>2. CASE ~(j <= i - 1)
    <3>1. j - (i - 1) \in 1..(Len(q) - i) /\ i + (j - (i - 1)) = j + 1 /\ ~(j < i)
      BY <1>1, <2>2
    <3> QED  BY <1>4, <1>5, <2>2, <3>1
  <2> QED  BY <2>1, <2>2
<1> QED  BY <1>2, <1>5, <1>6

\* A list without repetitions, less one: no repetition, and that one is gone.
LEMMA RemoveAtOnce ==
    ASSUME NEW S, NEW q \in Seq(S), NEW i \in DOMAIN q,
           \A j, k \in DOMAIN q : q[j] = q[k] => j = k
    PROVE  /\ \A j, k \in DOMAIN RemoveAt(q, i) :
                 RemoveAt(q, i)[j] = RemoveAt(q, i)[k] => j = k
           /\ \A j \in DOMAIN RemoveAt(q, i) :
                 \E k \in DOMAIN q : RemoveAt(q, i)[j] = q[k]
           /\ Range(RemoveAt(q, i)) = Range(q) \ {q[i]}
<1> DEFINE r == RemoveAt(q, i)
<1>1. /\ DOMAIN q = 1..Len(q) /\ Len(q) \in Nat
      /\ DOMAIN r = 1..(Len(q) - 1)
      /\ \A j \in 1..(Len(q) - 1) : r[j] = IF j < i THEN q[j] ELSE q[j + 1]
  BY RemoveAtShape
<1> HIDE DEF r
<1> DEFINE from(j) == IF j < i THEN j ELSE j + 1
<1>2. \A j \in DOMAIN r : from(j) \in DOMAIN q /\ from(j) # i /\ r[j] = q[from(j)]
  BY <1>1
<1>3. \A j, k \in DOMAIN r : from(j) = from(k) => j = k
  BY <1>1
<1>4. \A k \in DOMAIN q : k # i => \E j \in DOMAIN r : from(j) = k
  <2> SUFFICES ASSUME NEW k \in DOMAIN q, k # i
               PROVE  \E j \in DOMAIN r : from(j) = k
    OBVIOUS
  <2>1. CASE k < i
    <3>1. k \in DOMAIN r /\ from(k) = k
      BY <1>1, <2>1
    <3> QED  BY <3>1
  <2>2. CASE ~(k < i)
    <3>1. k - 1 \in DOMAIN r /\ from(k - 1) = k
      BY <1>1, <2>2
    <3> QED  BY <3>1
  <2> QED  BY <2>1, <2>2
<1> HIDE DEF from
<1>5. Range(r) = Range(q) \ {q[i]}
  <2>1. \A x \in Range(r) : x \in Range(q) \ {q[i]}
    BY <1>2 DEF Range
  <2>2. \A x \in Range(q) \ {q[i]} : x \in Range(r)
    BY <1>2, <1>4 DEF Range
  <2> QED  BY <2>1, <2>2
<1> QED  BY <1>2, <1>3, <1>5 DEF r

\* One more at the end.
LEMMA AppendOnce ==
    ASSUME NEW S, NEW q \in Seq(S), NEW x \in S, x \notin Range(q),
           \A j, k \in DOMAIN q : q[j] = q[k] => j = k
    PROVE  /\ Append(q, x) \in Seq(S) /\ Len(Append(q, x)) = Len(q) + 1
           /\ \A j \in 1..Len(q) : Append(q, x)[j] = q[j]
           /\ Append(q, x)[Len(q) + 1] = x
           /\ \A j, k \in DOMAIN Append(q, x) :
                 Append(q, x)[j] = Append(q, x)[k] => j = k
           /\ Range(Append(q, x)) = Range(q) \cup {x}
<1> DEFINE r == Append(q, x)
<1>1. /\ DOMAIN q = 1..Len(q) /\ Len(q) \in Nat
      /\ r \in Seq(S) /\ Len(r) = Len(q) + 1 /\ DOMAIN r = 1..(Len(q) + 1)
      /\ \A j \in 1..Len(q) : r[j] = q[j]
      /\ r[Len(q) + 1] = x
  OBVIOUS
<1> HIDE DEF r
<1>2. \A j \in 1..Len(q) : q[j] # x
  BY <1>1 DEF Range
<1>3. \A j, k \in DOMAIN r : r[j] = r[k] => j = k
  BY <1>1, <1>2
<1>4. Range(r) = Range(q) \cup {x}
  BY <1>1 DEF Range
<1> QED  BY <1>1, <1>3, <1>4 DEF r

\* A list without repetitions is as long as what it holds.
LEMMA CountOf ==
    ASSUME NEW S, NEW q \in Seq(S),
           \A j, k \in DOMAIN q : q[j] = q[k] => j = k
    PROVE  IsFiniteSet(Range(q)) /\ Cardinality(Range(q)) = Len(q)
<1>1. DOMAIN q = 1..Len(q) /\ Len(q) \in Nat
  OBVIOUS
<1>2. IsFiniteSet(1..Len(q)) /\ Cardinality(1..Len(q)) = Len(q)
  BY <1>1, FS_Interval
<1>3. q \in Surjection(1..Len(q), Range(q)) /\ q \in Injection(1..Len(q), Range(q))
  BY <1>1 DEF Range, Surjection, Injection, IsInjective
<1> QED  BY <1>2, <1>3, FS_Surjection

-----------------------------------------------------------------------------
(* One turn and one lane change.  Every call below is a chain of these.    *)

Local(h, k, t, l) ==
    /\ k \in Hosts /\ k.line = h.line /\ k.held = h.held
    /\ \A u \in Turns \ {t} : k.turn[u] = h.turn[u]
    /\ \A b \in Lanes \ {l} : k.lane[b] = h.lane[b]

\* A live stage, or one behind another.
Going(s) == s \in Waits \cup Works
Pending(s) == Going(s) \/ s = "behind"

\* The change respects the invariant if the turn and its lane still agree and
\* no other run of a calm chat was on that lane.
LEMMA LocalStands ==
    ASSUME NEW h, Stands(h), NEW t \in Turns, NEW l \in Lanes,
           NEW k, Local(h, k, t, l),
           NEW r, r = k.turn[t], NEW m, m = k.lane[l],
           t \notin Range(h.line),
           r.chat = h.turn[t].chat,
           h.turn[t].after # None => r.after # None,
           m.chat = h.lane[l].chat,
           \A u \in Turns \ {t} : Live(h, u) /\ h.turn[u].lane = l =>
              ~CalmIn(k, h.turn[u].chat),
           \A b \in Lanes \ {l} : /\ h.lane[b].intent.waiter # t
                                  /\ h.lane[b].cart.waiter # t,
           m.intent.waiter # None =>
              \/ m.intent.waiter = t /\ r.stage = "intent" /\ r.lane = l
              \/ m.intent.waiter # t /\ m.intent.waiter = h.lane[l].intent.waiter,
           m.cart.waiter # None =>
              \/ m.cart.waiter = t /\ r.stage = "cart" /\ r.lane = l
              \/ m.cart.waiter # t /\ m.cart.waiter = h.lane[l].cart.waiter,
           Kept(r),
           Pending(r.stage) => r.lane = l /\ Placed(r, m, Range(h.held)),
           Going(r.stage) /\ CalmIn(k, r.chat) => Owed(t, r, m, Range(h.held))
    PROVE  /\ Stands(k)
           /\ \A c : CalmIn(k, c) => CalmIn(h, c)
<1>0. h \in Hosts
  BY DEF Stands
<1>1. /\ k \in Hosts /\ k.line = h.line /\ k.held = h.held
      /\ k.turn[t] = r /\ k.lane[l] = m
      /\ \A u \in Turns \ {t} : k.turn[u] = h.turn[u]
      /\ \A b \in Lanes \ {l} : k.lane[b] = h.lane[b]
  BY DEF Local
<1>2. /\ h.turn \in [Turns -> TurnRecord] /\ h.lane \in [Lanes -> LaneRecord]
      /\ h.line \in Seq(Turns)
  BY <1>0 DEF Hosts
<1>3. \A c : CalmIn(k, c) => CalmIn(h, c)
  BY <1>1 DEF CalmIn
<1>4. ASSUME NEW u \in Turns  PROVE TurnStands(k, u)
  <2>1. CASE u = t
    BY <1>1, <2>1 DEF TurnStands, Unfinished, Live, Going, Pending
  <2>2. CASE u # t
    <3>1. k.turn[u] = h.turn[u] /\ TurnStands(h, u)
      BY <1>1, <2>2 DEF Stands
    <3>2. Unfinished(k, u) <=> Unfinished(h, u)
      BY <3>1 DEF Unfinished, Live
    <3>3. Live(k, u) <=> Live(h, u)
      BY <3>1 DEF Live
    <3>4. Kept(k.turn[u])
      BY <3>1 DEF TurnStands
    <3>5. ASSUME Unfinished(k, u)
          PROVE  Placed(k.turn[u], k.lane[k.turn[u].lane], Range(k.held))
      <4>1. Placed(h.turn[u], h.lane[h.turn[u].lane], Range(h.held))
        BY <3>1, <3>2, <3>5 DEF TurnStands
      <4>2. h.turn[u].lane \in Lanes
        BY <4>1 DEF Placed
      <4>3. k.lane[h.turn[u].lane].chat = h.lane[h.turn[u].lane].chat
        BY <1>1, <4>2
      <4> QED  BY <1>1, <3>1, <4>1, <4>3 DEF Placed
    <3>6. ASSUME Live(k, u), CalmIn(k, k.turn[u].chat)
          PROVE  Owed(u, k.turn[u], k.lane[k.turn[u].lane], Range(k.held))
      <4>1. Live(h, u) /\ CalmIn(h, h.turn[u].chat) /\ Unfinished(h, u)
        BY <1>3, <3>1, <3>3, <3>6 DEF Unfinished
      <4>2. Owed(u, h.turn[u], h.lane[h.turn[u].lane], Range(h.held))
        BY <3>1, <4>1 DEF TurnStands
      <4>3. h.turn[u].lane \in Lanes
        BY <3>1, <4>1 DEF TurnStands, Placed
      <4>4. h.turn[u].lane # l
        BY <2>2, <3>1, <3>6, <4>1
      <4>5. k.lane[h.turn[u].lane] = h.lane[h.turn[u].lane]
        BY <1>1, <4>3, <4>4
      <4> QED  BY <1>1, <3>1, <4>2, <4>5
    <3> QED  BY <3>4, <3>5, <3>6 DEF TurnStands
  <2> QED  BY <2>1, <2>2
<1>5. ASSUME NEW b \in Lanes  PROVE GateStands(k, b)
  <2>1. /\ GateStands(h, b)
        /\ h.lane[b].intent.waiter # None => h.lane[b].intent.waiter \in Turns
        /\ h.lane[b].cart.waiter # None => h.lane[b].cart.waiter \in Turns
    <3>1. h.lane[b] \in LaneRecord
      BY <1>2
    <3> QED  BY <3>1 DEF LaneRecord, Gate, Stands
  <2>2. CASE b # l
    <3>1. k.lane[b] = h.lane[b]
      BY <1>1, <2>2
    <3>2. h.lane[b].intent.waiter # t /\ h.lane[b].cart.waiter # t
      BY <2>2
    <3>3. \A u \in Turns \ {t} : k.turn[u] = h.turn[u]
      BY <1>1
    <3> QED  BY <2>1, <3>1, <3>2, <3>3 DEF GateStands
  <2>3. CASE b = l
    <3>1. k.lane[b] = m /\ h.lane[b] = h.lane[l]
      BY <1>1, <2>3
    <3>2. ASSUME m.intent.waiter # None
          PROVE  /\ k.turn[m.intent.waiter].stage = "intent"
                 /\ k.turn[m.intent.waiter].lane = b
      <4>1. CASE m.intent.waiter = t /\ r.stage = "intent" /\ r.lane = l
        BY <1>1, <2>3, <4>1
      <4>2. CASE m.intent.waiter # t /\ m.intent.waiter = h.lane[b].intent.waiter
        <5>1. m.intent.waiter \in Turns \ {t}
          BY <2>1, <3>2, <4>2
        <5> QED  BY <1>1, <2>1, <3>2, <4>2, <5>1 DEF GateStands
      <4> QED  BY <2>3, <3>2, <4>1, <4>2
    <3>3. ASSUME m.cart.waiter # None
          PROVE  /\ k.turn[m.cart.waiter].stage = "cart"
                 /\ k.turn[m.cart.waiter].lane = b
      <4>1. CASE m.cart.waiter = t /\ r.stage = "cart" /\ r.lane = l
        BY <1>1, <2>3, <4>1
      <4>2. CASE m.cart.waiter # t /\ m.cart.waiter = h.lane[b].cart.waiter
        <5>1. m.cart.waiter \in Turns \ {t}
          BY <2>1, <3>3, <4>2
        <5> QED  BY <1>1, <2>1, <3>3, <4>2, <5>1 DEF GateStands
      <4> QED  BY <2>3, <3>3, <4>1, <4>2
    <3> QED  BY <3>1, <3>2, <3>3 DEF GateStands
  <2> QED  BY <2>2, <2>3
<1>6. LineStands(k)
  <2>1. LineStands(h) /\ DOMAIN h.line = 1..Len(h.line)
    BY <1>2 DEF Stands
  <2>2. \A i \in DOMAIN h.line : h.line[i] \in Turns \ {t}
    BY <1>2 DEF Range
  <2> QED  BY <1>1, <2>1, <2>2 DEF LineStands
<1>7. HeldStands(k)
  BY <1>1 DEF Stands, HeldStands
<1> QED  BY <1>1, <1>3, <1>4, <1>5, <1>6, <1>7 DEF Stands


-----------------------------------------------------------------------------
(* What the operations of a turn change.                                   *)

LEMMA StageNames ==
    /\ Going("thinking") /\ Going("issuing") /\ Going("shopping")
    /\ Going("errand") /\ Going("paying") /\ Going("intent") /\ Going("cart")
    /\ Pending("behind") /\ \A s : Going(s) => Pending(s)
    /\ {"done", "dropped", "line", "unasked", "behind"} \subseteq Stages
    /\ \A s : Pending(s) => s \in Stages
    /\ \A s : Going(s) => s \notin {"unasked", "line", "behind", "done", "dropped"}
BY DEF Going, Pending, Stages, Waits, Works

LEMMA Fields ==
    /\ \A r \in TurnRecord :
          /\ r.chat \in Chats \cup {None} /\ r.kind \in TurnKinds \cup {None}
          /\ r.lane \in Lanes \cup {None} /\ r.after \in Turns \cup {None}
          /\ r.stage \in Stages /\ r.gone \in BOOLEAN
    /\ \A m \in LaneRecord :
          /\ m.chat \in Chats \cup {None} /\ m.running \in Turns \cup {None}
          /\ m.intent \in Gate /\ m.cart \in Gate /\ m.seated \in BOOLEAN
          /\ m.proposal \in BOOLEAN /\ m.parked \in BOOLEAN
    /\ \A g \in Gate : g.released \in BOOLEAN /\ g.waiter \in Turns \cup {None}
    /\ ClosedGate \in Gate /\ ~ClosedGate.released /\ ClosedGate.waiter = None
    /\ \A h \in Hosts : /\ h.turn \in [Turns -> TurnRecord]
                        /\ h.lane \in [Lanes -> LaneRecord]
                        /\ h.line \in Seq(Turns) /\ h.held \in Seq(Lanes)
<1>1. \A r \in TurnRecord :
          /\ r.chat \in Chats \cup {None} /\ r.kind \in TurnKinds \cup {None}
          /\ r.lane \in Lanes \cup {None} /\ r.after \in Turns \cup {None}
          /\ r.stage \in Stages /\ r.gone \in BOOLEAN
  BY DEF TurnRecord
<1>2. \A m \in LaneRecord :
          /\ m.chat \in Chats \cup {None} /\ m.running \in Turns \cup {None}
          /\ m.intent \in Gate /\ m.cart \in Gate /\ m.seated \in BOOLEAN
          /\ m.proposal \in BOOLEAN /\ m.parked \in BOOLEAN
  BY DEF LaneRecord
<1>3. /\ \A g \in Gate : g.released \in BOOLEAN /\ g.waiter \in Turns \cup {None}
      /\ ClosedGate \in Gate /\ ~ClosedGate.released /\ ClosedGate.waiter = None
  BY DEF Gate, ClosedGate
<1>4. \A h \in Hosts : /\ h.turn \in [Turns -> TurnRecord]
                       /\ h.lane \in [Lanes -> LaneRecord]
                       /\ h.line \in Seq(Turns) /\ h.held \in Seq(Lanes)
  BY DEF Hosts
<1> QED  BY <1>1, <1>2, <1>3, <1>4

\* A turn's record with another stage.
LEMMA StageSet ==
    ASSUME NEW r \in TurnRecord, NEW s \in Stages, NEW n, n = [r EXCEPT !.stage = s]
    PROVE  /\ n \in TurnRecord /\ n.stage = s /\ n.chat = r.chat /\ n.kind = r.kind
           /\ n.lane = r.lane /\ n.after = r.after /\ n.gone = r.gone
<1>1. [r EXCEPT !.stage = s] \in TurnRecord
  BY DEF TurnRecord
<1>2. /\ n.stage = s /\ n.chat = r.chat /\ n.kind = r.kind
      /\ n.lane = r.lane /\ n.after = r.after /\ n.gone = r.gone
  BY DEF TurnRecord
<1> QED  BY <1>1, <1>2

\* Another record for one turn, for one lane, for both.
WithTurn(h, t, r) == [h EXCEPT !.turn[t] = r]
WithLane(h, l, m) == [h EXCEPT !.lane[l] = m]
With(h, t, r, l, m) == [h EXCEPT !.turn[t] = r, !.lane[l] = m]

LEMMA TurnSet ==
    ASSUME NEW h \in Hosts, NEW t \in Turns, NEW r \in TurnRecord,
           NEW k, k = WithTurn(h, t, r)
    PROVE  /\ k \in Hosts /\ k.turn[t] = r
           /\ k.lane = h.lane /\ k.line = h.line /\ k.held = h.held
           /\ \A u \in Turns \ {t} : k.turn[u] = h.turn[u]
<1> DEFINE f == [h.turn EXCEPT ![t] = r]
<1>1. /\ f \in [Turns -> TurnRecord] /\ f[t] = r
      /\ \A u \in Turns \ {t} : f[u] = h.turn[u]
  BY Fields
<1>2. k = [h EXCEPT !.turn = f]
  BY DEF WithTurn
<1> HIDE DEF f
<1>3. [h EXCEPT !.turn = f] \in Hosts
  BY <1>1 DEF Hosts
<1>4. k.turn = f /\ k.lane = h.lane /\ k.line = h.line /\ k.held = h.held
  BY <1>2 DEF Hosts
<1> QED  BY <1>1, <1>2, <1>3, <1>4

LEMMA LaneSet ==
    ASSUME NEW h \in Hosts, NEW l \in Lanes, NEW m \in LaneRecord,
           NEW k, k = WithLane(h, l, m)
    PROVE  /\ k \in Hosts /\ k.lane[l] = m
           /\ k.turn = h.turn /\ k.line = h.line /\ k.held = h.held
           /\ \A b \in Lanes \ {l} : k.lane[b] = h.lane[b]
<1> DEFINE g == [h.lane EXCEPT ![l] = m]
<1>1. /\ g \in [Lanes -> LaneRecord] /\ g[l] = m
      /\ \A b \in Lanes \ {l} : g[b] = h.lane[b]
  BY Fields
<1>2. k = [h EXCEPT !.lane = g]
  BY DEF WithLane
<1> HIDE DEF g
<1>3. [h EXCEPT !.lane = g] \in Hosts
  BY <1>1 DEF Hosts
<1>4. k.lane = g /\ k.turn = h.turn /\ k.line = h.line /\ k.held = h.held
  BY <1>2 DEF Hosts
<1> QED  BY <1>1, <1>2, <1>3, <1>4

LEMMA BothSet ==
    ASSUME NEW h \in Hosts, NEW t \in Turns, NEW r \in TurnRecord,
           NEW l \in Lanes, NEW m \in LaneRecord, NEW k, k = With(h, t, r, l, m)
    PROVE  /\ Local(h, k, t, l) /\ k.turn[t] = r /\ k.lane[l] = m
<1> DEFINE n == WithTurn(h, t, r)
<1>1. /\ n \in Hosts /\ n.turn[t] = r
      /\ n.lane = h.lane /\ n.line = h.line /\ n.held = h.held
      /\ \A u \in Turns \ {t} : n.turn[u] = h.turn[u]
  BY TurnSet
<1>2. k = WithLane(n, l, m)
  BY DEF With, WithLane, WithTurn, Hosts
<1> HIDE DEF n
<1>3. /\ k \in Hosts /\ k.lane[l] = m
      /\ k.turn = n.turn /\ k.line = n.line /\ k.held = n.held
      /\ \A b \in Lanes \ {l} : k.lane[b] = n.lane[b]
  BY <1>1, <1>2, LaneSet
<1> QED  BY <1>1, <1>3 DEF Local

LEMMA MovedShape ==
    ASSUME NEW h \in Hosts, NEW t \in Turns, NEW s \in Stages,
           NEW k, k = Moved(h, t, s)
    PROVE  /\ k \in Hosts /\ k.lane = h.lane /\ k.line = h.line /\ k.held = h.held
           /\ \A u \in Turns \ {t} : k.turn[u] = h.turn[u]
           /\ k.turn[t].stage = s /\ k.turn[t].chat = h.turn[t].chat
           /\ k.turn[t].kind = h.turn[t].kind /\ k.turn[t].lane = h.turn[t].lane
           /\ k.turn[t].after = h.turn[t].after /\ k.turn[t].gone = h.turn[t].gone
<1> DEFINE r == [h.turn[t] EXCEPT !.stage = s]
<1>1. h.turn[t] \in TurnRecord
  BY Fields
<1>2. /\ r \in TurnRecord /\ r.stage = s /\ r.chat = h.turn[t].chat
      /\ r.kind = h.turn[t].kind /\ r.lane = h.turn[t].lane
      /\ r.after = h.turn[t].after /\ r.gone = h.turn[t].gone
  BY <1>1, StageSet
<1>3. k = WithTurn(h, t, r)
  BY DEF Moved, WithTurn
<1> HIDE DEF r
<1>4. /\ k \in Hosts /\ k.turn[t] = r
      /\ k.lane = h.lane /\ k.line = h.line /\ k.held = h.held
      /\ \A u \in Turns \ {t} : k.turn[u] = h.turn[u]
  BY <1>2, <1>3, TurnSet
<1> QED  BY <1>2, <1>4

\* Only lane l changes.
LaneOnly(h, k, l) ==
    /\ k \in Hosts /\ k.turn = h.turn /\ k.line = h.line /\ k.held = h.held
    /\ \A b \in Lanes \ {l} : k.lane[b] = h.lane[b]

LEMMA FreshTableShape ==
    ASSUME NEW h \in Hosts, NEW l \in Lanes, NEW k, k = FreshTable(h, l)
    PROVE  /\ LaneOnly(h, k, l)
           /\ k.lane[l].chat = h.lane[l].chat /\ k.lane[l].running = h.lane[l].running
           /\ k.lane[l].intent = h.lane[l].intent /\ k.lane[l].cart = ClosedGate
<1> DEFINE n == [h.lane[l] EXCEPT !.cart = ClosedGate, !.proposal = FALSE,
                                  !.seated = TRUE]
<1>1. h.lane[l] \in LaneRecord /\ ClosedGate \in Gate
  BY Fields
<1>2. n \in LaneRecord
  BY <1>1 DEF LaneRecord
<1>3. /\ n.chat = h.lane[l].chat /\ n.running = h.lane[l].running
      /\ n.intent = h.lane[l].intent /\ n.cart = ClosedGate
  BY <1>1 DEF LaneRecord
<1>4. k = WithLane(h, l, n)
  BY DEF FreshTable, WithLane
<1> HIDE DEF n
<1>5. /\ k \in Hosts /\ k.lane[l] = n
      /\ k.turn = h.turn /\ k.line = h.line /\ k.held = h.held
      /\ \A b \in Lanes \ {l} : k.lane[b] = h.lane[b]
  BY <1>2, <1>4, LaneSet
<1> QED  BY <1>3, <1>5 DEF LaneOnly

LEMMA ReproposeShape ==
    ASSUME NEW h \in Hosts, NEW l \in Lanes, NEW k, k = Repropose(h, l)
    PROVE  /\ LaneOnly(h, k, l)
           /\ k.lane[l].chat = h.lane[l].chat /\ k.lane[l].running = h.lane[l].running
           /\ k.lane[l].intent = h.lane[l].intent /\ k.lane[l].cart = ClosedGate
<1> DEFINE n == [h.lane[l] EXCEPT !.cart = ClosedGate]
<1>1. h.lane[l] \in LaneRecord /\ ClosedGate \in Gate
  BY Fields
<1>2. n \in LaneRecord
  BY <1>1 DEF LaneRecord
<1>3. /\ n.chat = h.lane[l].chat /\ n.running = h.lane[l].running
      /\ n.intent = h.lane[l].intent /\ n.cart = ClosedGate
  BY <1>1 DEF LaneRecord
<1>4. k = WithLane(h, l, n)
  BY Zenon DEF Repropose, WithLane
<1> HIDE DEF n
<1>5. /\ k \in Hosts /\ k.lane[l] = n
      /\ k.turn = h.turn /\ k.line = h.line /\ k.held = h.held
      /\ \A b \in Lanes \ {l} : k.lane[b] = h.lane[b]
  BY <1>2, <1>4, LaneSet
<1> QED  BY <1>3, <1>5 DEF LaneOnly

\* What says of a turn that only its stage, and of its lane that only the cart
\* gate, was set on the way to its first wait.
LEMMA CommenceShape ==
    ASSUME NEW h \in Hosts, NEW t \in Turns, NEW l \in Lanes, l = h.turn[t].lane,
           NEW k, k = Commence(h, t)
    PROVE  /\ Local(h, k, t, l)
           /\ k.turn[t].stage \in {"thinking", "shopping", "errand"}
           /\ k.turn[t].chat = h.turn[t].chat /\ k.turn[t].kind = h.turn[t].kind
           /\ k.turn[t].lane = l
           /\ k.turn[t].after = h.turn[t].after /\ k.turn[t].gone = h.turn[t].gone
           /\ k.lane[l].chat = h.lane[l].chat /\ k.lane[l].running = h.lane[l].running
           /\ k.lane[l].intent = h.lane[l].intent
           /\ k.lane[l].cart \in {ClosedGate, h.lane[l].cart}
           /\ Signless(k.turn[t]) => ~k.lane[l].cart.released
<1> DEFINE kind == h.turn[t].kind
<1>0. {"thinking", "shopping", "errand"} \subseteq Stages
  BY DEF Stages, Works
<1>1. ASSUME NEW g, LaneOnly(h, g, l), g.lane[l].cart = ClosedGate,
             g.lane[l].chat = h.lane[l].chat, g.lane[l].running = h.lane[l].running,
             g.lane[l].intent = h.lane[l].intent,
             NEW s \in {"thinking", "shopping"}, k = Moved(g, t, s)
      PROVE  /\ Local(h, k, t, l) /\ k.turn[t].stage = s
             /\ k.turn[t].chat = h.turn[t].chat /\ k.turn[t].kind = h.turn[t].kind
             /\ k.turn[t].lane = l
             /\ k.turn[t].after = h.turn[t].after /\ k.turn[t].gone = h.turn[t].gone
             /\ k.lane[l].chat = h.lane[l].chat /\ k.lane[l].running = h.lane[l].running
             /\ k.lane[l].intent = h.lane[l].intent /\ k.lane[l].cart = ClosedGate
  <2>1. g \in Hosts /\ s \in Stages
    BY <1>0, <1>1 DEF LaneOnly
  <2>2. /\ k \in Hosts /\ k.lane = g.lane /\ k.line = g.line /\ k.held = g.held
        /\ \A u \in Turns \ {t} : k.turn[u] = g.turn[u]
        /\ k.turn[t].stage = s /\ k.turn[t].chat = g.turn[t].chat
        /\ k.turn[t].kind = g.turn[t].kind /\ k.turn[t].lane = g.turn[t].lane
        /\ k.turn[t].after = g.turn[t].after /\ k.turn[t].gone = g.turn[t].gone
    <3>1. k = Moved(g, t, s)
      BY <1>1
    <3> QED  BY ONLY <2>1, <3>1, MovedShape, t \in Turns
  <2> QED  BY <1>1, <2>2 DEF LaneOnly, Local
<1>2. CASE kind = "say"
  <2>1. k = Moved(FreshTable(h, l), t, "thinking")
    BY <1>2 DEF Commence
  <2>2. /\ LaneOnly(h, FreshTable(h, l), l)
        /\ FreshTable(h, l).lane[l].chat = h.lane[l].chat
        /\ FreshTable(h, l).lane[l].running = h.lane[l].running
        /\ FreshTable(h, l).lane[l].intent = h.lane[l].intent
        /\ FreshTable(h, l).lane[l].cart = ClosedGate
    BY FreshTableShape
  <2> QED  BY <1>1, <2>1, <2>2, Fields, Zenon
<1>3. CASE kind = "card" /\ h.lane[l].proposal
  <2>1. k = Moved(Repropose(h, l), t, "shopping")
    BY <1>3 DEF Commence
  <2>2. /\ LaneOnly(h, Repropose(h, l), l)
        /\ Repropose(h, l).lane[l].chat = h.lane[l].chat
        /\ Repropose(h, l).lane[l].running = h.lane[l].running
        /\ Repropose(h, l).lane[l].intent = h.lane[l].intent
        /\ Repropose(h, l).lane[l].cart = ClosedGate
    BY ReproposeShape
  <2> QED  BY <1>1, <2>1, <2>2, Fields, Zenon
<1>4. CASE kind # "say" /\ ~(kind = "card" /\ h.lane[l].proposal)
  <2>1. PICK s \in {"thinking", "errand"} : k = Moved(h, t, s)
    BY <1>4 DEF Commence
  <2>2. /\ k \in Hosts /\ k.lane = h.lane /\ k.line = h.line /\ k.held = h.held
        /\ \A u \in Turns \ {t} : k.turn[u] = h.turn[u]
        /\ k.turn[t].stage = s /\ k.turn[t].chat = h.turn[t].chat
        /\ k.turn[t].kind = h.turn[t].kind /\ k.turn[t].lane = h.turn[t].lane
        /\ k.turn[t].after = h.turn[t].after /\ k.turn[t].gone = h.turn[t].gone
    <3>1. s \in Stages
      BY <1>0
    <3> QED  BY <2>1, <3>1, MovedShape
  <2>3. ~Signless(k.turn[t])
    BY <1>4, <2>1, <2>2 DEF Signless
  <2> QED  BY <2>1, <2>2, <2>3 DEF Local
<1> QED  BY <1>2, <1>3, <1>4

LEMMA QueueShape ==
    ASSUME NEW h \in Hosts, NEW t \in Turns, NEW l \in Lanes,
           NEW k, k = Queue(h, t, l)
    PROVE  /\ Local(h, k, t, l)
           /\ k.turn[t].chat = h.turn[t].chat /\ k.turn[t].kind = h.turn[t].kind
           /\ k.turn[t].lane = l /\ k.turn[t].after = h.lane[l].running
           /\ k.turn[t].gone = h.turn[t].gone
           /\ k.lane[l].chat = h.lane[l].chat /\ k.lane[l].running = t
           /\ k.lane[l].intent = h.lane[l].intent
           /\ k.lane[l].cart \in {ClosedGate, h.lane[l].cart}
           /\ IF h.lane[l].running = None
              THEN /\ k.turn[t].stage \in {"thinking", "shopping", "errand"}
                   /\ Signless(k.turn[t]) => ~k.lane[l].cart.released
              ELSE k.turn[t].stage = "behind"
<1> DEFINE before == h.lane[l].running
           r == [h.turn[t] EXCEPT !.lane = l, !.after = before]
           m == [h.lane[l] EXCEPT !.running = t]
           asked == With(h, t, r, l, m)
<1>1. h.turn[t] \in TurnRecord /\ h.lane[l] \in LaneRecord /\ before \in Turns \cup {None}
  BY Fields
<1>2. r \in TurnRecord
  BY <1>1 DEF TurnRecord
<1>3. /\ r.chat = h.turn[t].chat /\ r.kind = h.turn[t].kind /\ r.lane = l
      /\ r.after = before /\ r.stage = h.turn[t].stage /\ r.gone = h.turn[t].gone
  BY <1>1 DEF TurnRecord
<1>4. m \in LaneRecord
  BY <1>1 DEF LaneRecord
<1>5. /\ m.chat = h.lane[l].chat /\ m.running = t
      /\ m.intent = h.lane[l].intent /\ m.cart = h.lane[l].cart
  BY <1>1 DEF LaneRecord
<1>6. k = IF before = None THEN Commence(asked, t) ELSE Moved(asked, t, "behind")
  BY DEF Queue, With
<1> HIDE DEF r, m
<1>7. Local(h, asked, t, l) /\ asked.turn[t] = r /\ asked.lane[l] = m
  BY <1>2, <1>4, BothSet
<1> HIDE DEF asked
<1>8. asked \in Hosts
  BY <1>7 DEF Local
<1>9. CASE before = None
  <2>1. /\ Local(asked, k, t, l)
        /\ k.turn[t].stage \in {"thinking", "shopping", "errand"}
        /\ k.turn[t].chat = asked.turn[t].chat /\ k.turn[t].kind = asked.turn[t].kind
        /\ k.turn[t].lane = l
        /\ k.turn[t].after = asked.turn[t].after
        /\ k.turn[t].gone = asked.turn[t].gone
        /\ k.lane[l].chat = asked.lane[l].chat
        /\ k.lane[l].running = asked.lane[l].running
        /\ k.lane[l].intent = asked.lane[l].intent
        /\ k.lane[l].cart \in {ClosedGate, asked.lane[l].cart}
        /\ Signless(k.turn[t]) => ~k.lane[l].cart.released
    BY <1>3, <1>6, <1>7, <1>8, <1>9, CommenceShape
  <2> QED  BY <1>3, <1>5, <1>7, <1>9, <2>1 DEF Local
<1>10. CASE before # None
  <2>1. /\ k \in Hosts /\ k.lane = asked.lane /\ k.line = asked.line /\ k.held = asked.held
        /\ \A u \in Turns \ {t} : k.turn[u] = asked.turn[u]
        /\ k.turn[t].stage = "behind" /\ k.turn[t].chat = asked.turn[t].chat
        /\ k.turn[t].kind = asked.turn[t].kind /\ k.turn[t].lane = asked.turn[t].lane
        /\ k.turn[t].after = asked.turn[t].after /\ k.turn[t].gone = asked.turn[t].gone
    <3>1. k = Moved(asked, t, "behind") /\ "behind" \in Stages
      BY <1>6, <1>10, StageNames
    <3> QED  BY <1>8, <3>1, MovedShape
  <2> QED  BY <1>3, <1>5, <1>7, <1>10, <2>1 DEF Local
<1> QED  BY <1>9, <1>10

-----------------------------------------------------------------------------
(* A turn is queued, commences, settles.                                   *)

\* No gate would release turn t.
Unwaited(h, t) ==
    \A b \in Lanes : h.lane[b].intent.waiter # t /\ h.lane[b].cart.waiter # t

\* No gate of k waits for a turn that no gate of h waited for.
NoNewWaiter(h, k) == \A u \in Turns : Unwaited(h, u) => Unwaited(k, u)

LEMMA SameWaiters ==
    ASSUME NEW h, NEW k, NEW t, NEW l \in Lanes, Local(h, k, t, l),
           k.lane[l].intent.waiter \in {None, h.lane[l].intent.waiter},
           k.lane[l].cart.waiter \in {None, h.lane[l].cart.waiter}
    PROVE  NoNewWaiter(h, k)
<1>1. ASSUME NEW u \in Turns, Unwaited(h, u), NEW b \in Lanes
      PROVE  k.lane[b].intent.waiter # u /\ k.lane[b].cart.waiter # u
  <2>1. u # None
    BY Bounds
  <2>2. h.lane[b].intent.waiter # u /\ h.lane[b].cart.waiter # u
    BY <1>1 DEF Unwaited
  <2>3. CASE b = l
    BY <2>1, <2>2, <2>3
  <2>4. CASE b # l
    BY <2>2, <2>4 DEF Local
  <2> QED  BY <2>3, <2>4
<1> QED  BY <1>1 DEF NoNewWaiter, Unwaited

LEMMA NotWaiting ==
    ASSUME NEW h, Stands(h), NEW t \in Turns, h.turn[t].stage \notin Waits
    PROVE  Unwaited(h, t)
<1>1. \A b \in Lanes : GateStands(h, b)
  BY DEF Stands
<1>2. t # None
  BY Bounds
<1> QED  BY <1>1, <1>2 DEF Unwaited, GateStands, Waits

\* Two runs of one lane are of one chat.
LEMMA LaneMates ==
    ASSUME NEW h, Stands(h), NEW t \in Turns, Unfinished(h, t)
    PROVE  /\ h.turn[t].lane \in Lanes /\ h.turn[t].chat \in Chats
           /\ h.lane[h.turn[t].lane].chat = h.turn[t].chat
BY DEF Stands, TurnStands, Placed

\* The lane of a run of a calm chat calls that run its own.
LEMMA RunnerKnown ==
    ASSUME NEW h, Stands(h), NEW t \in Turns, Live(h, t), CalmIn(h, h.turn[t].chat)
    PROVE  /\ h.lane[h.turn[t].lane].running = t
           /\ h.turn[t].gone \/ h.turn[t].lane \in Range(h.held)
           /\ Signless(h.turn[t]) => ~h.lane[h.turn[t].lane].cart.released
BY DEF Stands, TurnStands, Owed

LEMMA QueueStands ==
    ASSUME NEW h, Stands(h), NEW t \in Turns, NEW l \in Lanes,
           NEW k, k = Queue(h, t, l),
           t \notin Range(h.line), h.turn[t].stage \in {"unasked", "line"},
           h.turn[t].chat \in Chats, h.lane[l].chat = h.turn[t].chat,
           l \in Range(h.held)
    PROVE  /\ Stands(k) /\ NoNewWaiter(h, k)
           /\ \A c : CalmIn(k, c) => CalmIn(h, c)
<1>0. h \in Hosts
  BY DEF Stands
<1>1. /\ Local(h, k, t, l)
      /\ k.turn[t].chat = h.turn[t].chat /\ k.turn[t].lane = l
      /\ k.turn[t].after = h.lane[l].running /\ k.turn[t].gone = h.turn[t].gone
      /\ k.lane[l].chat = h.lane[l].chat /\ k.lane[l].running = t
      /\ k.lane[l].intent = h.lane[l].intent
      /\ k.lane[l].cart \in {ClosedGate, h.lane[l].cart}
      /\ IF h.lane[l].running = None
         THEN /\ k.turn[t].stage \in {"thinking", "shopping", "errand"}
              /\ Signless(k.turn[t]) => ~k.lane[l].cart.released
         ELSE k.turn[t].stage = "behind"
  BY <1>0, QueueShape
<1>2. ~h.turn[t].gone /\ h.turn[t].after = None
  BY DEF Stands, TurnStands, Kept
<1>3. Unwaited(h, t)
  BY NotWaiting DEF Waits
<1>4. ASSUME NEW u \in Turns \ {t}, Live(h, u), h.turn[u].lane = l
      PROVE  ~CalmIn(k, h.turn[u].chat)
  <2>1. h.turn[u].chat = h.turn[t].chat
    BY <1>4, LaneMates DEF Unfinished
  <2>2. CASE h.lane[l].running = None
    <3>1. CalmIn(k, h.turn[u].chat) => CalmIn(h, h.turn[u].chat)
      BY <1>1, <1>2 DEF CalmIn, Local
    <3>2. u # None
      BY Bounds
    <3> QED  BY <1>4, <2>2, <3>1, <3>2, RunnerKnown
  <2>3. CASE h.lane[l].running # None
    BY <1>1, <2>1, <2>3 DEF CalmIn
  <2> QED  BY <2>2, <2>3
<1>5. /\ k.lane[l].intent.waiter # None =>
            k.lane[l].intent.waiter # t /\ k.lane[l].intent.waiter = h.lane[l].intent.waiter
      /\ k.lane[l].cart.waiter # None =>
            k.lane[l].cart.waiter # t /\ k.lane[l].cart.waiter = h.lane[l].cart.waiter
  BY <1>1, <1>3, Fields DEF Unwaited
<1>6. Kept(k.turn[t])
  BY <1>1, <1>2 DEF Kept
<1>7. Placed(k.turn[t], k.lane[l], Range(h.held))
  BY <1>1, <1>2 DEF Placed
<1>8. Going(k.turn[t].stage) => Owed(t, k.turn[t], k.lane[l], Range(h.held))
  BY <1>1, StageNames DEF Owed
<1>9. NoNewWaiter(h, k)
  BY <1>1, <1>5, SameWaiters
<1>10. Stands(k) /\ \A c : CalmIn(k, c) => CalmIn(h, c)
  BY <1>1, <1>2, <1>3, <1>4, <1>5, <1>6, <1>7, <1>8, LocalStands DEF Unwaited
<1> QED  BY <1>9, <1>10

LEMMA CommenceStands ==
    ASSUME NEW h, Stands(h), NEW t \in Turns, h.turn[t].stage = "behind",
           NEW k, k = Commence(h, t)
    PROVE  /\ Stands(k) /\ NoNewWaiter(h, k)
           /\ k.line = h.line /\ k.held = h.held
           /\ \A u \in Turns \ {t} : k.turn[u] = h.turn[u]
           /\ k.turn[t].stage \in {"thinking", "shopping", "errand"}
           /\ k.turn[t].chat = h.turn[t].chat /\ k.turn[t].after = h.turn[t].after
           /\ k.turn[t].after # None /\ k.turn[t].gone = h.turn[t].gone
<1> DEFINE l == h.turn[t].lane
<1>0. h \in Hosts /\ Unfinished(h, t)
  BY DEF Stands, Unfinished
<1>a. l \in Lanes /\ h.turn[t].chat \in Chats /\ h.lane[l].chat = h.turn[t].chat
  BY <1>0, LaneMates
<1> HIDE DEF l
<1>1. /\ Local(h, k, t, l)
      /\ k.turn[t].stage \in {"thinking", "shopping", "errand"}
      /\ k.turn[t].chat = h.turn[t].chat /\ k.turn[t].lane = l
      /\ k.turn[t].after = h.turn[t].after /\ k.turn[t].gone = h.turn[t].gone
      /\ k.lane[l].chat = h.lane[l].chat
      /\ k.lane[l].intent = h.lane[l].intent
      /\ k.lane[l].cart \in {ClosedGate, h.lane[l].cart}
  BY <1>0, <1>a, CommenceShape DEF l
<1>2. /\ h.turn[t].after # None /\ t \notin Range(h.line)
      /\ Placed(h.turn[t], h.lane[l], Range(h.held))
  <2>1. TurnStands(h, t) /\ LineStands(h)
    BY DEF Stands
  <2> QED  BY <1>0, <2>1 DEF TurnStands, Kept, LineStands, Range, l
<1>3. Unwaited(h, t)
  BY NotWaiting DEF Waits
<1>4. ASSUME NEW u \in Turns \ {t}, Live(h, u), h.turn[u].lane = l
      PROVE  ~CalmIn(k, h.turn[u].chat)
  <2>1. h.turn[u].chat = h.turn[t].chat
    BY <1>4, <1>a, LaneMates DEF Unfinished
  <2> QED  BY <1>1, <1>2, <2>1 DEF CalmIn
<1>5. /\ k.lane[l].intent.waiter # None =>
            k.lane[l].intent.waiter # t /\ k.lane[l].intent.waiter = h.lane[l].intent.waiter
      /\ k.lane[l].cart.waiter # None =>
            k.lane[l].cart.waiter # t /\ k.lane[l].cart.waiter = h.lane[l].cart.waiter
  BY <1>a, <1>1, <1>3, Fields DEF Unwaited
<1>6. Kept(k.turn[t])
  BY <1>1, <1>2 DEF Kept
<1>7. Placed(k.turn[t], k.lane[l], Range(h.held))
  BY <1>a, <1>1, <1>2 DEF Placed, l
<1>8. ~CalmIn(k, k.turn[t].chat)
  BY <1>1, <1>2 DEF CalmIn
<1>9. NoNewWaiter(h, k)
  BY <1>a, <1>1, <1>5, SameWaiters
<1>10. Stands(k)
  BY <1>a, <1>1, <1>2, <1>3, <1>4, <1>5, <1>6, <1>7, <1>8, LocalStands DEF Unwaited
<1> QED  BY <1>1, <1>2, <1>9, <1>10 DEF Local

\* A run's promise settles, before anything is woken.
Idle(h, t) ==
    [h EXCEPT !.turn[t] = [@ EXCEPT !.stage = "done", !.lane = None],
              !.lane[h.turn[t].lane].running = None]

LEMMA IdleStands ==
    ASSUME NEW h, Stands(h), NEW t \in Turns, Live(h, t), Unwaited(h, t),
           NEW k, k = Idle(h, t)
    PROVE  /\ Stands(k) /\ NoNewWaiter(h, k)
           /\ k.line = h.line /\ k.held = h.held
           /\ \A u \in Turns \ {t} : k.turn[u] = h.turn[u]
           /\ k.turn[t].stage = "done" /\ k.turn[t].chat = h.turn[t].chat
           /\ k.turn[t].after = h.turn[t].after /\ k.turn[t].gone = h.turn[t].gone
<1> DEFINE l == h.turn[t].lane
           r == [h.turn[t] EXCEPT !.stage = "done", !.lane = None]
           m == [h.lane[l] EXCEPT !.running = None]
<1>0. h \in Hosts /\ Unfinished(h, t)
  BY DEF Stands, Unfinished
<1>a. l \in Lanes /\ h.turn[t].chat \in Chats /\ h.lane[l].chat = h.turn[t].chat
  BY <1>0, LaneMates
<1>b. h.turn[t] \in TurnRecord /\ h.lane[l] \in LaneRecord
  BY <1>0, <1>a, Fields
<1>c. r \in TurnRecord
  <2>1. "done" \in Stages
    BY StageNames
  <2> QED  BY <1>b, <2>1 DEF TurnRecord
<1>d. /\ r.stage = "done" /\ r.chat = h.turn[t].chat
      /\ r.after = h.turn[t].after /\ r.gone = h.turn[t].gone
  BY <1>b DEF TurnRecord
<1>e. m \in LaneRecord
  BY <1>b DEF LaneRecord
<1>f. /\ m.chat = h.lane[l].chat /\ m.intent = h.lane[l].intent
      /\ m.cart = h.lane[l].cart
  BY <1>b DEF LaneRecord
<1>g. k = With(h, t, r, l, m)
  BY DEF Idle, With
<1> HIDE DEF r, m, l
<1>1. Local(h, k, t, l) /\ k.turn[t] = r /\ k.lane[l] = m
  BY <1>0, <1>a, <1>c, <1>e, <1>g, BothSet
<1>2. t \notin Range(h.line)
  BY <1>0 DEF Stands, LineStands, Range, Live, Waits, Works
<1>4. ASSUME NEW u \in Turns \ {t}, Live(h, u), h.turn[u].lane = l
      PROVE  ~CalmIn(k, h.turn[u].chat)
  <2>1. h.turn[u].chat = h.turn[t].chat
    BY <1>4, <1>a, LaneMates DEF Unfinished
  <2>2. CalmIn(k, h.turn[u].chat) => CalmIn(h, h.turn[u].chat)
    BY <1>1, <1>d DEF CalmIn, Local
  <2>3. CalmIn(h, h.turn[u].chat) => h.lane[l].running = t /\ h.lane[l].running = u
    BY <1>4, <2>1, RunnerKnown DEF l
  <2> QED  BY <2>2, <2>3
<1>5. Kept(r) /\ ~Pending(r.stage) /\ ~Going(r.stage)
  BY <1>d DEF Kept, Pending, Going, Waits, Works
<1>9. NoNewWaiter(h, k)
  BY <1>1, <1>a, <1>f, SameWaiters
<1>10. Stands(k)
  BY <1>a, <1>1, <1>2, <1>4, <1>5, <1>d, <1>f, LocalStands DEF Unwaited
<1> QED  BY <1>1, <1>d, <1>9, <1>10 DEF Local

-----------------------------------------------------------------------------
(* The lane of a conversation.                                             *)

\* There are more lane objects than the host and its runs can refer to.
LEMMA UnusedExists ==
    ASSUME NEW h \in Hosts, HeldStands(h)
    PROVE  Unused(h) # {}
<1> DEFINE used == Range(h.held)
           ridden == {h.turn[t].lane : t \in Turns}
<1>1. h.held \in Seq(Lanes)
  BY Fields
<1>2. IsFiniteSet(used) /\ Cardinality(used) = Len(h.held) /\ Len(h.held) \in Nat
  BY <1>1, CountOf DEF HeldStands
<1>3. IsFiniteSet(Turns) /\ Cardinality(Turns) = MaxTurns
  BY Bounds, FS_Interval DEF Turns
<1>4. IsFiniteSet(ridden) /\ Cardinality(ridden) <= MaxTurns
  <2> DEFINE f == [t \in Turns |-> h.turn[t].lane]
  <2>1. f \in Surjection(Turns, ridden)
    BY DEF Surjection
  <2> HIDE DEF f, ridden
  <2> QED  BY <1>3, <2>1, FS_Surjection
<1>5. IsFiniteSet(Lanes) /\ Cardinality(Lanes) = MaxTurns + MaxHeld + 1
  BY Bounds, FS_Interval DEF Lanes
<1> HIDE DEF used, ridden
<1>6. IsFiniteSet(used \cup ridden) /\ Cardinality(used \cup ridden) <= MaxHeld + MaxTurns
  <2>1. /\ IsFiniteSet(used \cup ridden)
        /\ Cardinality(used \cup ridden)
              = Cardinality(used) + Cardinality(ridden) - Cardinality(used \cap ridden)
    BY <1>2, <1>4, FS_Union
  <2>2. Cardinality(used \cap ridden) \in Nat
    BY <1>2, FS_Subset, FS_CardinalityType
  <2>3. Cardinality(ridden) \in Nat /\ Len(h.held) <= MaxHeld
    BY <1>4, FS_CardinalityType DEF HeldStands
  <2> QED  BY <1>2, <1>4, <2>1, <2>2, <2>3, Bounds
<1>7. ~(Lanes \subseteq used \cup ridden)
  <2> SUFFICES ASSUME Lanes \subseteq used \cup ridden  PROVE FALSE
    OBVIOUS
  <2>1. Cardinality(Lanes) <= Cardinality(used \cup ridden)
    BY <1>6, FS_Subset
  <2>2. Cardinality(used \cup ridden) \in Nat
    BY <1>6, FS_CardinalityType
  <2> QED  BY <1>5, <1>6, <2>1, <2>2, Bounds
<1> QED  BY <1>7 DEF Unused, used, ridden

Grown(h, c, l) == [h EXCEPT !.lane[l] = FreshLane(c), !.held = Append(@, l)]

\* What a lane nobody refers to becomes is no turn's concern.
LEMMA GrownStands ==
    ASSUME NEW h, Stands(h), NEW c \in Chats, NEW l \in Unused(h),
           NEW n, n = Grown(h, c, l)
    PROVE  /\ n \in Hosts /\ n.turn = h.turn /\ n.line = h.line
           /\ n.held = Append(h.held, l) /\ n.lane[l] = FreshLane(c)
           /\ \A b \in Lanes \ {l} : n.lane[b] = h.lane[b]
           /\ Range(n.held) = Range(h.held) \cup {l}
           /\ \A i, j \in DOMAIN n.held : n.held[i] = n.held[j] => i = j
           /\ \A t \in Turns : TurnStands(n, t)
           /\ \A b \in Lanes : GateStands(n, b)
<1>0. h \in Hosts /\ l \in Lanes /\ l \notin Range(h.held) /\ h.held \in Seq(Lanes)
  BY Fields DEF Stands, Unused
<1>a. FreshLane(c) \in LaneRecord
  BY Fields DEF FreshLane, LaneRecord
<1>b. /\ FreshLane(c).chat = c /\ FreshLane(c).running = None
      /\ FreshLane(c).intent = ClosedGate /\ FreshLane(c).cart = ClosedGate
  BY DEF FreshLane
<1>1. /\ Append(h.held, l) \in Seq(Lanes)
      /\ \A i, j \in DOMAIN Append(h.held, l) :
            Append(h.held, l)[i] = Append(h.held, l)[j] => i = j
      /\ Range(Append(h.held, l)) = Range(h.held) \cup {l}
  BY <1>0, AppendOnce DEF Stands, HeldStands
<1>2. /\ n \in Hosts /\ n.turn = h.turn /\ n.line = h.line
      /\ n.held = Append(h.held, l) /\ n.lane[l] = FreshLane(c)
      /\ \A b \in Lanes \ {l} : n.lane[b] = h.lane[b]
  <2> DEFINE w == WithLane(h, l, FreshLane(c))
             q == Append(h.held, l)
  <2>1. /\ w \in Hosts /\ w.lane[l] = FreshLane(c)
        /\ w.turn = h.turn /\ w.line = h.line /\ w.held = h.held
        /\ \A b \in Lanes \ {l} : w.lane[b] = h.lane[b]
    BY <1>0, <1>a, LaneSet
  <2>2. n = [w EXCEPT !.held = q]
    BY <1>0 DEF Grown, WithLane, Hosts
  <2> HIDE DEF w
  <2>3. q \in Seq(Lanes)
    BY <1>1
  <2> HIDE DEF q
  <2>4. n \in Hosts
    BY <2>1, <2>2, <2>3 DEF Hosts
  <2>5. n.held = q /\ n.turn = w.turn /\ n.line = w.line /\ n.lane = w.lane
    BY <2>1, <2>2 DEF Hosts
  <2> QED  BY <2>1, <2>4, <2>5 DEF q
<1>3. ASSUME NEW t \in Turns  PROVE TurnStands(n, t)
  <2>1. TurnStands(h, t)
    BY DEF Stands
  <2>2. /\ Unfinished(n, t) <=> Unfinished(h, t)
        /\ Live(n, t) <=> Live(h, t)
        /\ \A d : CalmIn(n, d) <=> CalmIn(h, d)
    BY <1>2 DEF Unfinished, Live, CalmIn
  <2>3. CASE Unfinished(h, t)
    <3>1. h.turn[t].lane # l
      BY <2>3 DEF Unused
    <3>2. h.turn[t].lane \in Lanes
      BY <2>1, <2>3 DEF TurnStands, Placed
    <3>3. /\ n.lane[h.turn[t].lane] = h.lane[h.turn[t].lane]
          /\ h.turn[t].lane \in Range(n.held) <=> h.turn[t].lane \in Range(h.held)
      BY <1>1, <1>2, <3>1, <3>2
    <3> QED  BY <1>2, <2>1, <2>2, <3>3 DEF TurnStands, Placed, Owed
  <2>4. CASE ~Unfinished(h, t)
    <3>1. ~Live(h, t)
      BY <2>4 DEF Unfinished
    <3> QED  BY <1>2, <2>1, <2>2, <2>4, <3>1 DEF TurnStands
  <2> QED  BY <2>3, <2>4
<1>4. ASSUME NEW b \in Lanes  PROVE GateStands(n, b)
  <2>1. GateStands(h, b)
    BY DEF Stands
  <2>2. CASE b = l
    BY <1>b, <1>2, <2>2, Fields DEF GateStands
  <2>3. CASE b # l
    BY <1>2, <2>1, <2>3 DEF GateStands
  <2> QED  BY <2>2, <2>3
<1> QED  BY <1>1, <1>2, <1>3, <1>4

LEMMA LaneForStands ==
    ASSUME NEW h, Stands(h), NEW c \in Chats,
           NEW k, k = LaneFor(h, c).host, NEW l, l = LaneFor(h, c).lane
    PROVE  /\ Stands(k) /\ NoNewWaiter(h, k)
           /\ k.turn = h.turn /\ k.line = h.line
           /\ l \in Lanes /\ k.lane[l].chat = c
           /\ Busy(k, l) \/ Running(k) < Cap => l \in Range(k.held)
<1>0. h \in Hosts /\ h.held \in Seq(Lanes) /\ HeldStands(h)
  BY Fields DEF Stands
<1>1. CASE LanesOf(h, c) # {}
  <2>1. k = h /\ l \in LanesOf(h, c)
    BY <1>1 DEF LaneFor
  <2>2. l \in Range(h.held) /\ h.lane[l].chat = c
    BY <2>1 DEF LanesOf
  <2>3. l \in Lanes
    BY <1>0, <2>2 DEF Range
  <2> QED  BY <2>1, <2>2, <2>3 DEF NoNewWaiter
<1>2. CASE LanesOf(h, c) = {}
  <2> DEFINE n == Grown(h, c, l)
  <2>1. l \in Unused(h)
    BY <1>0, <1>2, UnusedExists DEF LaneFor
  <2>2. k = PruneLanes(n)
    BY <1>2 DEF LaneFor, Grown
  <2>3. /\ n \in Hosts /\ n.turn = h.turn /\ n.line = h.line
        /\ n.held = Append(h.held, l) /\ n.lane[l] = FreshLane(c)
        /\ \A b \in Lanes \ {l} : n.lane[b] = h.lane[b]
        /\ Range(n.held) = Range(h.held) \cup {l}
        /\ \A i, j \in DOMAIN n.held : n.held[i] = n.held[j] => i = j
        /\ \A t \in Turns : TurnStands(n, t)
        /\ \A b \in Lanes : GateStands(n, b)
    <3>1. n = Grown(h, c, l)
      OBVIOUS
    <3> HIDE DEF n
    <3> QED  BY <2>1, <3>1, GrownStands
  <2> HIDE DEF n
  <2>4. l \in Lanes /\ l \notin Range(h.held)
    BY <2>1 DEF Unused
  <2>5. /\ n.lane[l].chat = c /\ n.lane[l].running = None
        /\ n.lane[l].intent = ClosedGate /\ n.lane[l].cart = ClosedGate
    BY <2>3 DEF FreshLane
  <2>6. LineStands(n)
    BY <2>3 DEF Stands, LineStands
  <2>7. NoNewWaiter(h, n)
    BY <2>3, <2>5, Fields, Bounds DEF NoNewWaiter, Unwaited
  <2>8. Len(n.held) = Len(h.held) + 1 /\ Len(h.held) \in Nat /\ Len(h.held) <= MaxHeld
        /\ n.held[Len(h.held) + 1] = l /\ \A j \in 1..Len(h.held) : n.held[j] = h.held[j]
        /\ DOMAIN n.held = 1..(Len(h.held) + 1) /\ n.held \in Seq(Lanes)
    BY <1>0, <2>3, <2>4, AppendOnce, Fields DEF HeldStands
  <2>9. CASE Len(n.held) <= MaxHeld
    <3>1. k = n
      BY <2>2, <2>9 DEF PruneLanes
    <3>2. Stands(k)
      BY <2>3, <2>6, <2>9, <3>1 DEF Stands, HeldStands
    <3> QED  BY <2>3, <2>4, <2>5, <2>7, <3>1, <3>2
  <2>10. CASE ~(Len(n.held) <= MaxHeld)
    <3> DEFINE idle == {i \in DOMAIN n.held : ~Busy(n, n.held[i])}
               i == CHOOSE x \in idle : \A y \in idle : x <= y
    <3>1. Len(h.held) + 1 \in idle
      BY <2>5, <2>8 DEF Busy
    <3>2. i \in idle /\ \A y \in idle : i <= y
      <4>1. idle \in SUBSET Nat /\ idle # {}
        BY <2>8, <3>1
      <4> HIDE DEF idle
      <4>2. \E x \in idle : \A y \in idle : x <= y
        BY <4>1, LeastExists
      <4> QED  BY <4>2
    <3>3. k = [n EXCEPT !.held = RemoveAt(n.held, i)]
      BY <2>2, <2>10, <3>1 DEF PruneLanes
    <3>4. i \in DOMAIN n.held /\ ~Busy(n, n.held[i])
      BY <3>2
    <3>a. i \in Nat
      BY <2>8, <3>4
    <3>b. \A y \in DOMAIN n.held : ~Busy(n, n.held[y]) => y \in idle
      OBVIOUS
    <3> HIDE DEF i, idle
    <3>5. \A y \in DOMAIN n.held : y < i => Busy(n, n.held[y])
      <4> SUFFICES ASSUME NEW y \in DOMAIN n.held, y < i, ~Busy(n, n.held[y])
                   PROVE  FALSE
        OBVIOUS
      <4>1. y \in Nat /\ i <= y
        BY <2>8, <3>2, <3>b
      <4> QED  BY <3>a, <4>1
    <3>6. /\ RemoveAt(n.held, i) \in Seq(Lanes)
          /\ Len(RemoveAt(n.held, i)) = Len(h.held)
          /\ \A x, y \in DOMAIN RemoveAt(n.held, i) :
                RemoveAt(n.held, i)[x] = RemoveAt(n.held, i)[y] => x = y
          /\ Range(RemoveAt(n.held, i)) = Range(n.held) \ {n.held[i]}
      <4> DEFINE p == n.held
      <4>d. n.held \in Seq(Lanes)
        BY <2>3, Fields
      <4>e. Len(n.held) = Len(h.held) + 1 /\ Len(h.held) \in Nat
        BY <2>8
      <4>a. p \in Seq(Lanes) /\ Len(p) - 1 = Len(h.held)
        BY ONLY <4>d, <4>e
      <4>b. i \in DOMAIN p
        BY <3>4
      <4>c. \A x, y \in DOMAIN p : p[x] = p[y] => x = y
        BY <2>3
      <4>1. /\ p \in Seq(Lanes) /\ i \in DOMAIN p /\ Len(p) - 1 = Len(h.held)
            /\ \A x, y \in DOMAIN p : p[x] = p[y] => x = y
        BY <4>a, <4>b, <4>c
      <4> HIDE DEF p
      <4>2. /\ RemoveAt(p, i) \in Seq(Lanes) /\ Len(RemoveAt(p, i)) = Len(h.held)
        BY <4>1, RemoveAtShape
      <4>3. /\ \A x, y \in DOMAIN RemoveAt(p, i) :
                  RemoveAt(p, i)[x] = RemoveAt(p, i)[y] => x = y
            /\ Range(RemoveAt(p, i)) = Range(p) \ {p[i]}
        BY <4>1, RemoveAtOnce
      <4> QED  BY <4>2, <4>3 DEF p
    <3> DEFINE q == RemoveAt(n.held, i)
    <3> HIDE DEF q
    <3>7. /\ k \in Hosts /\ k.turn = n.turn /\ k.line = n.line /\ k.lane = n.lane
          /\ k.held = q
      <4>1. k = [n EXCEPT !.held = q] /\ q \in Seq(Lanes)
        BY <3>3, <3>6 DEF q
      <4> QED  BY <2>3, <4>1 DEF Hosts
    <3>8. ASSUME NEW t \in Turns  PROVE TurnStands(k, t)
      <4>1. TurnStands(n, t)
        BY <2>3
      <4>2. /\ Unfinished(k, t) <=> Unfinished(n, t)
            /\ Live(k, t) <=> Live(n, t)
            /\ \A d : CalmIn(k, d) <=> CalmIn(n, d)
        BY <3>7 DEF Unfinished, Live, CalmIn
      <4>3. Range(k.held) = Range(n.held) \ {n.held[i]}
        BY <3>6, <3>7 DEF q
      <4>4. Live(n, t) /\ CalmIn(n, n.turn[t].chat) => n.turn[t].lane # n.held[i]
        <5>1. t # None
          BY Bounds
        <5> QED  BY <3>4, <4>1, <5>1 DEF TurnStands, Owed, Busy
      <4> QED  BY <3>7, <4>1, <4>2, <4>3, <4>4 DEF TurnStands, Placed, Owed
    <3>9. Stands(k)
      <4>1. \A b \in Lanes : GateStands(k, b)
        BY <2>3, <3>7 DEF GateStands
      <4>2. LineStands(k)
        BY <2>6, <3>7 DEF LineStands
      <4>3. HeldStands(k)
        BY <2>8, <3>6, <3>7 DEF HeldStands, q
      <4> QED  BY <3>7, <3>8, <4>1, <4>2, <4>3 DEF Stands
    <3>10. NoNewWaiter(h, k)
      BY <2>7, <3>7 DEF NoNewWaiter, Unwaited
    <3>11. ASSUME Busy(k, l) \/ Running(k) < Cap  PROVE l \in Range(k.held)
      <4> SUFFICES ASSUME l \notin Range(k.held)  PROVE FALSE
        OBVIOUS
      <4>1. n.held[i] = l
        BY <2>3, <3>6, <3>7 DEF q
      <4>2. Range(k.held) = Range(h.held)
        <5>1. Range(k.held) = Range(n.held) \ {n.held[i]}
          BY <3>6, <3>7 DEF q
        <5>2. Range(n.held) = Range(h.held) \cup {l} /\ l \notin Range(h.held)
          BY <2>3, <2>4
        <5> QED  BY <4>1, <5>1, <5>2
      <4>3. i = Len(h.held) + 1
        BY <2>3, <2>8, <3>4, <4>1
      <4>4. \A b \in Range(h.held) : Busy(k, b)
        BY <2>8, <3>5, <3>7, <4>3 DEF Range, Busy
      <4>5. {b \in Range(k.held) : Busy(k, b)} = Range(h.held)
        BY <4>2, <4>4
      <4>6. Running(k) = Len(h.held)
        BY <1>0, <4>5, CountOf DEF Running, HeldStands
      <4>7. ~Busy(k, l)
        BY <2>5, <3>7 DEF Busy
      <4> QED  BY <2>8, <2>10, <3>11, <4>6, <4>7, Bounds
    <3> QED  BY <2>3, <2>4, <2>5, <3>7, <3>9, <3>10, <3>11
  <2> QED  BY <2>9, <2>10
<1> QED  BY <1>1, <1>2

-----------------------------------------------------------------------------
(* The line moves.  Drain is a fold of the community modules over the line *)
(* as it stood; what one look at its head keeps, the fold keeps, by        *)
(* induction on how much of the line was looked at.                        *)

\* k is what h becomes by starting some of the turns in line.
Started(h, k) ==
    /\ Stands(k) /\ NoNewWaiter(h, k)
    /\ \A c : CalmIn(k, c) => CalmIn(h, c)
    /\ \A u \in Turns :
          IF h.turn[u].stage = "line"
          THEN /\ k.turn[u].stage \in
                     {"line", "thinking", "shopping", "errand", "behind"}
               /\ k.turn[u].gone = h.turn[u].gone
          ELSE k.turn[u] = h.turn[u]

\* The head of the line is taken out of it.
Popped(h) == [h EXCEPT !.line = Tail(@)]

LEMMA PopStands ==
    ASSUME NEW h, Stands(h), h.line # <<>>, NEW k, k = Popped(h)
    PROVE  /\ Stands(k) /\ k.turn = h.turn /\ k.lane = h.lane /\ k.held = h.held
           /\ k.line = Tail(h.line) /\ Head(h.line) \notin Range(k.line)
<1>0. h \in Hosts /\ h.line \in Seq(Turns)
  BY Fields DEF Stands
<1> DEFINE q == Tail(h.line)
<1>1. /\ q \in Seq(Turns) /\ DOMAIN q = 1..(Len(h.line) - 1)
      /\ \A i \in 1..(Len(h.line) - 1) : q[i] = h.line[i + 1]
      /\ DOMAIN h.line = 1..Len(h.line) /\ Len(h.line) \in Nat /\ Len(h.line) > 0
      /\ Head(h.line) = h.line[1]
  BY <1>0
<1> HIDE DEF q
<1>2. k = [h EXCEPT !.line = q]
  BY DEF Popped, q
<1>3. k \in Hosts /\ k.turn = h.turn /\ k.lane = h.lane /\ k.held = h.held /\ k.line = q
  BY <1>0, <1>1, <1>2 DEF Hosts
<1>4. LineStands(h) /\ HeldStands(h) /\ (\A t \in Turns : TurnStands(h, t))
      /\ (\A b \in Lanes : GateStands(h, b))
  BY DEF Stands
<1>5. \A i \in DOMAIN q : i + 1 \in DOMAIN h.line /\ i + 1 # 1 /\ q[i] = h.line[i + 1]
  BY <1>1
<1>6. LineStands(k)
  <2>1. \A i \in DOMAIN q : h.turn[q[i]].stage = "line" /\ h.turn[q[i]].chat \in Chats
    BY <1>4, <1>5 DEF LineStands
  <2>2. ASSUME NEW i \in DOMAIN q, NEW j \in DOMAIN q, q[i] = q[j]  PROVE i = j
    <3>1. i + 1 = j + 1
      BY <1>4, <1>5, <2>2 DEF LineStands
    <3> QED  BY <1>1, <3>1
  <2> QED  BY <1>3, <2>1, <2>2 DEF LineStands
<1>7. h.line[1] \notin Range(q)
  <2>1. 1 \in DOMAIN h.line
    BY <1>1
  <2> QED  BY <1>4, <1>5, <2>1 DEF LineStands, Range
<1>8. /\ \A t \in Turns : TurnStands(k, t)
      /\ \A b \in Lanes : GateStands(k, b)
      /\ HeldStands(k)
  <2>1. \A c : CalmIn(k, c) <=> CalmIn(h, c)
    BY <1>3 DEF CalmIn
  <2>2. \A t \in Turns : (Unfinished(k, t) <=> Unfinished(h, t)) /\ (Live(k, t) <=> Live(h, t))
    BY <1>3 DEF Unfinished, Live
  <2>3. \A t \in Turns : TurnStands(k, t)
    BY <1>3, <1>4, <2>1, <2>2 DEF TurnStands
  <2>4. \A b \in Lanes : GateStands(k, b)
    BY <1>3, <1>4 DEF GateStands
  <2> QED  BY <1>3, <1>4, <2>3, <2>4 DEF HeldStands
<1> QED  BY <1>1, <1>3, <1>6, <1>7, <1>8 DEF Stands, q

\* One look at the head of the line.
LEMMA DrainStepStands ==
    ASSUME NEW h, NEW acc, Started(h, acc.host), acc.open,
           acc.host.line # <<>>, NEW t, t = Head(acc.host.line),
           NEW b, b = DrainStep(acc, t)
    PROVE  /\ Started(h, b.host)
           /\ b.open => b.host.line = Tail(acc.host.line)
<1> DEFINE x == acc.host
           c == x.turn[t].chat
           g == LaneFor(x, c).host
           l == LaneFor(x, c).lane
<1>0. Stands(x) /\ x \in Hosts /\ x.line \in Seq(Turns)
  BY Fields DEF Started, Stands
<1>1. t \in Turns /\ x.turn[t].stage = "line" /\ c \in Chats
  <2>1. 1 \in DOMAIN x.line /\ t = x.line[1] /\ x.line[1] \in Turns
    <3> DEFINE q == x.line
    <3>1. q \in Seq(Turns) /\ q # <<>> /\ t = Head(q)
      BY <1>0
    <3> HIDE DEF q
    <3>2. 1 \in DOMAIN q /\ t = q[1] /\ q[1] \in Turns
      BY ONLY <3>1
    <3> QED  BY <3>2, Zenon DEF q
  <2> QED  BY <1>0, <2>1 DEF Stands, LineStands
<1>2. b = IF Busy(g, l) \/ Running(g) < Cap
          THEN [host |-> Queue(Popped(g), t, l), open |-> TRUE]
          ELSE [host |-> g, open |-> FALSE]
  BY Zenon DEF DrainStep, Popped
<1> HIDE DEF x, c
<1>3. /\ Stands(g) /\ NoNewWaiter(x, g) /\ g.turn = x.turn /\ g.line = x.line
      /\ l \in Lanes /\ g.lane[l].chat = c
      /\ Busy(g, l) \/ Running(g) < Cap => l \in Range(g.held)
  BY <1>0, <1>1, LaneForStands
<1>4. Started(h, x)
  BY DEF x
<1> HIDE DEF g, l
<1>5. \A d : CalmIn(g, d) <=> CalmIn(x, d)
  BY <1>3 DEF CalmIn
<1>6. CASE ~(Busy(g, l) \/ Running(g) < Cap)
  <2>1. b.host = g /\ ~b.open
    BY <1>2, <1>6
  <2>2. NoNewWaiter(h, g)
    BY <1>3, <1>4 DEF Started, NoNewWaiter
  <2> QED  BY <1>3, <1>4, <1>5, <2>1, <2>2 DEF Started
<1>7. CASE Busy(g, l) \/ Running(g) < Cap
  <2> DEFINE p == Popped(g)
             k == Queue(p, t, l)
  <2>1. b.host = k
    BY <1>2, <1>7
  <2>2. /\ Stands(p) /\ p.turn = g.turn /\ p.lane = g.lane /\ p.held = g.held
        /\ p.line = Tail(g.line) /\ Head(g.line) \notin Range(p.line)
    <3>1. g.line # <<>>
      BY <1>3 DEF x
    <3> QED  BY <1>3, <3>1, PopStands
  <2> HIDE DEF p
  <2>3. t \notin Range(p.line)
    BY <1>3, <2>2 DEF x
  <2>4. /\ Stands(k) /\ NoNewWaiter(p, k)
        /\ \A d : CalmIn(k, d) => CalmIn(p, d)
    <3>1. /\ p.turn[t].stage \in {"unasked", "line"} /\ p.turn[t].chat \in Chats
          /\ p.lane[l].chat = p.turn[t].chat /\ l \in Range(p.held)
      BY <1>1, <1>3, <1>7, <2>2 DEF c
    <3> QED  BY <1>1, <1>3, <2>2, <2>3, <3>1, QueueStands
  <2>5. /\ Local(p, k, t, l) /\ k.turn[t].gone = p.turn[t].gone
        /\ k.turn[t].stage \in {"thinking", "shopping", "errand", "behind"}
    <3>1. p \in Hosts
      BY <2>2 DEF Stands
    <3> QED  BY <1>1, <1>3, <3>1, QueueShape
  <2> HIDE DEF k
  <2>6. NoNewWaiter(h, k)
    <3>1. NoNewWaiter(g, p)
      BY <2>2 DEF NoNewWaiter, Unwaited
    <3> QED  BY <1>3, <1>4, <2>4, <3>1 DEF Started, NoNewWaiter
  <2>7. \A d : CalmIn(k, d) => CalmIn(h, d)
    <3>1. \A d : CalmIn(p, d) => CalmIn(g, d)
      BY <2>2 DEF CalmIn
    <3> QED  BY <1>4, <1>5, <2>4, <3>1 DEF Started
  <2>8. h.turn[t].stage = "line"
    BY <1>1, <1>4 DEF Started
  <2>9. ASSUME NEW u \in Turns
        PROVE  IF h.turn[u].stage = "line"
               THEN /\ k.turn[u].stage \in
                          {"line", "thinking", "shopping", "errand", "behind"}
                    /\ k.turn[u].gone = h.turn[u].gone
               ELSE k.turn[u] = h.turn[u]
    <3>1. IF h.turn[u].stage = "line"
          THEN /\ x.turn[u].stage \in
                     {"line", "thinking", "shopping", "errand", "behind"}
               /\ x.turn[u].gone = h.turn[u].gone
          ELSE x.turn[u] = h.turn[u]
      BY <1>4 DEF Started
    <3>2. CASE u = t
      BY <1>3, <2>2, <2>5, <2>8, <3>1, <3>2
    <3>3. CASE u # t
      <4>1. k.turn[u] = x.turn[u]
        BY <1>3, <2>2, <2>5, <3>3 DEF Local
      <4> QED  BY <3>1, <4>1
    <3> QED  BY <3>2, <3>3
  <2>10. k.line = Tail(x.line)
    BY <1>3, <2>2, <2>5 DEF Local
  <2> QED  BY <2>1, <2>4, <2>6, <2>7, <2>9, <2>10 DEF Started, x
<1> QED  BY <1>6, <1>7

\* g says what the looks at the positions of s lead to, the last of them last.
Looks(acc, seq, n, g) ==
    g = [s \in SUBSET (1..n) |->
           IF s = {} THEN acc ELSE DrainStep(g[s \ {Max(s)}], seq[Max(s)])]

\* Any line can be looked through.
LEMMA LooksExist ==
    ASSUME NEW acc, NEW seq, NEW n \in Nat
    PROVE  \E g : Looks(acc, seq, n, g)
<1> DEFINE I == {k \in Nat : \E g : Looks(acc, seq, k, g)}
<1>1. 0 \in I
  <2> DEFINE g == [s \in SUBSET (1..0) |-> acc]
  <2>1. 1..0 = {}
    OBVIOUS
  <2>2. Looks(acc, seq, 0, g)
    BY <2>1 DEF Looks
  <2> QED  BY <2>2
<1>2. ASSUME NEW k \in I  PROVE k + 1 \in I
  <2>1. PICK g : Looks(acc, seq, k, g)
    OBVIOUS
  <2> DEFINE h == [s \in SUBSET (1..(k + 1)) |->
                     IF k + 1 \in s THEN DrainStep(g[s \ {k + 1}], seq[k + 1]) ELSE g[s]]
  <2>2. \A s \in SUBSET (1..(k + 1)) : k + 1 \notin s => s \in SUBSET (1..k)
    BY LastPosition
  <2>3. \A s \in SUBSET (1..k) : s \in SUBSET (1..(k + 1)) /\ k + 1 \notin s /\ h[s] = g[s]
    OBVIOUS
  <2>4. ASSUME NEW s \in SUBSET (1..(k + 1))
        PROVE  h[s] = IF s = {} THEN acc ELSE DrainStep(h[s \ {Max(s)}], seq[Max(s)])
    <3>1. CASE k + 1 \in s
      <4>1. Max(s) = k + 1 /\ s \ {k + 1} \in SUBSET (1..k)
        BY <3>1, LastPosition
      <4>2. h[s \ {k + 1}] = g[s \ {k + 1}]
        BY <2>3, <4>1
      <4>3. h[s] = DrainStep(g[s \ {k + 1}], seq[k + 1])
        BY <3>1
      <4> HIDE DEF h
      <4> QED  BY <3>1, <4>1, <4>2, <4>3
    <3>2. CASE k + 1 \notin s
      <4>1. s \in SUBSET (1..k) /\ s \ {Max(s)} \in SUBSET (1..k)
        BY <2>2, <3>2
      <4>2. h[s] = g[s] /\ h[s \ {Max(s)}] = g[s \ {Max(s)}]
        BY <2>3, <4>1
      <4>3. g[s] = IF s = {} THEN acc ELSE DrainStep(g[s \ {Max(s)}], seq[Max(s)])
        BY <2>1, <4>1 DEF Looks
      <4> HIDE DEF h
      <4> QED  BY <4>2, <4>3
    <3> QED  BY <3>1, <3>2
  <2>5. h = [s \in SUBSET (1..(k + 1)) |-> h[s]]
    OBVIOUS
  <2>6. Looks(acc, seq, k + 1, h)
    <3> HIDE DEF h
    <3> QED  BY <2>4, <2>5 DEF Looks
  <2> QED  BY <2>6
<1>3. I = Nat
  <2>1. I \in SUBSET Nat
    OBVIOUS
  <2> HIDE DEF I
  <2> QED  BY <1>1, <1>2, <2>1, Induction
<1> QED  BY <1>3


LEMMA DrainLooks ==
    ASSUME NEW acc, NEW seq, NEW n \in Nat, DOMAIN seq = 1..n
    PROVE  \E g : Looks(acc, seq, n, g) /\ FoldLeft(DrainStep, acc, seq) = g[1..n]
<1>1. \E g : Looks(acc, seq, n, g)
  BY LooksExist
<1> DEFINE it == CHOOSE g : Looks(acc, seq, n, g)
<1>2. Looks(acc, seq, n, it)
  BY <1>1
<1>3. FoldLeft(DrainStep, acc, seq) = it[1..n]
  BY DEF FoldLeft, MapThenFoldSet, Looks
<1> QED  BY <1>2, <1>3

LEMMA DrainStands ==
    ASSUME NEW h, Stands(h), NEW k, k = Drain(h)
    PROVE  /\ Started(h, k)
           /\ h.line = <<>> => k = h
<1> DEFINE n == Len(h.line)
           acc == [host |-> h, open |-> TRUE]
           seq == h.line
<1>0. h \in Hosts /\ seq \in Seq(Turns) /\ n \in Nat /\ DOMAIN seq = 1..n
  BY Fields DEF Stands
<1>1. PICK g : Looks(acc, seq, n, g) /\ FoldLeft(DrainStep, acc, seq) = g[1..n]
  BY <1>0, DrainLooks
<1>2. k = g[1..n].host
  BY <1>1 DEF Drain
<1>3. acc.host = h /\ acc.open
  OBVIOUS
<1>4. Started(h, h)
  BY DEF Started, NoNewWaiter
<1> HIDE DEF acc
<1>5. \A s \in SUBSET (1..n) :
         g[s] = IF s = {} THEN acc ELSE DrainStep(g[s \ {Max(s)}], seq[Max(s)])
  BY <1>1 DEF Looks
<1> DEFINE Good(a, j) ==
             /\ Started(h, a.host)
             /\ a.open => /\ Len(a.host.line) = n - j
                          /\ \A i \in 1..(n - j) : a.host.line[i] = seq[j + i]
           I == {j \in Nat : j <= n => Good(g[1..j], j)}
<1>6. g[{}] = acc /\ {} \in SUBSET (1..n)
  BY <1>5
<1>7. 0 \in I
  <2>1. 1..0 = {}
    OBVIOUS
  <2>2. \A i \in 1..n : seq[0 + i] = seq[i]
    OBVIOUS
  <2> QED  BY <1>0, <1>3, <1>4, <1>6, <2>1, <2>2
<1>8. ASSUME NEW j \in I  PROVE j + 1 \in I
  <2> SUFFICES ASSUME j + 1 <= n  PROVE Good(g[1..(j + 1)], j + 1)
    OBVIOUS
  <2>1. j \in Nat /\ j <= n /\ j + 1 \in 1..n
    BY <1>0
  <2> DEFINE a == g[1..j]
             b == g[1..(j + 1)]
             t == seq[j + 1]
  <2>2. Good(a, j)
    BY <2>1
  <2>3. b = DrainStep(a, t)
    <3>1. 1..(j + 1) \in SUBSET (1..n) /\ j + 1 \in 1..(j + 1)
      BY <1>0, <2>1
    <3>2. Max(1..(j + 1)) = j + 1
      BY <2>1, <3>1, LastPosition
    <3>3. (1..(j + 1)) \ {j + 1} = 1..j
      BY <2>1
    <3>4. 1..(j + 1) # {}
      BY <3>1
    <3> QED  BY <1>5, <3>1, <3>2, <3>3, <3>4
  <2> HIDE DEF a, b, t, I
  <2>4. CASE ~a.open
    <3>1. b = a
      BY <2>3, <2>4 DEF DrainStep
    <3> QED  BY <2>2, <2>4, <3>1 DEF b
  <2>5. CASE a.open
    <3>1. /\ Len(a.host.line) = n - j
          /\ \A i \in 1..(n - j) : a.host.line[i] = seq[j + i]
          /\ Started(h, a.host)
      BY <2>2, <2>5
    <3>2. a.host.line \in Seq(Turns)
      BY <3>1, Fields DEF Started, Stands
    <3>3. n - j \in Nat /\ 1 \in 1..(n - j) /\ n - j # 0
      BY <1>0, <2>1
    <3>4. a.host.line # <<>> /\ Head(a.host.line) = t
      <4>1. a.host.line[1] = seq[j + 1]
        BY <3>1, <3>3
      <4>2. a.host.line # <<>>
        BY <3>1, <3>3
      <4> QED  BY <3>2, <4>1, <4>2 DEF t
    <3>5. /\ Started(h, b.host)
          /\ b.open => b.host.line = Tail(a.host.line)
      BY <2>3, <2>5, <3>1, <3>4, DrainStepStands
    <3>6. ASSUME b.open
          PROVE  /\ Len(b.host.line) = n - (j + 1)
                 /\ \A i \in 1..(n - (j + 1)) : b.host.line[i] = seq[(j + 1) + i]
      <4>1. /\ Len(Tail(a.host.line)) = (n - j) - 1
            /\ \A i \in 1..((n - j) - 1) : Tail(a.host.line)[i] = a.host.line[i + 1]
        BY <3>1, <3>2, <3>3, <3>4
      <4>2. (n - j) - 1 = n - (j + 1)
        BY <1>0, <2>1
      <4>3. \A i \in 1..(n - (j + 1)) : i + 1 \in 1..(n - j) /\ j + (i + 1) = (j + 1) + i
        BY <1>0, <2>1
      <4>4. b.host.line = Tail(a.host.line)
        BY <3>5, <3>6
      <4>5. ASSUME NEW i \in 1..(n - (j + 1))
            PROVE  b.host.line[i] = seq[(j + 1) + i]
        <5>1. b.host.line[i] = a.host.line[i + 1]
          BY <4>1, <4>2, <4>4
        <5>2. a.host.line[i + 1] = seq[j + (i + 1)]
          BY <3>1, <4>3
        <5> QED  BY <4>3, <5>1, <5>2
      <4> QED  BY <4>1, <4>2, <4>4, <4>5
    <3> QED  BY <3>5, <3>6 DEF b
  <2> QED  BY <2>4, <2>5
<1>9. I = Nat
  <2>1. I \in SUBSET Nat
    OBVIOUS
  <2> HIDE DEF I
  <2> QED  BY <1>7, <1>8, <2>1, Induction
<1>10. Started(h, k)
  <2>1. n \in I
    BY <1>0, <1>9
  <2>2. Good(g[1..n], n)
    BY <1>0, <2>1
  <2> QED  BY <1>2, <2>2
<1>11. ASSUME h.line = <<>>  PROVE k = h
  <2>1. 1..n = {}
    BY <1>11
  <2> QED  BY <1>2, <1>3, <1>6, <2>1
<1> QED  BY <1>10, <1>11

\* k is what h becomes when t settles: a turn that was waiting for its own turn
\* may have commenced, and only one behind another without the line.
Settled(h, k, t) ==
    /\ Stands(k) /\ NoNewWaiter(h, k)
    /\ \A c : CalmIn(k, c) => CalmIn(h, c)
    /\ k.turn[t].stage = "done" /\ k.turn[t].gone = h.turn[t].gone
    /\ \A u \in Turns \ {t} :
          IF h.turn[u].stage \in {"line", "behind"}
          THEN /\ k.turn[u].stage \in
                     {"line", "thinking", "shopping", "errand", "behind"}
               /\ k.turn[u].gone = h.turn[u].gone
          ELSE k.turn[u] = h.turn[u]
    /\ h.line = <<>> =>
          /\ k.line = <<>>
          /\ \A u \in Turns : Live(k, u) =>
                Live(h, u) \/ ~CalmIn(k, k.turn[u].chat)

LEMMA SettleStands ==
    ASSUME NEW h, Stands(h), NEW t \in Turns, Live(h, t), Unwaited(h, t),
           NEW k, k = Settle(h, t)
    PROVE  Settled(h, k, t)
<1> DEFINE i == Idle(h, t)
           next == {s \in Turns : h.turn[s].after = t /\ h.turn[s].stage = "behind"}
           s == CHOOSE x \in next : TRUE
           w == IF next = {} THEN i ELSE Commence(i, s)
<1>1. k = IF MovesLine(h, t) THEN Drain(w) ELSE w
  BY DEF Settle, Idle
<1>2. /\ Stands(i) /\ NoNewWaiter(h, i)
      /\ i.line = h.line /\ i.held = h.held
      /\ \A u \in Turns \ {t} : i.turn[u] = h.turn[u]
      /\ i.turn[t].stage = "done" /\ i.turn[t].chat = h.turn[t].chat
      /\ i.turn[t].after = h.turn[t].after /\ i.turn[t].gone = h.turn[t].gone
  BY IdleStands
<1>3. \A c : CalmIn(i, c) => CalmIn(h, c)
  BY <1>2 DEF CalmIn
<1>4. next # {} => s \in next
  OBVIOUS
<1>5. next # {} => s \in Turns /\ h.turn[s].stage = "behind" /\ s # t
  BY <1>4, StageNames DEF Live, Going
<1> HIDE DEF i, next, s
<1>6. /\ Stands(w) /\ NoNewWaiter(h, w) /\ w.line = h.line
      /\ \A c : CalmIn(w, c) => CalmIn(h, c)
      /\ w.turn[t].stage = "done" /\ w.turn[t].gone = h.turn[t].gone
      /\ \A u \in Turns \ {t} :
            \/ w.turn[u] = h.turn[u]
            \/ /\ h.turn[u].stage = "behind"
               /\ w.turn[u].stage \in {"thinking", "shopping", "errand"}
               /\ w.turn[u].gone = h.turn[u].gone
               /\ w.turn[u].after # None
  <2>1. CASE next = {}
    BY <1>2, <1>3, <2>1
  <2>2. CASE next # {}
    <3>0. w = Commence(i, s) /\ s \in Turns /\ s # t /\ h.turn[s].stage = "behind"
          /\ i.turn[s] = h.turn[s]
      BY <1>2, <1>5, <2>2
    <3> HIDE DEF w
    <3>1. /\ Stands(w) /\ NoNewWaiter(i, w)
          /\ w.line = i.line /\ w.held = i.held
          /\ \A u \in Turns \ {s} : w.turn[u] = i.turn[u]
          /\ w.turn[s].stage \in {"thinking", "shopping", "errand"}
          /\ w.turn[s].chat = i.turn[s].chat /\ w.turn[s].after = i.turn[s].after
          /\ w.turn[s].after # None /\ w.turn[s].gone = i.turn[s].gone
      <4>1. i.turn[s].stage = "behind"
        BY <3>0
      <4> QED  BY <1>2, <3>0, <4>1, CommenceStands
    <3>2. \A c : CalmIn(w, c) => CalmIn(i, c)
      BY <3>1 DEF CalmIn
    <3>3. NoNewWaiter(h, w)
      BY <1>2, <3>1 DEF NoNewWaiter
    <3>4. ASSUME NEW u \in Turns \ {t}
          PROVE  \/ w.turn[u] = h.turn[u]
                 \/ /\ h.turn[u].stage = "behind"
                    /\ w.turn[u].stage \in {"thinking", "shopping", "errand"}
                    /\ w.turn[u].gone = h.turn[u].gone
                    /\ w.turn[u].after # None
      <4>1. CASE u = s
        BY <3>0, <3>1, <4>1
      <4>2. CASE u # s
        BY <1>2, <3>1, <4>2
      <4> QED  BY <4>1, <4>2
    <3>5. w.turn[t] = i.turn[t]
      BY <3>0, <3>1
    <3> QED  BY <1>2, <1>3, <3>1, <3>2, <3>3, <3>4, <3>5
  <2> QED  BY <2>1, <2>2
<1> HIDE DEF w
<1>7. \/ k = w
      \/ Started(w, k) /\ (w.line = <<>> => k = w)
  <2>1. Started(w, Drain(w)) /\ (w.line = <<>> => Drain(w) = w)
    BY <1>6, DrainStands
  <2> QED  BY <1>1, <2>1
<1>8. Started(w, w)
  BY <1>6 DEF Started, NoNewWaiter
<1>9. Started(w, k) /\ (h.line = <<>> => k = w)
  BY <1>6, <1>7, <1>8
<1>10. Stands(k) /\ NoNewWaiter(h, k) /\ \A c : CalmIn(k, c) => CalmIn(h, c)
  BY <1>6, <1>9 DEF Started, NoNewWaiter
<1>11. k.turn[t].stage = "done" /\ k.turn[t].gone = h.turn[t].gone
  BY <1>6, <1>9 DEF Started
<1>12. ASSUME NEW u \in Turns \ {t}
       PROVE  IF h.turn[u].stage \in {"line", "behind"}
              THEN /\ k.turn[u].stage \in
                         {"line", "thinking", "shopping", "errand", "behind"}
                   /\ k.turn[u].gone = h.turn[u].gone
              ELSE k.turn[u] = h.turn[u]
  <2>1. IF w.turn[u].stage = "line"
        THEN /\ k.turn[u].stage \in
                   {"line", "thinking", "shopping", "errand", "behind"}
             /\ k.turn[u].gone = w.turn[u].gone
        ELSE k.turn[u] = w.turn[u]
    BY <1>9 DEF Started
  <2>2. CASE w.turn[u] = h.turn[u]
    BY <2>1, <2>2
  <2>3. CASE /\ h.turn[u].stage = "behind"
             /\ w.turn[u].stage \in {"thinking", "shopping", "errand"}
             /\ w.turn[u].gone = h.turn[u].gone
             /\ w.turn[u].after # None
    BY <2>1, <2>3
  <2> QED  BY <1>6, <2>2, <2>3
<1>13. ASSUME h.line = <<>>, NEW u \in Turns, Live(k, u)
       PROVE  Live(h, u) \/ ~CalmIn(k, k.turn[u].chat)
  <2>1. k = w /\ u # t
    BY <1>9, <1>11, <1>13 DEF Live, Waits, Works
  <2>2. w.turn[u] = h.turn[u] => Live(h, u)
    BY <1>13, <2>1 DEF Live
  <2>3. w.turn[u].after # None => ~CalmIn(k, k.turn[u].chat)
    BY <2>1 DEF CalmIn
  <2> QED  BY <1>6, <2>1, <2>2, <2>3
<1>14. h.line = <<>> => k.line = <<>>
  BY <1>6, <1>9
<1> QED  BY <1>10, <1>11, <1>12, <1>13, <1>14 DEF Settled

-----------------------------------------------------------------------------
(* A run goes on: it waits, is signed for, works.                          *)

\* A run, r after, goes on with its lane, m after: both stay what they are to
\* each other, and a gate gains no waiter but that run, standing there.
GoesOn(h, t, r, m) ==
    LET l == h.turn[t].lane IN
    /\ r.chat = h.turn[t].chat /\ r.lane = l
    /\ r.after = h.turn[t].after /\ r.gone = h.turn[t].gone /\ Going(r.stage)
    /\ m.chat = h.lane[l].chat /\ m.running = h.lane[l].running
    /\ m.intent.waiter # None =>
          \/ m.intent.waiter = t /\ r.stage = "intent"
          \/ m.intent.waiter # t /\ m.intent.waiter = h.lane[l].intent.waiter
    /\ m.cart.waiter # None =>
          \/ m.cart.waiter = t /\ r.stage = "cart"
          \/ m.cart.waiter # t /\ m.cart.waiter = h.lane[l].cart.waiter
    /\ r.stage = "intent" => m.intent.waiter = t
    /\ r.stage = "cart" => m.cart.waiter = t
    /\ CalmIn(h, r.chat) /\ Signless(r) => ~m.cart.released

LEMMA LiveStands ==
    ASSUME NEW h, Stands(h), NEW t \in Turns, Live(h, t),
           NEW l, l = h.turn[t].lane, NEW k, Local(h, k, t, l),
           NEW r, r = k.turn[t], NEW m, m = k.lane[l], GoesOn(h, t, r, m)
    PROVE  /\ Stands(k)
           /\ \A c : CalmIn(k, c) => CalmIn(h, c)
<1>0. h \in Hosts /\ Unfinished(h, t)
  BY DEF Stands, Unfinished
<1>1. l \in Lanes /\ h.turn[t].chat \in Chats /\ h.lane[l].chat = h.turn[t].chat
  BY <1>0, LaneMates
<1>2. t \notin Range(h.line)
  BY <1>0 DEF Stands, LineStands, Range, Live, Waits, Works
<1>3. \A c : CalmIn(k, c) => CalmIn(h, c)
  <2>1. \A u \in Turns \ {t} : k.turn[u] = h.turn[u]
    BY Zenon DEF Local
  <2>2. k.turn[t].chat = h.turn[t].chat /\ k.turn[t].after = h.turn[t].after
    BY DEF GoesOn
  <2> QED  BY <2>1, <2>2 DEF CalmIn
<1>4. ASSUME NEW u \in Turns \ {t}, Live(h, u), h.turn[u].lane = l
      PROVE  ~CalmIn(k, h.turn[u].chat)
  <2>1. h.turn[u].chat = h.turn[t].chat
    BY <1>4, <1>1, LaneMates DEF Unfinished
  <2>2. CalmIn(k, h.turn[u].chat) => CalmIn(h, h.turn[u].chat)
    BY <1>3
  <2>3. CalmIn(h, h.turn[u].chat) => h.lane[l].running = t /\ h.lane[l].running = u
    BY <1>4, <2>1, RunnerKnown
  <2> QED  BY <2>2, <2>3
<1>5. ASSUME NEW b \in Lanes \ {l}
      PROVE  h.lane[b].intent.waiter # t /\ h.lane[b].cart.waiter # t
  <2>1. t # None /\ GateStands(h, b)
    BY Bounds DEF Stands
  <2>2. h.lane[b].intent.waiter = t => h.turn[t].lane = b
    BY <2>1 DEF GateStands
  <2>3. h.lane[b].cart.waiter = t => h.turn[t].lane = b
    BY <2>1 DEF GateStands
  <2>4. h.turn[t].lane # b
    BY Zenon
  <2> QED  BY <2>2, <2>3, <2>4
<1>6. /\ r.chat = h.turn[t].chat /\ r.lane = l
      /\ r.after = h.turn[t].after /\ r.gone = h.turn[t].gone /\ Going(r.stage)
      /\ m.chat = h.lane[l].chat /\ m.running = h.lane[l].running
      /\ r.stage = "intent" => m.intent.waiter = t
      /\ r.stage = "cart" => m.cart.waiter = t
      /\ CalmIn(h, r.chat) /\ Signless(r) => ~m.cart.released
  BY DEF GoesOn
<1>7. Kept(r)
  BY <1>6, StageNames DEF Kept
<1>8. Placed(r, m, Range(h.held))
  <2>1. Placed(h.turn[t], h.lane[l], Range(h.held))
    BY <1>0, Zenon DEF Stands, TurnStands
  <2> QED  BY <1>6, <2>1 DEF Placed
<1>9. ASSUME CalmIn(k, r.chat)  PROVE Owed(t, r, m, Range(h.held))
  <2>1. CalmIn(h, h.turn[t].chat) /\ CalmIn(h, r.chat)
    BY <1>3, <1>6, <1>9
  <2>2. /\ h.lane[h.turn[t].lane].running = t
        /\ h.turn[t].gone \/ h.turn[t].lane \in Range(h.held)
    BY <2>1, RunnerKnown
  <2>3. m.running = t /\ (r.gone \/ r.lane \in Range(h.held))
    BY <1>6, <2>2, Zenon
  <2> QED  BY <1>6, <2>1, <2>3 DEF Owed
<1>10. /\ m.intent.waiter # None =>
              \/ m.intent.waiter = t /\ r.stage = "intent" /\ r.lane = l
              \/ m.intent.waiter # t /\ m.intent.waiter = h.lane[l].intent.waiter
       /\ m.cart.waiter # None =>
              \/ m.cart.waiter = t /\ r.stage = "cart" /\ r.lane = l
              \/ m.cart.waiter # t /\ m.cart.waiter = h.lane[l].cart.waiter
  BY <1>6 DEF GoesOn
<1>11. /\ r.chat = h.turn[t].chat /\ m.chat = h.lane[l].chat
       /\ h.turn[t].after # None => r.after # None
       /\ Pending(r.stage) => r.lane = l /\ Placed(r, m, Range(h.held))
       /\ Going(r.stage) /\ CalmIn(k, r.chat) => Owed(t, r, m, Range(h.held))
  BY <1>6, <1>8, <1>9
<1>12. r = k.turn[t] /\ m = k.lane[l] /\ Local(h, k, t, l) /\ Stands(h)
  OBVIOUS
<1> QED
  BY ONLY <1>1, <1>2, <1>4, <1>5, <1>7, <1>10, <1>11, <1>12, LocalStands,
     t \in Turns

\* A run goes on to its next work.
LEMMA MovedStands ==
    ASSUME NEW h, Stands(h), NEW t \in Turns, Live(h, t), Unwaited(h, t),
           NEW s \in Works, NEW k, k = Moved(h, t, s),
           CalmIn(h, h.turn[t].chat) /\ Signless(k.turn[t]) =>
              ~h.lane[h.turn[t].lane].cart.released
    PROVE  /\ Stands(k) /\ NoNewWaiter(h, k)
           /\ \A c : CalmIn(k, c) => CalmIn(h, c)
           /\ k.line = h.line /\ k.held = h.held /\ k.lane = h.lane
           /\ \A u \in Turns \ {t} : k.turn[u] = h.turn[u]
           /\ k.turn[t].stage = s /\ k.turn[t].gone = h.turn[t].gone
<1> DEFINE l == h.turn[t].lane
<1>0. h \in Hosts /\ Unfinished(h, t) /\ Going(s) /\ s \notin Waits /\ s \in Stages
  BY DEF Stands, Unfinished, Going, Waits, Works, Stages
<1>1. l \in Lanes
  BY <1>0, LaneMates
<1>2. /\ k \in Hosts /\ k.lane = h.lane /\ k.line = h.line /\ k.held = h.held
      /\ \A u \in Turns \ {t} : k.turn[u] = h.turn[u]
      /\ k.turn[t].stage = s /\ k.turn[t].chat = h.turn[t].chat
      /\ k.turn[t].kind = h.turn[t].kind /\ k.turn[t].lane = h.turn[t].lane
      /\ k.turn[t].after = h.turn[t].after /\ k.turn[t].gone = h.turn[t].gone
  BY <1>0, MovedShape
<1>3. Local(h, k, t, l)
  BY <1>2 DEF Local
<1>4. h.lane[l].intent.waiter # t /\ h.lane[l].cart.waiter # t
  BY <1>1 DEF Unwaited
<1>5. k.turn[t].stage # "intent" /\ k.turn[t].stage # "cart"
  BY <1>0, <1>2, Zenon DEF Waits
<1>a. GoesOn(h, t, k.turn[t], k.lane[l])
  BY <1>0, <1>2, <1>4, <1>5 DEF GoesOn
<1>6. Stands(k) /\ \A c : CalmIn(k, c) => CalmIn(h, c)
  BY <1>3, <1>a, LiveStands
<1>7. NoNewWaiter(h, k)
  BY <1>2 DEF NoNewWaiter, Unwaited
<1> QED  BY <1>2, <1>6, <1>7

\* A lane's cart is proposed, or its checkout parked: the gates stand.
LEMMA FlagStands ==
    ASSUME NEW h, Stands(h), NEW t \in Turns, Live(h, t), Unwaited(h, t),
           h.turn[t].stage \in Works,
           NEW k, \/ k = Proposed(h, t)
                  \/ \E b \in BOOLEAN : k = [h EXCEPT !.lane[h.turn[t].lane].parked = b]
    PROVE  /\ Stands(k) /\ NoNewWaiter(h, k)
           /\ k.turn = h.turn /\ k.line = h.line /\ k.held = h.held
           /\ k.lane[h.turn[t].lane].cart = h.lane[h.turn[t].lane].cart
<1> DEFINE l == h.turn[t].lane
<1>0. h \in Hosts /\ Unfinished(h, t)
  BY DEF Stands, Unfinished
<1>1. l \in Lanes /\ h.lane[l] \in LaneRecord
  <2>1. l \in Lanes
    BY <1>0, LaneMates
  <2> QED  BY <1>0, <2>1, Fields
<1> HIDE DEF l
<1>2. \E m \in LaneRecord :
         /\ m.chat = h.lane[l].chat /\ m.running = h.lane[l].running
         /\ m.intent = h.lane[l].intent /\ m.cart = h.lane[l].cart
         /\ k = WithLane(h, l, m)
  <2>1. ASSUME k = Proposed(h, t)
        PROVE  \E m \in LaneRecord :
                 /\ m.chat = h.lane[l].chat /\ m.running = h.lane[l].running
                 /\ m.intent = h.lane[l].intent /\ m.cart = h.lane[l].cart
                 /\ k = WithLane(h, l, m)
    <3> DEFINE m == [h.lane[l] EXCEPT !.proposal = TRUE]
    <3>1. m \in LaneRecord
      BY <1>1 DEF LaneRecord
    <3>2. /\ m.chat = h.lane[l].chat /\ m.running = h.lane[l].running
          /\ m.intent = h.lane[l].intent /\ m.cart = h.lane[l].cart
      BY <1>1 DEF LaneRecord
    <3>3. k = WithLane(h, l, m)
      BY <2>1 DEF Proposed, WithLane, l
    <3> HIDE DEF m
    <3> QED  BY <3>1, <3>2, <3>3
  <2>2. ASSUME NEW b \in BOOLEAN, k = [h EXCEPT !.lane[h.turn[t].lane].parked = b]
        PROVE  \E m \in LaneRecord :
                 /\ m.chat = h.lane[l].chat /\ m.running = h.lane[l].running
                 /\ m.intent = h.lane[l].intent /\ m.cart = h.lane[l].cart
                 /\ k = WithLane(h, l, m)
    <3> DEFINE m == [h.lane[l] EXCEPT !.parked = b]
    <3>1. m \in LaneRecord
      BY <1>1 DEF LaneRecord
    <3>2. /\ m.chat = h.lane[l].chat /\ m.running = h.lane[l].running
          /\ m.intent = h.lane[l].intent /\ m.cart = h.lane[l].cart
      BY <1>1, Zenon DEF LaneRecord
    <3>3. k = WithLane(h, l, m)
      BY <2>2 DEF WithLane, l
    <3> HIDE DEF m
    <3> QED  BY <3>1, <3>2, <3>3
  <2> QED  BY <2>1, <2>2
<1>3. PICK m \in LaneRecord :
         /\ m.chat = h.lane[l].chat /\ m.running = h.lane[l].running
         /\ m.intent = h.lane[l].intent /\ m.cart = h.lane[l].cart
         /\ k = WithLane(h, l, m)
  BY <1>2
<1>4. /\ k \in Hosts /\ k.lane[l] = m
      /\ k.turn = h.turn /\ k.line = h.line /\ k.held = h.held
      /\ \A b \in Lanes \ {l} : k.lane[b] = h.lane[b]
  BY <1>0, <1>1, <1>3, LaneSet
<1>5. Local(h, k, t, l)
  BY <1>4 DEF Local
<1>6. h.lane[l].intent.waiter # t /\ h.lane[l].cart.waiter # t
  BY <1>1 DEF Unwaited
<1>7. /\ k.turn[t].stage # "intent" /\ k.turn[t].stage # "cart"
      /\ Going(k.turn[t].stage)
  BY <1>4 DEF Works, Going
<1>a. /\ k.lane[l].chat = h.lane[l].chat /\ k.lane[l].running = h.lane[l].running
      /\ k.lane[l].intent = h.lane[l].intent /\ k.lane[l].cart = h.lane[l].cart
  BY <1>3, <1>4
<1>b. l = h.turn[t].lane
  BY DEF l
<1>8. Stands(k)
  <2>1. CalmIn(h, k.turn[t].chat) /\ Signless(k.turn[t]) => ~k.lane[l].cart.released
    <3>1. k.turn[t] = h.turn[t]
      BY <1>4
    <3>2. CalmIn(h, h.turn[t].chat) /\ Signless(h.turn[t])
             => ~h.lane[h.turn[t].lane].cart.released
      BY RunnerKnown
    <3> QED  BY <1>a, <1>b, <3>1, <3>2
  <2>2. /\ k.turn[t].chat = h.turn[t].chat /\ k.turn[t].lane = l
        /\ k.turn[t].after = h.turn[t].after /\ k.turn[t].gone = h.turn[t].gone
    BY <1>4, <1>b
  <2>3. /\ k.lane[l].intent.waiter # None =>
             \/ k.lane[l].intent.waiter = t /\ k.turn[t].stage = "intent"
             \/ k.lane[l].intent.waiter # t
                /\ k.lane[l].intent.waiter = h.lane[l].intent.waiter
        /\ k.lane[l].cart.waiter # None =>
             \/ k.lane[l].cart.waiter = t /\ k.turn[t].stage = "cart"
             \/ k.lane[l].cart.waiter # t
                /\ k.lane[l].cart.waiter = h.lane[l].cart.waiter
        /\ k.turn[t].stage = "intent" => k.lane[l].intent.waiter = t
        /\ k.turn[t].stage = "cart" => k.lane[l].cart.waiter = t
    BY <1>6, <1>7, <1>a, Zenon
  <2>4. GoesOn(h, t, k.turn[t], k.lane[l])
    BY <1>7, <1>a, <1>b, <2>1, <2>2, <2>3, Zenon DEF GoesOn
  <2> QED  BY <1>5, <1>b, <2>4, LiveStands, Zenon
<1>9. NoNewWaiter(h, k)
  BY <1>1, <1>3, <1>4, <1>5, SameWaiters
<1> QED  BY <1>4, <1>8, <1>9, <1>a, <1>b

\* A gate of a lane, as the calls name it.
WithGate(m, s, g) == [m EXCEPT ![s] = g]

LEMMA GateNames ==
    ASSUME NEW m \in LaneRecord
    PROVE  m["intent"] = m.intent /\ m["cart"] = m.cart
BY DEF LaneRecord

LEMMA GateSet ==
    ASSUME NEW m \in LaneRecord, NEW g \in Gate, NEW s \in Waits,
           NEW n, n = WithGate(m, s, g)
    PROVE  /\ n \in LaneRecord /\ n.chat = m.chat /\ n.running = m.running
           /\ s = "intent" => n.intent = g /\ n.cart = m.cart
           /\ s = "cart" => n.cart = g /\ n.intent = m.intent
<1>1. /\ [m EXCEPT !["intent"] = g] \in LaneRecord
      /\ [m EXCEPT !["intent"] = g].intent = g
      /\ [m EXCEPT !["intent"] = g].cart = m.cart
      /\ [m EXCEPT !["intent"] = g].chat = m.chat
      /\ [m EXCEPT !["intent"] = g].running = m.running
  BY DEF LaneRecord
<1>2. /\ [m EXCEPT !["cart"] = g] \in LaneRecord
      /\ [m EXCEPT !["cart"] = g].cart = g
      /\ [m EXCEPT !["cart"] = g].intent = m.intent
      /\ [m EXCEPT !["cart"] = g].chat = m.chat
      /\ [m EXCEPT !["cart"] = g].running = m.running
  BY DEF LaneRecord
<1>3. CASE s = "intent"
  BY <1>1, <1>3 DEF WithGate
<1>4. CASE s = "cart"
  BY <1>2, <1>4 DEF WithGate
<1> QED  BY <1>3, <1>4 DEF Waits

\* What a run does at a gate that is shut.
Shut(h, t, l, s) == [Moved(h, t, s) EXCEPT !.lane[l][s].waiter = t]

LEMMA ShutShape ==
    ASSUME NEW h \in Hosts, NEW t \in Turns, NEW l \in Lanes, l = h.turn[t].lane,
           NEW s \in Waits, NEW k, k = Shut(h, t, l, s)
    PROVE  /\ Local(h, k, t, l)
           /\ k.turn[t].stage = s /\ k.turn[t].chat = h.turn[t].chat
           /\ k.turn[t].kind = h.turn[t].kind /\ k.turn[t].lane = l
           /\ k.turn[t].after = h.turn[t].after /\ k.turn[t].gone = h.turn[t].gone
           /\ k.lane[l].chat = h.lane[l].chat /\ k.lane[l].running = h.lane[l].running
           /\ s = "intent" => k.lane[l].intent.waiter = t /\ k.lane[l].cart = h.lane[l].cart
           /\ s = "cart" => /\ k.lane[l].cart.waiter = t
                            /\ k.lane[l].cart.released = h.lane[l].cart.released
                            /\ k.lane[l].intent = h.lane[l].intent
<1> DEFINE p == Moved(h, t, s)
           a == h.lane[l]
           g == [a[s] EXCEPT !.waiter = t]
           m == WithGate(a, s, g)
<1>0. s \in Stages /\ (s = "intent" \/ s = "cart")
  BY DEF Stages, Waits
<1>1. /\ p \in Hosts /\ p.lane = h.lane /\ p.line = h.line /\ p.held = h.held
      /\ \A u \in Turns \ {t} : p.turn[u] = h.turn[u]
      /\ p.turn[t].stage = s /\ p.turn[t].chat = h.turn[t].chat
      /\ p.turn[t].kind = h.turn[t].kind /\ p.turn[t].lane = h.turn[t].lane
      /\ p.turn[t].after = h.turn[t].after /\ p.turn[t].gone = h.turn[t].gone
  BY <1>0, MovedShape
<1> HIDE DEF p
<1>2. a \in LaneRecord
  BY Fields
<1>3. a[s] \in Gate
  BY <1>0, <1>2, GateNames, Fields
<1>4. g \in Gate /\ g.waiter = t /\ g.released = a[s].released
  BY <1>3 DEF Gate
<1>5. k = WithLane(p, l, m)
  BY <1>1 DEF Shut, WithLane, WithGate, p
<1>6. a["intent"] = a.intent /\ a["cart"] = a.cart
  BY <1>2, GateNames
<1> HIDE DEF a, g
<1>7. /\ m \in LaneRecord /\ m.chat = a.chat /\ m.running = a.running
      /\ s = "intent" => m.intent = g /\ m.cart = a.cart
      /\ s = "cart" => m.cart = g /\ m.intent = a.intent
  BY <1>2, <1>4, GateSet
<1> HIDE DEF m
<1>8. /\ k \in Hosts /\ k.lane[l] = m
      /\ k.turn = p.turn /\ k.line = p.line /\ k.held = p.held
      /\ \A b \in Lanes \ {l} : k.lane[b] = p.lane[b]
  BY ONLY <1>1, <1>5, <1>7, LaneSet, l \in Lanes
<1>9. Local(h, k, t, l)
  BY <1>1, <1>8 DEF Local
<1> QED  BY <1>1, <1>4, <1>6, <1>7, <1>8, <1>9 DEF a

\* k is what h becomes when only run t goes on, and is a run still.
Went(h, k, t) ==
    /\ Stands(k)
    /\ \A c : CalmIn(k, c) => CalmIn(h, c)
    /\ k.line = h.line /\ k.held = h.held
    /\ \A u \in Turns \ {t} : k.turn[u] = h.turn[u]
    /\ k.turn[t].gone = h.turn[t].gone /\ Live(k, t)

LEMMA WaitStands ==
    ASSUME NEW h, Stands(h), NEW t \in Turns, Live(h, t), Unwaited(h, t),
           NEW s \in Waits, NEW onward,
           \/ s = "intent" /\ h.turn[t].stage = "thinking" /\ onward = "issuing"
           \/ s = "cart" /\ h.turn[t].stage = "shopping" /\ onward = "paying",
           NEW k, k = Wait(h, t, s, onward)
    PROVE  /\ Went(h, k, t)
           /\ k.turn[t].stage \in {s, onward}
           /\ k.turn[t].stage = "paying" => ~CalmIn(h, h.turn[t].chat)
<1> DEFINE l == h.turn[t].lane
<1>0. h \in Hosts /\ Unfinished(h, t)
  BY DEF Stands, Unfinished
<1>1. l \in Lanes /\ h.lane[l] \in LaneRecord
  <2>1. l \in Lanes
    BY <1>0, LaneMates
  <2> QED  BY <1>0, <2>1, Fields
<1>2. /\ h.lane[l]["intent"] = h.lane[l].intent
      /\ h.lane[l]["cart"] = h.lane[l].cart
  BY <1>1, GateNames
<1>3. CalmIn(h, h.turn[t].chat) /\ Signless(h.turn[t]) => ~h.lane[l].cart.released
  BY RunnerKnown
<1>4. k = IF h.lane[l][s].released THEN Moved(h, t, onward)
          ELSE Shut(h, t, l, s)
  BY DEF Wait, Shut
<1>a. l = h.turn[t].lane
  OBVIOUS
<1> HIDE DEF l
<1>5. CASE h.lane[l][s].released
  <2>1. k = Moved(h, t, onward) /\ onward \in Works /\ onward \in Stages
    BY <1>4, <1>5 DEF Works, Stages
  <2>2. /\ k.turn[t].stage = onward /\ k.turn[t].kind = h.turn[t].kind
    BY <1>0, <2>1, MovedShape
  <2>3. Signless(k.turn[t]) => Signless(h.turn[t])
    BY <2>2 DEF Signless
  <2>4. /\ Stands(k) /\ \A c : CalmIn(k, c) => CalmIn(h, c)
        /\ k.line = h.line /\ k.held = h.held
        /\ \A u \in Turns \ {t} : k.turn[u] = h.turn[u]
        /\ k.turn[t].gone = h.turn[t].gone
    <3>1. CalmIn(h, h.turn[t].chat) /\ Signless(k.turn[t]) =>
             ~h.lane[h.turn[t].lane].cart.released
      BY <1>3, <1>a, <2>3
    <3> QED  BY <2>1, <3>1, MovedStands
  <2>5. onward = "paying" => ~CalmIn(h, h.turn[t].chat)
    <3>1. onward = "paying" => s = "cart" /\ Signless(h.turn[t])
      BY DEF Signless
    <3> QED  BY <1>2, <1>3, <1>5, <3>1
  <2>6. Live(k, t)
    BY <2>1, <2>2 DEF Live
  <2> QED  BY <2>2, <2>4, <2>5, <2>6 DEF Went
<1>6. CASE ~h.lane[l][s].released
  <2>1. k = Shut(h, t, l, s)
    BY <1>4, <1>6, Zenon
  <2>2. /\ Local(h, k, t, l)
        /\ k.turn[t].stage = s /\ k.turn[t].chat = h.turn[t].chat
        /\ k.turn[t].kind = h.turn[t].kind /\ k.turn[t].lane = l
        /\ k.turn[t].after = h.turn[t].after /\ k.turn[t].gone = h.turn[t].gone
        /\ k.lane[l].chat = h.lane[l].chat /\ k.lane[l].running = h.lane[l].running
        /\ s = "intent" => k.lane[l].intent.waiter = t /\ k.lane[l].cart = h.lane[l].cart
        /\ s = "cart" => /\ k.lane[l].cart.waiter = t
                         /\ k.lane[l].cart.released = h.lane[l].cart.released
                         /\ k.lane[l].intent = h.lane[l].intent
    BY ONLY <1>0, <1>1, <1>a, <2>1, ShutShape, t \in Turns, s \in Waits
  <2>3. h.lane[l].intent.waiter # t /\ h.lane[l].cart.waiter # t
    BY <1>1 DEF Unwaited
  <2>4. CalmIn(h, k.turn[t].chat) /\ Signless(k.turn[t]) => ~k.lane[l].cart.released
    <3>1. Signless(k.turn[t]) => s = "intent" /\ Signless(h.turn[t])
      BY <2>2, Zenon DEF Signless
    <3> QED  BY <1>3, <2>2, <3>1
  <2>5. GoesOn(h, t, k.turn[t], k.lane[l])
    BY <1>a, <2>2, <2>3, <2>4, Zenon DEF GoesOn, Going
  <2>6. Stands(k) /\ \A c : CalmIn(k, c) => CalmIn(h, c)
    BY <1>a, <2>2, <2>5, LiveStands
  <2>7. Live(k, t) /\ k.turn[t].stage # "paying"
    BY <2>2, Zenon DEF Live, Waits
  <2> QED  BY <2>2, <2>6, <2>7 DEF Went, Local
<1> QED  BY <1>5, <1>6

\* A shopper's signature lets the run that waits go on, and nothing else.
LEMMA SignStands ==
    ASSUME NEW h, Stands(h), NEW l \in Lanes, NEW s \in Waits, NEW onward,
           \/ s = "intent" /\ onward = "issuing"
           \/ s = "cart" /\ onward = "paying",
           NEW w, w = h.lane[l][s].waiter, w # None,
           NEW k, k = Sign(h, l, s, onward)
    PROVE  /\ w \in Turns /\ h.turn[w].stage = s /\ h.turn[w].lane = l
           /\ Went(h, k, w) /\ k.turn[w].stage = onward
<1> DEFINE a == h.lane[l]
           g == [released |-> TRUE, waiter |-> None]
           o == WithLane(h, l, WithGate(a, s, g))
<1>0. h \in Hosts /\ a \in LaneRecord
  BY Fields DEF Stands
<1>1. g \in Gate /\ g.waiter = None
  BY DEF Gate
<1>2. a["intent"] = a.intent /\ a["cart"] = a.cart
  BY <1>0, GateNames
<1>3. k = Moved(o, w, onward)
  BY DEF Sign, WithLane, WithGate
<1>4. w \in Turns /\ h.turn[w].stage = s /\ h.turn[w].lane = l
  <2>1. GateStands(h, l)
    BY DEF Stands
  <2>2. a.intent.waiter \in Turns \cup {None} /\ a.cart.waiter \in Turns \cup {None}
    BY <1>0, Fields
  <2> QED  BY <1>2, <2>1, <2>2 DEF GateStands, Waits
<1> DEFINE m == WithGate(a, s, g)
<1> HIDE DEF g
<1>5. /\ m \in LaneRecord /\ m.chat = a.chat /\ m.running = a.running
      /\ s = "intent" => m.intent = g /\ m.cart = a.cart
      /\ s = "cart" => m.cart = g /\ m.intent = a.intent
  BY <1>0, <1>1, GateSet
<1>6. o = WithLane(h, l, m)
  OBVIOUS
<1> HIDE DEF m, o
<1>7. /\ o \in Hosts /\ o.lane[l] = m
      /\ o.turn = h.turn /\ o.line = h.line /\ o.held = h.held
      /\ \A b \in Lanes \ {l} : o.lane[b] = h.lane[b]
  BY <1>0, <1>5, <1>6, LaneSet
<1>8. onward \in Works /\ onward \in Stages
  BY DEF Works, Stages
<1>9. /\ k \in Hosts /\ k.lane = o.lane /\ k.line = o.line /\ k.held = o.held
      /\ \A u \in Turns \ {w} : k.turn[u] = o.turn[u]
      /\ k.turn[w].stage = onward /\ k.turn[w].chat = o.turn[w].chat
      /\ k.turn[w].kind = o.turn[w].kind /\ k.turn[w].lane = o.turn[w].lane
      /\ k.turn[w].after = o.turn[w].after /\ k.turn[w].gone = o.turn[w].gone
  BY ONLY <1>3, <1>4, <1>7, <1>8, MovedShape
<1>10. Local(h, k, w, l)
  BY <1>7, <1>9, Zenon DEF Local
<1>11. Live(h, w) /\ Live(k, w)
  BY <1>4, <1>8, <1>9, Zenon DEF Live
<1>12. CalmIn(h, h.turn[w].chat) /\ Signless(h.turn[w]) => ~a.cart.released
  BY <1>4, <1>11, RunnerKnown, Zenon
<1>13. /\ a.intent.waiter # None => h.turn[a.intent.waiter].stage = "intent"
       /\ a.cart.waiter # None => h.turn[a.cart.waiter].stage = "cart"
  BY Zenon DEF Stands, GateStands
<1>14. Signless(k.turn[w]) => s = "intent" /\ Signless(h.turn[w])
  BY <1>4, <1>7, <1>9 DEF Signless
<1>15. /\ k.lane[l].intent.waiter # None =>
             k.lane[l].intent.waiter # w /\ k.lane[l].intent.waiter = h.lane[l].intent.waiter
       /\ k.lane[l].cart.waiter # None =>
             k.lane[l].cart.waiter # w /\ k.lane[l].cart.waiter = h.lane[l].cart.waiter
  <2>1. k.lane[l] = m
    BY <1>7, <1>9
  <2>2. CASE s = "intent"
    BY <1>1, <1>4, <1>5, <1>13, <2>1, <2>2
  <2>3. CASE s = "cart"
    BY <1>1, <1>4, <1>5, <1>13, <2>1, <2>3, Zenon
  <2> QED  BY <2>2, <2>3, Zenon
<1>16. /\ k.turn[w].stage # "intent" /\ k.turn[w].stage # "cart"
       /\ Going(k.turn[w].stage)
  BY <1>8, <1>9, Zenon DEF Going
<1>17. k.lane[l] = m
  BY <1>7, <1>9
<1>18. CalmIn(h, k.turn[w].chat) /\ Signless(k.turn[w]) => ~k.lane[l].cart.released
  BY <1>5, <1>7, <1>9, <1>12, <1>14, <1>17, ZenonT(40)
<1>19. GoesOn(h, w, k.turn[w], k.lane[l])
  <2>1. /\ k.turn[w].chat = h.turn[w].chat /\ k.turn[w].lane = l
        /\ k.turn[w].after = h.turn[w].after /\ k.turn[w].gone = h.turn[w].gone
        /\ k.lane[l].chat = h.lane[l].chat /\ k.lane[l].running = h.lane[l].running
    BY <1>4, <1>5, <1>7, <1>9, <1>17
  <2> QED  BY <1>4, <1>15, <1>16, <1>18, <2>1, Zenon DEF GoesOn
<1>20. Stands(k) /\ \A c : CalmIn(k, c) => CalmIn(h, c)
  BY <1>4, <1>10, <1>11, <1>19, LiveStands
<1> QED  BY <1>4, <1>7, <1>9, <1>11, <1>20, Zenon DEF Went

-----------------------------------------------------------------------------
(* The steps of a run.                                                     *)

\* A lane object nothing refers to is collected: no turn and no gate loses by it.
LEMMA BecomeStands ==
    ASSUME NEW k, Stands(k), Become(k)
    PROVE  /\ Stands(Host)' /\ turn' = k.turn /\ line' = k.line /\ held' = k.held
<1>0. /\ k \in Hosts /\ (\A t \in Turns : TurnStands(k, t))
      /\ (\A l \in Lanes : GateStands(k, l)) /\ LineStands(k) /\ HeldStands(k)
  BY DEF Stands
<1>1. /\ turn' = k.turn /\ line' = k.line /\ held' = k.held
      /\ lane' = [l \in Lanes |->
                    IF l \in Unused(k) THEN FreshLane(None) ELSE k.lane[l]]
  BY DEF Become
<1> DEFINE n == Host'
<1>2. n.turn = k.turn /\ n.line = k.line /\ n.held = k.held /\ n.lane = lane'
  BY <1>1 DEF Host
<1>3. FreshLane(None) \in LaneRecord
  BY Fields DEF FreshLane, LaneRecord
<1>4. /\ FreshLane(None).intent.waiter = None /\ FreshLane(None).cart.waiter = None
  BY Fields DEF FreshLane
<1>5. lane' \in [Lanes -> LaneRecord]
  <2>1. k.lane \in [Lanes -> LaneRecord]
    BY <1>0, Fields
  <2> QED  BY <1>1, <1>3, <2>1
<1>6. n \in Hosts
  <2>1. n = [turn |-> turn', line |-> line', held |-> held', lane |-> lane']
    BY DEF Host
  <2>2. turn' \in [Turns -> TurnRecord] /\ line' \in Seq(Turns) /\ held' \in Seq(Lanes)
    BY <1>0, <1>1, Fields
  <2> QED  BY <1>5, <2>1, <2>2 DEF Hosts
<1> HIDE DEF n
<1>7. ASSUME NEW t \in Turns  PROVE TurnStands(n, t)
  <2>1. TurnStands(k, t)
    BY <1>0
  <2>2. /\ Unfinished(n, t) <=> Unfinished(k, t)
        /\ Live(n, t) <=> Live(k, t)
        /\ \A d : CalmIn(n, d) <=> CalmIn(k, d)
    BY <1>2 DEF Unfinished, Live, CalmIn
  <2>3. CASE Unfinished(k, t)
    <3>1. k.turn[t].lane \in Lanes
      BY <2>1, <2>3 DEF TurnStands, Placed
    <3>2. k.turn[t].lane \notin Unused(k)
      BY <2>3 DEF Unused
    <3>3. n.lane[k.turn[t].lane] = k.lane[k.turn[t].lane]
      BY <1>1, <1>2, <3>1, <3>2
    <3> QED  BY <1>2, <2>1, <2>2, <3>3 DEF TurnStands
  <2>4. CASE ~Unfinished(k, t)
    <3>1. ~Live(k, t)
      BY <2>4 DEF Unfinished
    <3> QED  BY <1>2, <2>1, <2>2, <2>4, <3>1 DEF TurnStands
  <2> QED  BY <2>3, <2>4
<1>8. ASSUME NEW l \in Lanes  PROVE GateStands(n, l)
  <2>1. GateStands(k, l)
    BY <1>0
  <2>2. CASE l \in Unused(k)
    <3>1. n.lane[l] = FreshLane(None)
      BY <1>1, <1>2, <2>2
    <3> QED  BY <1>4, <3>1 DEF GateStands
  <2>3. CASE l \notin Unused(k)
    <3>1. n.lane[l] = k.lane[l]
      BY <1>1, <1>2, <2>3
    <3> QED  BY <1>2, <2>1, <3>1 DEF GateStands
  <2> QED  BY <2>2, <2>3
<1>9. LineStands(n) /\ HeldStands(n)
  BY <1>0, <1>2 DEF LineStands, HeldStands
<1>10. Stands(n)
  BY <1>6, <1>7, <1>8, <1>9 DEF Stands
<1>11. Stands(Host)' <=> Stands(n)
  BY DEF n, Stands, Hosts, TurnStands, GateStands, LineStands, HeldStands, Kept, Placed,
     Owed, Unfinished, Live, CalmIn, Signless, Host
<1> QED  BY <1>1, <1>10, <1>11

\* What a step of run t may do to the host: the run ends or goes on, and turns
\* that waited for their own turn may commence.
Ran(h, k, t) ==
    /\ Stands(k)
    /\ \A c : CalmIn(k, c) => CalmIn(h, c)
    /\ \A u \in Turns \ {t} :
          IF h.turn[u].stage \in {"line", "behind"}
          THEN /\ k.turn[u].stage \in
                     {"line", "thinking", "shopping", "errand", "behind"}
               /\ k.turn[u].gone = h.turn[u].gone
          ELSE k.turn[u] = h.turn[u]
    /\ k.turn[t].gone = h.turn[t].gone
    /\ k.turn[t].stage = "paying" =>
          h.turn[t].stage = "paying" \/ ~CalmIn(h, h.turn[t].chat)
    /\ h.line = <<>> =>
          /\ k.line = <<>>
          /\ \A u \in Turns : Live(k, u) => Live(h, u) \/ ~CalmIn(k, k.turn[u].chat)

LEMMA SettledRan ==
    ASSUME NEW h, NEW k, NEW t \in Turns, Settled(h, k, t)
    PROVE  Ran(h, k, t)
BY DEF Settled, Ran

LEMMA WentRan ==
    ASSUME NEW h, Stands(h), NEW k, NEW t \in Turns, Live(h, t), Went(h, k, t),
           k.turn[t].stage = "paying" => ~CalmIn(h, h.turn[t].chat)
    PROVE  Ran(h, k, t)
<1>1. ASSUME NEW u \in Turns \ {t}
      PROVE  IF h.turn[u].stage \in {"line", "behind"}
             THEN /\ k.turn[u].stage \in
                        {"line", "thinking", "shopping", "errand", "behind"}
                  /\ k.turn[u].gone = h.turn[u].gone
             ELSE k.turn[u] = h.turn[u]
  BY DEF Went
<1>2. ASSUME NEW u \in Turns, Live(k, u)  PROVE Live(h, u)
  <2>1. CASE u = t
    BY <2>1
  <2>2. CASE u # t
    BY <1>2, <2>2 DEF Went, Live
  <2> QED  BY <2>1, <2>2
<1> QED  BY <1>1, <1>2 DEF Went, Ran

\* A flag on the run's lane is nothing to the turns.
LEMMA FlaggedRan ==
    ASSUME NEW h, NEW f, f.turn = h.turn, f.line = h.line,
           NEW k, NEW t \in Turns, Ran(f, k, t)
    PROVE  Ran(h, k, t)
<1>1. \A c : CalmIn(f, c) <=> CalmIn(h, c)
  BY DEF CalmIn
<1>2. \A u \in Turns : Live(f, u) <=> Live(h, u)
  BY DEF Live
<1> QED  BY <1>1, <1>2 DEF Ran

LEMMA MovedRan ==
    ASSUME NEW h, Stands(h), NEW t \in Turns, Live(h, t), Unwaited(h, t),
           NEW s \in Works \ {"paying"}, NEW k, k = Moved(h, t, s),
           Signless(k.turn[t]) => Signless(h.turn[t])
    PROVE  Ran(h, k, t)
<1>1. CalmIn(h, h.turn[t].chat) /\ Signless(k.turn[t]) =>
         ~h.lane[h.turn[t].lane].cart.released
  BY RunnerKnown
<1>2. s \in Works
  OBVIOUS
<1>3. /\ Stands(k) /\ \A c : CalmIn(k, c) => CalmIn(h, c)
      /\ k.line = h.line /\ k.held = h.held
      /\ \A u \in Turns \ {t} : k.turn[u] = h.turn[u]
      /\ k.turn[t].stage = s /\ k.turn[t].gone = h.turn[t].gone
  BY <1>1, <1>2, MovedStands
<1>4. Live(k, t) /\ k.turn[t].stage # "paying"
  BY <1>3 DEF Live
<1>5. Went(h, k, t)
  BY <1>3, <1>4 DEF Went
<1> QED  BY <1>4, <1>5, WentRan

\* Run t is at work: no gate waits for it.
LEMMA AtWork ==
    ASSUME Stands(Host), NEW t \in Turns, NEW s \in Works, At(t, s)
    PROVE  /\ Host.turn[t].stage = s /\ Live(Host, t) /\ Unwaited(Host, t)
           /\ Host.turn = turn /\ Host.line = line /\ Host.lane = lane
<1>1. Host.turn = turn /\ Host.line = line /\ Host.lane = lane
  BY DEF Host
<1>2. turn[t].stage = s /\ s \notin Waits
  BY DEF At, Works, Waits
<1>3. Unwaited(Host, t)
  BY <1>1, <1>2, NotWaiting
<1> QED  BY <1>1, <1>2, <1>3 DEF Live

LEMMA PlanRan ==
    ASSUME Stands(Host), NEW t \in Turns, Plan(t)
    PROVE  \E k : Ran(Host, k, t) /\ Become(k)
<1>1. /\ Host.turn[t].stage = "thinking" /\ Live(Host, t) /\ Unwaited(Host, t)
      /\ Host.turn = turn /\ Host.lane = lane
  <2>1. At(t, "thinking") /\ "thinking" \in Works
    BY DEF Plan, Works
  <2> QED  BY <2>1, AtWork
<1>2. ASSUME NEW k, k = Wait(Host, t, "intent", "issuing")  PROVE Ran(Host, k, t)
  <2>1. "intent" \in Waits
    BY DEF Waits
  <2>2. /\ Went(Host, k, t) /\ k.turn[t].stage \in {"intent", "issuing"}
    BY <1>1, <1>2, <2>1, WaitStands
  <2> QED  BY <1>1, <2>2, WentRan
<1>3. ASSUME NEW k, k = Moved(Host, t, "errand")  PROVE Ran(Host, k, t)
  <2>1. "errand" \in Works \ {"paying"} /\ "errand" \in Stages /\ Host \in Hosts
    BY DEF Works, Stages, Stands
  <2>2. k.turn[t].stage = "errand"
    BY <1>3, <2>1, MovedShape
  <2>3. ~Signless(k.turn[t])
    BY <2>2 DEF Signless
  <2> QED  BY <1>1, <1>3, <2>1, <2>3, MovedRan
<1>4. ASSUME NEW k, k = Settle(Host, t)  PROVE Ran(Host, k, t)
  BY <1>1, <1>4, SettleStands, SettledRan
<1>5. CASE Become(Settle(Host, t))
  BY <1>4, <1>5
<1>6. CASE Become(Wait(Host, t, "intent", "issuing"))
  BY <1>2, <1>6
<1>7. CASE Become(Moved(Host, t, "errand"))
  BY <1>3, <1>7
<1> QED  BY <1>5, <1>6, <1>7 DEF Plan

LEMMA IssueRan ==
    ASSUME Stands(Host), NEW t \in Turns, Issue(t)
    PROVE  \E k : Ran(Host, k, t) /\ Become(k)
<1>1. /\ Host.turn[t].stage = "issuing" /\ Live(Host, t) /\ Unwaited(Host, t)
      /\ Host.turn = turn /\ Host.lane = lane
  <2>1. At(t, "issuing") /\ "issuing" \in Works
    BY DEF Issue, Works
  <2> QED  BY <2>1, AtWork
<1>2. ASSUME turn[t].kind = "say", NEW k, k = Moved(Host, t, "shopping")
      PROVE  Ran(Host, k, t)
  <2>1. "shopping" \in Works \ {"paying"}
    BY DEF Works
  <2>2. Signless(Host.turn[t])
    BY <1>1, <1>2 DEF Signless
  <2> QED  BY <1>1, <1>2, <2>1, <2>2, MovedRan
<1>3. ASSUME NEW k, k = Moved(Host, t, "errand")  PROVE Ran(Host, k, t)
  <2>1. "errand" \in Works \ {"paying"} /\ "errand" \in Stages /\ Host \in Hosts
    BY DEF Works, Stages, Stands
  <2>2. k.turn[t].stage = "errand"
    BY <1>3, <2>1, MovedShape
  <2>3. ~Signless(k.turn[t])
    BY <2>2 DEF Signless
  <2> QED  BY <1>1, <1>3, <2>1, <2>3, MovedRan
<1>4. ASSUME NEW k, k = Settle(Host, t)  PROVE Ran(Host, k, t)
  BY <1>1, <1>4, SettleStands, SettledRan
<1>5. CASE Become(Settle(Host, t))
  BY <1>4, <1>5
<1>6. CASE turn[t].kind = "say" /\ Become(Moved(Host, t, "shopping"))
  BY <1>2, <1>6
<1>7. CASE Become(Moved(Host, t, "errand"))
  BY <1>3, <1>7
<1> QED  BY <1>5, <1>6, <1>7 DEF Issue

LEMMA ShopRan ==
    ASSUME Stands(Host), NEW t \in Turns, Shop(t)
    PROVE  \E k : Ran(Host, k, t) /\ Become(k)
<1>1. /\ Host.turn[t].stage = "shopping" /\ Live(Host, t) /\ Unwaited(Host, t)
  <2>1. At(t, "shopping") /\ "shopping" \in Works
    BY DEF Shop, Works
  <2> QED  BY <2>1, AtWork
<1> DEFINE f == Proposed(Host, t)
<1>2. /\ Stands(f) /\ NoNewWaiter(Host, f) /\ f.turn = Host.turn /\ f.line = Host.line
  <2>1. Host.turn[t].stage \in Works
    BY <1>1 DEF Works
  <2> QED  BY <1>1, <2>1, FlagStands
<1> HIDE DEF f
<1>3. Live(f, t) /\ Unwaited(f, t) /\ f.turn[t].stage = "shopping"
  BY <1>1, <1>2 DEF Live, NoNewWaiter
<1>4. ASSUME NEW k, k = Wait(f, t, "cart", "paying")  PROVE Ran(Host, k, t)
  <2>1. "cart" \in Waits
    BY DEF Waits
  <2>2. /\ Went(f, k, t)
        /\ k.turn[t].stage = "paying" => ~CalmIn(f, f.turn[t].chat)
    BY <1>2, <1>3, <1>4, <2>1, WaitStands
  <2>3. Ran(f, k, t)
    BY <1>2, <1>3, <2>2, WentRan
  <2> QED  BY <1>2, <2>3, FlaggedRan
<1>5. ASSUME NEW k, k = Settle(f, t)  PROVE Ran(Host, k, t)
  <2>1. Settled(f, k, t)
    BY <1>2, <1>3, <1>5, SettleStands
  <2> QED  BY <1>2, <2>1, SettledRan, FlaggedRan
<1>6. ASSUME NEW k, k = Settle(Host, t)  PROVE Ran(Host, k, t)
  BY <1>1, <1>6, SettleStands, SettledRan
<1>7. CASE Become(Settle(Host, t))
  BY <1>6, <1>7
<1>8. CASE Become(Settle(f, t))
  BY <1>5, <1>8
<1>9. CASE Become(Wait(f, t, "cart", "paying"))
  BY <1>4, <1>9
<1> QED  BY <1>7, <1>8, <1>9 DEF Shop, f

LEMMA ErrandRan ==
    ASSUME Stands(Host), NEW t \in Turns, RunErrand(t)
    PROVE  \E k : Ran(Host, k, t) /\ Become(k)
<1>1. /\ Host.turn[t].stage = "errand" /\ Live(Host, t) /\ Unwaited(Host, t)
      /\ Host.turn = turn
  <2>1. At(t, "errand") /\ "errand" \in Works
    BY DEF RunErrand, Works
  <2> QED  BY <2>1, AtWork
<1>2. PICK parks \in BOOLEAN :
         Become(Settle([Host EXCEPT !.lane[turn[t].lane].parked = parks], t))
  BY DEF RunErrand
<1> DEFINE f == [Host EXCEPT !.lane[turn[t].lane].parked = parks]
<1>3. \E b \in BOOLEAN : f = [Host EXCEPT !.lane[Host.turn[t].lane].parked = b]
  BY <1>1
<1>a. Become(Settle(f, t))
  BY <1>2
<1> HIDE DEF f
<1>4. /\ Stands(f) /\ NoNewWaiter(Host, f) /\ f.turn = Host.turn /\ f.line = Host.line
  <2>1. Host.turn[t].stage \in Works
    BY <1>1 DEF Works
  <2> QED  BY <1>1, <1>3, <2>1, FlagStands
<1>5. Live(f, t) /\ Unwaited(f, t)
  BY <1>1, <1>4 DEF Live, NoNewWaiter
<1>6. Ran(Host, Settle(f, t), t)
  <2>1. Settled(f, Settle(f, t), t)
    BY <1>4, <1>5, SettleStands
  <2> QED  BY <1>4, <2>1, SettledRan, FlaggedRan
<1> QED  BY <1>6, <1>a

LEMMA PayRan ==
    ASSUME Stands(Host), NEW t \in Turns, Pay(t)
    PROVE  \E k : Ran(Host, k, t) /\ Become(k)
<1>1. Live(Host, t) /\ Unwaited(Host, t)
  <2>1. At(t, "paying") /\ "paying" \in Works
    BY DEF Pay, Works
  <2> QED  BY <2>1, AtWork
<1>2. Ran(Host, Settle(Host, t), t)
  BY <1>1, SettleStands, SettledRan
<1>3. Become(Settle(Host, t))
  BY DEF Pay
<1> QED  BY <1>2, <1>3

LEMMA WorkRan ==
    ASSUME Stands(Host), NEW t \in Turns, Work(t)
    PROVE  /\ \E k : Ran(Host, k, t) /\ Become(k)
           /\ UNCHANGED <<phase, awaited>>
           /\ Live(Host, t)
<1>1. \E k : Ran(Host, k, t) /\ Become(k)
  BY PlanRan, IssueRan, ShopRan, ErrandRan, PayRan DEF Work
<1>2. UNCHANGED <<phase, awaited>>
  BY DEF Work, Plan, Issue, Shop, RunErrand, Pay
<1>3. turn[t].stage \in Works
  BY DEF Work, Plan, Issue, Shop, RunErrand, Pay, At, Works
<1> QED  BY <1>1, <1>2, <1>3 DEF Live, Host

-----------------------------------------------------------------------------
(* A turn is asked, a checkout carried on, a signature given.              *)

\* k is what h becomes when turn t is asked.
Begun(h, k, t) ==
    /\ Stands(k)
    /\ \A c : CalmIn(k, c) => CalmIn(h, c)
    /\ \A u \in Turns \ {t} : k.turn[u] = h.turn[u]
    /\ k.turn[t].stage \in {"line", "thinking", "shopping", "errand", "behind"}
    /\ ~h.turn[t].gone /\ ~k.turn[t].gone

Asked(h, t, c, kind) ==
    [h EXCEPT !.turn[t] = [@ EXCEPT !.chat = c, !.kind = kind]]

\* A turn nobody asked yet is in nobody's way.
LEMMA NotInLine ==
    ASSUME NEW h, Stands(h), NEW t \in Turns, h.turn[t].stage # "line"
    PROVE  t \notin Range(h.line)
BY DEF Stands, LineStands, Range

LEMMA AskedStands ==
    ASSUME NEW h, Stands(h), NEW t \in Turns, h.turn[t].stage = "unasked",
           NEW c \in Chats, NEW kind \in TurnKinds,
           NEW k, k = Asked(h, t, c, kind)
    PROVE  /\ Stands(k)
           /\ \A d : CalmIn(k, d) <=> CalmIn(h, d)
           /\ k.lane = h.lane /\ k.line = h.line /\ k.held = h.held
           /\ \A u \in Turns \ {t} : k.turn[u] = h.turn[u]
           /\ k.turn[t].stage = "unasked" /\ k.turn[t].chat = c
           /\ ~h.turn[t].gone /\ ~k.turn[t].gone /\ k.turn[t].after = None
           /\ t \notin Range(k.line)
<1> DEFINE r == [h.turn[t] EXCEPT !.chat = c, !.kind = kind]
<1>0. /\ h \in Hosts /\ h.turn[t] \in TurnRecord
      /\ (\A u \in Turns : TurnStands(h, u)) /\ (\A l \in Lanes : GateStands(h, l))
      /\ LineStands(h) /\ HeldStands(h)
  BY Fields DEF Stands
<1>1. /\ r \in TurnRecord
  BY <1>0 DEF TurnRecord
<1>2. /\ r.stage = "unasked" /\ r.chat = c /\ r.gone = h.turn[t].gone
      /\ r.after = h.turn[t].after
  BY <1>0 DEF TurnRecord
<1>3. k = WithTurn(h, t, r)
  BY DEF Asked, WithTurn
<1> HIDE DEF r
<1>4. /\ k \in Hosts /\ k.turn[t] = r
      /\ k.lane = h.lane /\ k.line = h.line /\ k.held = h.held
      /\ \A u \in Turns \ {t} : k.turn[u] = h.turn[u]
  BY <1>0, <1>1, <1>3, TurnSet
<1>5. ~h.turn[t].gone /\ h.turn[t].after = None
  BY <1>0 DEF TurnStands, Kept
<1>6. \A d : CalmIn(k, d) <=> CalmIn(h, d)
  BY <1>2, <1>4, <1>5 DEF CalmIn
<1>7. t \notin Range(h.line) /\ Unwaited(h, t)
  BY NotInLine, NotWaiting DEF Waits
<1>8. ASSUME NEW u \in Turns  PROVE TurnStands(k, u)
  <2>1. CASE u = t
    <3>1. Kept(k.turn[t])
      BY <1>2, <1>4, <1>5 DEF Kept
    <3>2. ~Unfinished(k, t) /\ ~Live(k, t)
      BY <1>2, <1>4 DEF Unfinished, Live, Waits, Works
    <3> QED  BY <2>1, <3>1, <3>2 DEF TurnStands
  <2>2. CASE u # t
    <3>1. k.turn[u] = h.turn[u] /\ TurnStands(h, u)
      BY <1>0, <1>4, <2>2
    <3>2. (Unfinished(k, u) <=> Unfinished(h, u)) /\ (Live(k, u) <=> Live(h, u))
      BY <3>1 DEF Unfinished, Live
    <3> QED  BY <1>4, <1>6, <3>1, <3>2 DEF TurnStands
  <2> QED  BY <2>1, <2>2
<1>9. ASSUME NEW l \in Lanes  PROVE GateStands(k, l)
  <2>1. GateStands(h, l) /\ h.lane[l].intent.waiter # t /\ h.lane[l].cart.waiter # t
    BY <1>0, <1>7 DEF Unwaited
  <2>2. /\ h.lane[l].intent.waiter \in Turns \cup {None}
        /\ h.lane[l].cart.waiter \in Turns \cup {None}
    BY <1>0, Fields
  <2> QED  BY <1>4, <2>1, <2>2 DEF GateStands
<1>10. LineStands(k)
  <2>1. \A i \in DOMAIN h.line : h.line[i] \in Turns \ {t}
    <3>1. h.line \in Seq(Turns)
      BY <1>0, Fields
    <3> QED  BY <1>7, <3>1 DEF Range
  <2> QED  BY <1>0, <1>4, <2>1 DEF LineStands
<1>11. HeldStands(k)
  BY <1>0, <1>4 DEF HeldStands
<1> QED  BY <1>2, <1>4, <1>5, <1>6, <1>7, <1>8, <1>9, <1>10, <1>11 DEF Stands

\* A turn joins the line.
Lined(h, t) == [Moved(h, t, "line") EXCEPT !.line = Append(@, t)]

LEMMA LinedStands ==
    ASSUME NEW h, Stands(h), NEW t \in Turns, h.turn[t].stage = "unasked",
           h.turn[t].chat \in Chats, NEW k, k = Lined(h, t)
    PROVE  /\ Stands(k)
           /\ \A d : CalmIn(k, d) <=> CalmIn(h, d)
           /\ \A u \in Turns \ {t} : k.turn[u] = h.turn[u]
           /\ k.turn[t].stage = "line" /\ k.turn[t].gone = h.turn[t].gone
<1> DEFINE p == Moved(h, t, "line")
           q == Append(h.line, t)
<1>0. /\ h \in Hosts /\ h.line \in Seq(Turns)
      /\ (\A u \in Turns : TurnStands(h, u)) /\ (\A l \in Lanes : GateStands(h, l))
      /\ LineStands(h) /\ HeldStands(h)
  BY Fields DEF Stands
<1>1. /\ p \in Hosts /\ p.lane = h.lane /\ p.line = h.line /\ p.held = h.held
      /\ \A u \in Turns \ {t} : p.turn[u] = h.turn[u]
      /\ p.turn[t].stage = "line" /\ p.turn[t].chat = h.turn[t].chat
      /\ p.turn[t].kind = h.turn[t].kind /\ p.turn[t].lane = h.turn[t].lane
      /\ p.turn[t].after = h.turn[t].after /\ p.turn[t].gone = h.turn[t].gone
  <2>1. "line" \in Stages
    BY StageNames
  <2> QED  BY <1>0, <2>1, MovedShape
<1> HIDE DEF p
<1>2. k = [p EXCEPT !.line = q]
  BY <1>1 DEF Lined, p
<1>3. t \notin Range(h.line) /\ Unwaited(h, t)
  BY NotInLine, NotWaiting DEF Waits
<1>4. /\ q \in Seq(Turns) /\ DOMAIN q = 1..(Len(h.line) + 1)
      /\ \A j \in 1..Len(h.line) : q[j] = h.line[j]
      /\ q[Len(h.line) + 1] = t
      /\ \A i, j \in DOMAIN q : q[i] = q[j] => i = j
  <2>1. /\ q \in Seq(Turns) /\ Len(q) = Len(h.line) + 1
        /\ \A j \in 1..Len(h.line) : q[j] = h.line[j]
        /\ q[Len(h.line) + 1] = t
        /\ \A i, j \in DOMAIN q : q[i] = q[j] => i = j
    BY <1>0, <1>3, AppendOnce DEF LineStands
  <2> QED  BY <2>1
<1> HIDE DEF q
<1>5. k \in Hosts /\ k.turn = p.turn /\ k.lane = p.lane /\ k.held = p.held /\ k.line = q
  BY <1>1, <1>2, <1>4 DEF Hosts
<1>6. \A d : CalmIn(k, d) <=> CalmIn(h, d)
  BY <1>1, <1>5 DEF CalmIn
<1>7. ASSUME NEW u \in Turns  PROVE TurnStands(k, u)
  <2>1. CASE u = t
    <3>1. Kept(k.turn[t])
      <4>1. ~h.turn[t].gone /\ h.turn[t].after = None
        BY <1>0 DEF TurnStands, Kept
      <4> QED  BY <1>1, <1>5, <4>1 DEF Kept
    <3>2. ~Unfinished(k, t) /\ ~Live(k, t)
      BY <1>1, <1>5 DEF Unfinished, Live, Waits, Works
    <3> QED  BY <2>1, <3>1, <3>2 DEF TurnStands
  <2>2. CASE u # t
    <3>1. k.turn[u] = h.turn[u] /\ TurnStands(h, u)
      BY <1>0, <1>1, <1>5, <2>2
    <3>2. (Unfinished(k, u) <=> Unfinished(h, u)) /\ (Live(k, u) <=> Live(h, u))
      BY <3>1 DEF Unfinished, Live
    <3>3. k.lane = h.lane /\ k.held = h.held
      BY <1>1, <1>5
    <3> QED  BY <1>6, <3>1, <3>2, <3>3 DEF TurnStands
  <2> QED  BY <2>1, <2>2
<1>8. ASSUME NEW l \in Lanes  PROVE GateStands(k, l)
  <2>1. GateStands(h, l) /\ h.lane[l].intent.waiter # t /\ h.lane[l].cart.waiter # t
    BY <1>0, <1>3 DEF Unwaited
  <2>2. /\ h.lane[l].intent.waiter \in Turns \cup {None}
        /\ h.lane[l].cart.waiter \in Turns \cup {None}
    BY <1>0, Fields
  <2> QED  BY <1>1, <1>5, <2>1, <2>2 DEF GateStands
<1>9. LineStands(k)
  <2>1. ASSUME NEW i \in DOMAIN q
        PROVE  k.turn[q[i]].stage = "line" /\ k.turn[q[i]].chat \in Chats
    <3>1. CASE i = Len(h.line) + 1
      BY <1>1, <1>4, <1>5, <3>1
    <3>2. CASE i # Len(h.line) + 1
      <4>1. i \in 1..Len(h.line) /\ DOMAIN h.line = 1..Len(h.line)
        BY <1>0, <1>4, <3>2
      <4>2. q[i] = h.line[i] /\ h.line[i] \in Turns \ {t}
        BY <1>0, <1>3, <1>4, <4>1 DEF Range
      <4> QED  BY <1>0, <1>1, <1>5, <4>1, <4>2 DEF LineStands
    <3> QED  BY <3>1, <3>2
  <2> QED  BY <1>4, <1>5, <2>1 DEF LineStands
<1>10. HeldStands(k)
  BY <1>0, <1>1, <1>5 DEF HeldStands
<1> QED  BY <1>1, <1>5, <1>6, <1>7, <1>8, <1>9, <1>10 DEF Stands

LEMMA AdmitBegun ==
    ASSUME Stands(Host), NEW c \in Chats, NEW kind \in Kinds, Admit(c, kind)
    PROVE  /\ \E t \in Turns : \E k : Begun(Host, k, t) /\ Become(k)
           /\ phase = "serving" /\ UNCHANGED <<phase, awaited>>
<1>1. PICK t \in Turns :
        /\ turn[t].stage = "unasked"
        /\ LET for == LaneFor(Asked(Host, t, c, kind), c)
               h == for.host
               inLine == \E s \in Range(line) : turn[s].chat = c
           IN  Become(IF ~inLine /\ (Busy(h, for.lane) \/ Running(h) < Cap)
                      THEN Queue(h, t, for.lane) ELSE Lined(h, t))
  BY DEF Admit, Asked, Lined
<1>2. phase = "serving" /\ UNCHANGED <<phase, awaited>>
  BY DEF Admit
<1> DEFINE n == Asked(Host, t, c, kind)
           h == LaneFor(n, c).host
           l == LaneFor(n, c).lane
<1>3. Host.turn[t].stage = "unasked" /\ kind \in TurnKinds
  BY <1>1, LaneBounds DEF Host
<1>4. /\ Stands(n)
      /\ \A d : CalmIn(n, d) <=> CalmIn(Host, d)
      /\ \A u \in Turns \ {t} : n.turn[u] = Host.turn[u]
      /\ n.turn[t].stage = "unasked" /\ n.turn[t].chat = c
      /\ ~Host.turn[t].gone /\ ~n.turn[t].gone
      /\ t \notin Range(n.line)
  BY <1>3, AskedStands
<1>a. \/ /\ Busy(h, l) \/ Running(h) < Cap
         /\ Become(Queue(h, t, l))
      \/ Become(Lined(h, t))
  BY <1>1
<1> HIDE DEF n
<1>5. /\ Stands(h) /\ h.turn = n.turn /\ h.line = n.line
      /\ l \in Lanes /\ h.lane[l].chat = c
      /\ Busy(h, l) \/ Running(h) < Cap => l \in Range(h.held)
  BY <1>4, LaneForStands
<1> HIDE DEF h, l
<1>6. /\ \A d : CalmIn(h, d) <=> CalmIn(Host, d)
      /\ \A u \in Turns \ {t} : h.turn[u] = Host.turn[u]
      /\ h.turn[t].stage = "unasked" /\ h.turn[t].chat = c
      /\ ~h.turn[t].gone /\ t \notin Range(h.line)
  BY <1>4, <1>5 DEF CalmIn
<1>7. ASSUME Busy(h, l) \/ Running(h) < Cap, NEW k, k = Queue(h, t, l)
      PROVE  Begun(Host, k, t)
  <2>1. Stands(k) /\ \A d : CalmIn(k, d) => CalmIn(h, d)
    BY <1>5, <1>6, <1>7, QueueStands
  <2>2. /\ Local(h, k, t, l) /\ k.turn[t].gone = h.turn[t].gone
        /\ k.turn[t].stage \in {"thinking", "shopping", "errand", "behind"}
    <3>1. h \in Hosts
      BY <1>5 DEF Stands
    <3> QED  BY <1>5, <1>7, <3>1, QueueShape
  <2> QED  BY <1>4, <1>6, <2>1, <2>2 DEF Begun, Local
<1>8. ASSUME NEW k, k = Lined(h, t)  PROVE Begun(Host, k, t)
  <2>1. /\ Stands(k) /\ \A d : CalmIn(k, d) <=> CalmIn(h, d)
        /\ \A u \in Turns \ {t} : k.turn[u] = h.turn[u]
        /\ k.turn[t].stage = "line" /\ k.turn[t].gone = h.turn[t].gone
    BY <1>5, <1>6, <1>8, LinedStands
  <2> QED  BY <1>4, <1>6, <2>1 DEF Begun
<1>9. \E k : Begun(Host, k, t) /\ Become(k)
  BY <1>7, <1>8, <1>a
<1> QED  BY <1>2, <1>9, Zenon

LEMMA CarryOnBegun ==
    ASSUME Stands(Host), NEW c \in Chats, CarryOn(c)
    PROVE  /\ \E t \in Turns : \E k : Begun(Host, k, t) /\ Become(k)
           /\ phase = "serving" /\ UNCHANGED <<phase, awaited>>
<1>1. PICK l \in LanesOf(Host, c), t \in Turns :
        /\ turn[t].stage = "unasked"
        /\ Become(Queue(Asked(Host, t, c, "carry"), t, l))
  BY DEF CarryOn, Asked
<1>2. phase = "serving" /\ UNCHANGED <<phase, awaited>>
  BY DEF CarryOn
<1> DEFINE n == Asked(Host, t, c, "carry")
           k == Queue(n, t, l)
<1>3. Host.turn[t].stage = "unasked" /\ "carry" \in TurnKinds
  BY <1>1 DEF Host, TurnKinds
<1>4. /\ Stands(n)
      /\ \A d : CalmIn(n, d) <=> CalmIn(Host, d)
      /\ n.lane = Host.lane /\ n.held = Host.held
      /\ \A u \in Turns \ {t} : n.turn[u] = Host.turn[u]
      /\ n.turn[t].stage = "unasked" /\ n.turn[t].chat = c
      /\ ~Host.turn[t].gone /\ ~n.turn[t].gone
      /\ t \notin Range(n.line)
  BY <1>3, AskedStands
<1>a. Become(k)
  BY <1>1
<1> HIDE DEF n
<1>5. l \in Lanes /\ l \in Range(n.held) /\ n.lane[l].chat = c
  <2>1. l \in Range(n.held) /\ n.lane[l].chat = c
    BY <1>4 DEF LanesOf
  <2>2. n.held \in Seq(Lanes)
    BY <1>4, Fields DEF Stands
  <2> QED  BY <2>1, <2>2 DEF Range
<1>6. Stands(k) /\ \A d : CalmIn(k, d) => CalmIn(n, d)
  BY <1>4, <1>5, QueueStands
<1>7. /\ Local(n, k, t, l) /\ k.turn[t].gone = n.turn[t].gone
      /\ k.turn[t].stage \in {"thinking", "shopping", "errand", "behind"}
  <2>1. n \in Hosts
    BY <1>4 DEF Stands
  <2> QED  BY <1>5, <2>1, QueueShape
<1> HIDE DEF k
<1>8. Begun(Host, k, t)
  BY <1>4, <1>6, <1>7 DEF Begun, Local
<1> QED  BY <1>2, <1>8, <1>a

\* A signature lets one run that waited for it go on.
Signed(h, k) ==
    \E w \in Turns : /\ Went(h, k, w) /\ Live(h, w)
                     /\ \/ h.turn[w].stage = "intent" /\ k.turn[w].stage = "issuing"
                        \/ h.turn[w].stage = "cart" /\ k.turn[w].stage = "paying"
                     /\ h.turn[w].lane \in Range(h.held)

LEMMA SignedBy ==
    ASSUME Stands(Host), NEW c \in Chats, SignIntent(c) \/ SignCart(c)
    PROVE  /\ \E k : Signed(Host, k) /\ Become(k)
           /\ phase = "serving" /\ UNCHANGED <<phase, awaited>>
<1>0. Host \in Hosts /\ Host.lane = lane
  BY DEF Stands, Host
<1>1. ASSUME NEW l \in LanesOf(Host, c), NEW s \in Waits, NEW onward,
             \/ s = "intent" /\ onward = "issuing"
             \/ s = "cart" /\ onward = "paying",
             Host.lane[l][s].waiter # None, Become(Sign(Host, l, s, onward))
      PROVE  \E k : Signed(Host, k) /\ Become(k)
  <2> DEFINE w == Host.lane[l][s].waiter
             k == Sign(Host, l, s, onward)
  <2>1. l \in Lanes /\ l \in Range(Host.held)
    BY <1>0, Fields DEF LanesOf, Range
  <2>2. /\ w \in Turns /\ Host.turn[w].stage = s /\ Host.turn[w].lane = l
        /\ Went(Host, k, w) /\ k.turn[w].stage = onward
    BY <1>1, <2>1, SignStands
  <2>3. Become(k)
    BY <1>1
  <2> HIDE DEF w, k
  <2>4. Live(Host, w)
    BY <2>2 DEF Live
  <2>5. Signed(Host, k)
    BY <1>1, <2>1, <2>2, <2>4 DEF Signed
  <2> QED  BY <2>3, <2>5
<1>2. CASE SignIntent(c)
  <2>1. PICK l \in LanesOf(Host, c) :
           lane[l].intent.waiter # None /\ Become(Sign(Host, l, "intent", "issuing"))
    BY <1>2 DEF SignIntent
  <2>2. Host.lane[l] \in LaneRecord
    BY <1>0, Fields DEF LanesOf, Range
  <2>3. Host.lane[l]["intent"].waiter # None /\ "intent" \in Waits
    BY <1>0, <2>1, <2>2, GateNames DEF Waits
  <2>4. \E k : Signed(Host, k) /\ Become(k)
    BY <1>1, <2>1, <2>3
  <2> QED  BY <1>2, <2>4 DEF SignIntent
<1>3. CASE SignCart(c)
  <2>1. PICK l \in LanesOf(Host, c) :
           lane[l].cart.waiter # None /\ Become(Sign(Host, l, "cart", "paying"))
    BY <1>3 DEF SignCart
  <2>2. Host.lane[l] \in LaneRecord
    BY <1>0, Fields DEF LanesOf, Range
  <2>3. Host.lane[l]["cart"].waiter # None /\ "cart" \in Waits
    BY <1>0, <2>1, <2>2, GateNames DEF Waits
  <2>4. \E k : Signed(Host, k) /\ Become(k)
    BY <1>1, <2>1, <2>3
  <2> QED  BY <1>3, <2>4 DEF SignCart
<1> QED  BY <1>2, <1>3

-----------------------------------------------------------------------------
(* A chat is deleted.                                                      *)

\* No run of k pays that was not paying in h, and h's calm chats are k's.
NothingPaid(h, k) ==
    /\ \A c : CalmIn(k, c) => CalmIn(h, c)
    /\ \A u \in Turns : k.turn[u].stage = "paying" => h.turn[u].stage = "paying"

LEMMA LeaveLineStands ==
    ASSUME NEW h, Stands(h), NEW c, NEW k, k = LeaveLine(h, c)
    PROVE  Stands(k) /\ NothingPaid(h, k) /\ k.held = h.held /\ k.lane = h.lane
<1> DEFINE mine == {i \in DOMAIN h.line : h.turn[h.line[i]].chat = c}
           first == CHOOSE i \in mine : \A j \in mine : i <= j
<1>0. /\ h \in Hosts /\ h.line \in Seq(Turns)
      /\ (\A u \in Turns : TurnStands(h, u)) /\ (\A l \in Lanes : GateStands(h, l))
      /\ LineStands(h) /\ HeldStands(h)
  BY Fields DEF Stands
<1>1. CASE mine = {}
  <2>1. k = h
    BY <1>1 DEF LeaveLine
  <2> QED  BY <2>1 DEF NothingPaid
<1>2. CASE mine # {}
  <2>1. first \in DOMAIN h.line
    <3>1. mine \in SUBSET Nat
      BY <1>0
    <3>2. \E i \in mine : \A j \in mine : i <= j
      BY <1>2, <3>1, LeastExists
    <3>3. first \in mine
      BY <3>2, Zenon
    <3> QED  BY <3>3
  <2> DEFINE t == h.line[first]
             p == Moved(h, t, "dropped")
             q == RemoveAt(h.line, first)
  <2>2. k = [p EXCEPT !.line = RemoveAt(@, first)]
    BY <1>2, Zenon DEF LeaveLine
  <2> HIDE DEF first, mine
  <2>3. t \in Turns /\ h.turn[t].stage = "line"
    BY <1>0, <2>1 DEF LineStands
  <2>4. /\ p \in Hosts /\ p.lane = h.lane /\ p.line = h.line /\ p.held = h.held
        /\ \A u \in Turns \ {t} : p.turn[u] = h.turn[u]
        /\ p.turn[t].stage = "dropped" /\ p.turn[t].chat = h.turn[t].chat
        /\ p.turn[t].after = h.turn[t].after
    <3>1. "dropped" \in Stages
      BY StageNames
    <3>2. p = Moved(h, t, "dropped")
      OBVIOUS
    <3> HIDE DEF p, t
    <3> QED  BY <1>0, <2>3, <3>1, <3>2, MovedShape
  <2> HIDE DEF p
  <2>5. k = [p EXCEPT !.line = q]
    BY <2>2, <2>4
  <2>6. /\ q \in Seq(Turns)
        /\ \A i, j \in DOMAIN q : q[i] = q[j] => i = j
        /\ \A j \in DOMAIN q : \E i \in DOMAIN h.line : q[j] = h.line[i]
        /\ Range(q) = Range(h.line) \ {t}
    <3>1. q \in Seq(Turns)
      BY <1>0, <2>1, RemoveAtShape
    <3> QED  BY <1>0, <2>1, <3>1, RemoveAtOnce DEF LineStands
  <2> HIDE DEF q
  <2>7. k \in Hosts /\ k.turn = p.turn /\ k.lane = p.lane /\ k.held = p.held /\ k.line = q
    BY <2>4, <2>5, <2>6 DEF Hosts
  <2>8. \A d : CalmIn(k, d) <=> CalmIn(h, d)
    BY <2>4, <2>7 DEF CalmIn
  <2>9. Unwaited(h, t)
    BY <2>3, NotWaiting DEF Waits
  <2>10. ASSUME NEW u \in Turns  PROVE TurnStands(k, u)
    <3>1. CASE u = t
      <4>1. Kept(k.turn[t]) /\ ~Unfinished(k, t) /\ ~Live(k, t)
        BY <2>4, <2>7 DEF Kept, Unfinished, Live, Waits, Works
      <4> QED  BY <3>1, <4>1 DEF TurnStands
    <3>2. CASE u # t
      <4>1. k.turn[u] = h.turn[u] /\ TurnStands(h, u)
        BY <1>0, <2>4, <2>7, <3>2
      <4>2. (Unfinished(k, u) <=> Unfinished(h, u)) /\ (Live(k, u) <=> Live(h, u))
        BY <4>1 DEF Unfinished, Live
      <4>3. k.lane = h.lane /\ k.held = h.held
        BY <2>4, <2>7
      <4> QED  BY <2>8, <4>1, <4>2, <4>3 DEF TurnStands
    <3> QED  BY <3>1, <3>2
  <2>11. ASSUME NEW l \in Lanes  PROVE GateStands(k, l)
    <3>1. GateStands(h, l) /\ h.lane[l].intent.waiter # t /\ h.lane[l].cart.waiter # t
      BY <1>0, <2>9 DEF Unwaited
    <3>2. /\ h.lane[l].intent.waiter \in Turns \cup {None}
          /\ h.lane[l].cart.waiter \in Turns \cup {None}
      BY <1>0, Fields
    <3>3. k.lane = h.lane /\ \A u \in Turns \ {t} : k.turn[u] = h.turn[u]
      BY <2>4, <2>7
    <3> HIDE DEF t
    <3> QED  BY <3>1, <3>2, <3>3 DEF GateStands
  <2>12. LineStands(k)
    <3>1. ASSUME NEW j \in DOMAIN q
          PROVE  k.turn[q[j]].stage = "line" /\ k.turn[q[j]].chat \in Chats
      <4>1. PICK i \in DOMAIN h.line : q[j] = h.line[i]
        BY <2>6
      <4>2. q[j] \in Turns \ {t}
        <5>1. q[j] \in Range(q)
          BY DEF Range
        <5>2. q[j] \in Turns
          BY <2>6
        <5> QED  BY <2>6, <5>1, <5>2
      <4>3. k.turn[q[j]] = h.turn[h.line[i]]
        BY <2>4, <2>7, <4>1, <4>2
      <4> QED  BY <1>0, <4>3 DEF LineStands
    <3> QED  BY <2>6, <2>7, <3>1 DEF LineStands
  <2>13. HeldStands(k)
    BY <1>0, <2>4, <2>7 DEF HeldStands
  <2>14. NothingPaid(h, k)
    <3>1. ASSUME NEW u \in Turns, k.turn[u].stage = "paying"  PROVE h.turn[u].stage = "paying"
      <4>1. u # t
        BY <2>4, <2>7, <3>1
      <4> QED  BY <2>4, <2>7, <3>1, <4>1
    <3> QED  BY <2>8, <3>1 DEF NothingPaid
  <2>15. Stands(k)
    BY <2>7, <2>10, <2>11, <2>12, <2>13 DEF Stands
  <2> QED  BY <2>4, <2>7, <2>14, <2>15, Zenon
<1> QED  BY <1>1, <1>2

\* The lane is let go, and its runs go on for a chat that is gone.
LEMMA OrphanedStands ==
    ASSUME NEW h, Stands(h), NEW l \in Range(h.held),
           NEW k, k = Orphaned(LetGo(h, l), l)
    PROVE  /\ Stands(k) /\ NothingPaid(h, k)
           /\ l \in Lanes /\ l \notin Range(k.held) /\ k.lane = h.lane
<1> DEFINE i == CHOOSE j \in DOMAIN h.held : h.held[j] = l
           q == RemoveAt(h.held, i)
           p == LetGo(h, l)
           f == [t \in Turns |->
                   IF Unfinished(p, t) /\ p.turn[t].lane = l
                   THEN [p.turn[t] EXCEPT !.gone = TRUE] ELSE p.turn[t]]
<1>0. /\ h \in Hosts /\ h.held \in Seq(Lanes)
      /\ h.turn \in [Turns -> TurnRecord]
      /\ (\A u \in Turns : TurnStands(h, u)) /\ (\A b \in Lanes : GateStands(h, b))
      /\ LineStands(h) /\ HeldStands(h)
  BY Fields DEF Stands
<1>1. i \in DOMAIN h.held /\ h.held[i] = l /\ l \in Lanes
  <2>1. \E j \in DOMAIN h.held : h.held[j] = l
    BY DEF Range
  <2>2. i \in DOMAIN h.held /\ h.held[i] = l
    BY <2>1
  <2> HIDE DEF i
  <2>3. h.held[i] \in Lanes
    BY <1>0, <2>2
  <2> QED  BY <2>2, <2>3
<1>2. p = [h EXCEPT !.held = q]
  BY <1>0 DEF LetGo, Hosts
<1> HIDE DEF i
<1>3. /\ q \in Seq(Lanes) /\ Len(q) = Len(h.held) - 1
      /\ \A x, y \in DOMAIN q : q[x] = q[y] => x = y
      /\ Range(q) = Range(h.held) \ {l}
  <2>1. q \in Seq(Lanes) /\ Len(q) = Len(h.held) - 1
    BY <1>0, <1>1, RemoveAtShape
  <2>2. /\ \A x, y \in DOMAIN q : q[x] = q[y] => x = y
        /\ Range(q) = Range(h.held) \ {h.held[i]}
    BY <1>0, <1>1, RemoveAtOnce DEF HeldStands
  <2> QED  BY <1>1, <2>1, <2>2
<1> HIDE DEF q, p
<1>4. p \in Hosts /\ p.turn = h.turn /\ p.lane = h.lane /\ p.line = h.line /\ p.held = q
  BY <1>0, <1>2, <1>3 DEF Hosts
<1>5. k = [p EXCEPT !.turn = f]
  BY DEF Orphaned, p
<1>6. ASSUME NEW t \in Turns
      PROVE  /\ f[t] \in TurnRecord
             /\ f[t].chat = h.turn[t].chat /\ f[t].kind = h.turn[t].kind
             /\ f[t].lane = h.turn[t].lane /\ f[t].after = h.turn[t].after
             /\ f[t].stage = h.turn[t].stage
             /\ f[t].gone = (h.turn[t].gone \/ (Unfinished(h, t) /\ h.turn[t].lane = l))
  <2>1. h.turn[t] \in TurnRecord /\ p.turn[t] = h.turn[t]
    BY <1>0, <1>4
  <2>2. Unfinished(p, t) <=> Unfinished(h, t)
    BY <1>4 DEF Unfinished, Live
  <2>3. CASE Unfinished(h, t) /\ h.turn[t].lane = l
    <3>1. f[t] = [h.turn[t] EXCEPT !.gone = TRUE]
      BY <2>1, <2>2, <2>3
    <3> HIDE DEF f
    <3>2. f[t] \in TurnRecord
      BY <2>1, <3>1 DEF TurnRecord
    <3>3. /\ f[t].chat = h.turn[t].chat /\ f[t].kind = h.turn[t].kind
          /\ f[t].lane = h.turn[t].lane /\ f[t].after = h.turn[t].after
          /\ f[t].stage = h.turn[t].stage /\ f[t].gone = TRUE
      BY <2>1, <3>1 DEF TurnRecord
    <3> QED  BY <2>3, <3>2, <3>3
  <2>4. CASE ~(Unfinished(h, t) /\ h.turn[t].lane = l)
    <3>1. f[t] = h.turn[t]
      BY <2>1, <2>2, <2>4
    <3>2. h.turn[t].gone \in BOOLEAN
      BY <2>1, Fields
    <3> QED  BY <2>1, <2>4, <3>1, <3>2
  <2> QED  BY <2>3, <2>4
<1>7. f \in [Turns -> TurnRecord]
  BY <1>6
<1> HIDE DEF f
<1>8. /\ k \in Hosts /\ k.turn = f /\ k.lane = h.lane /\ k.line = h.line /\ k.held = q
  BY <1>4, <1>5, <1>7 DEF Hosts
<1>9. \A d : CalmIn(k, d) <=> CalmIn(h, d)
  BY <1>6, <1>8 DEF CalmIn
<1>10. ASSUME NEW t \in Turns  PROVE TurnStands(k, t)
  <2>1. /\ k.turn[t].chat = h.turn[t].chat /\ k.turn[t].kind = h.turn[t].kind
        /\ k.turn[t].lane = h.turn[t].lane /\ k.turn[t].after = h.turn[t].after
        /\ k.turn[t].stage = h.turn[t].stage
        /\ k.turn[t].gone = (h.turn[t].gone \/ (Unfinished(h, t) /\ h.turn[t].lane = l))
    BY <1>6, <1>8
  <2>2. /\ Unfinished(k, t) <=> Unfinished(h, t)
        /\ Live(k, t) <=> Live(h, t)
        /\ Live(h, t) => Unfinished(h, t)
    BY <2>1 DEF Unfinished, Live
  <2>3. TurnStands(h, t)
    BY <1>0
  <2>4. Kept(k.turn[t])
    <3>1. Unfinished(h, t) => h.turn[t].stage \notin {"unasked", "line"}
      BY DEF Unfinished, Live, Waits, Works
    <3> QED  BY <2>1, <2>3, <3>1 DEF TurnStands, Kept
  <2>5. ASSUME Unfinished(k, t)
        PROVE  Placed(k.turn[t], k.lane[k.turn[t].lane], Range(k.held))
    <3>1. Placed(h.turn[t], h.lane[h.turn[t].lane], Range(h.held))
      BY <2>2, <2>3, <2>5 DEF TurnStands
    <3> QED  BY <1>3, <1>8, <2>1, <3>1 DEF Placed
  <2>6. ASSUME Live(k, t), CalmIn(k, k.turn[t].chat)
        PROVE  Owed(t, k.turn[t], k.lane[k.turn[t].lane], Range(k.held))
    <3>1. Owed(t, h.turn[t], h.lane[h.turn[t].lane], Range(h.held))
      BY <1>9, <2>1, <2>2, <2>3, <2>6 DEF TurnStands
    <3>2. Signless(k.turn[t]) => Signless(h.turn[t])
      BY <2>1 DEF Signless
    <3> QED  BY <1>3, <1>8, <2>1, <2>2, <2>6, <3>1, <3>2 DEF Owed
  <2> QED  BY <2>4, <2>5, <2>6 DEF TurnStands
<1>11. ASSUME NEW b \in Lanes  PROVE GateStands(k, b)
  <2>1. GateStands(h, b)
    BY <1>0
  <2>2. /\ h.lane[b].intent.waiter \in Turns \cup {None}
        /\ h.lane[b].cart.waiter \in Turns \cup {None}
    BY <1>0, Fields
  <2> QED  BY <1>6, <1>8, <2>1, <2>2 DEF GateStands
<1>12. LineStands(k)
  <2>1. \A j \in DOMAIN h.line : h.line[j] \in Turns
    <3>1. h.line \in Seq(Turns)
      BY <1>0, Fields
    <3> QED  BY <3>1
  <2> QED  BY <1>0, <1>6, <1>8, <2>1 DEF LineStands
<1>13. HeldStands(k)
  <2>1. Len(h.held) \in Nat /\ Len(h.held) <= MaxHeld /\ MaxHeld \in Nat
    BY <1>0, Bounds DEF HeldStands
  <2>2. Len(q) <= MaxHeld
    BY <1>3, <2>1
  <2> QED  BY <1>3, <1>8, <2>2 DEF HeldStands
<1>14. Stands(k)
  BY <1>8, <1>10, <1>11, <1>12, <1>13 DEF Stands
<1>15. NothingPaid(h, k)
  BY <1>6, <1>8, <1>9 DEF NothingPaid
<1> QED  BY <1>1, <1>3, <1>8, <1>14, <1>15

LEMMA RefusedStands ==
    ASSUME NEW h, Stands(h), NEW l \in Lanes, l \notin Range(h.held),
           NEW k, k = Refused(h, l)
    PROVE  /\ Stands(k) /\ NoNewWaiter(h, k) /\ k.turn = h.turn
           /\ \A w \in {h.lane[l].intent.waiter, h.lane[l].cart.waiter} \ {None} :
                 Unwaited(k, w)
<1> DEFINE a == h.lane[l]
           m == [a EXCEPT !.intent.waiter = None, !.cart.waiter = None]
<1>0. /\ h \in Hosts /\ a \in LaneRecord /\ a.intent \in Gate /\ a.cart \in Gate
      /\ (\A u \in Turns : TurnStands(h, u)) /\ (\A b \in Lanes : GateStands(h, b))
      /\ LineStands(h) /\ HeldStands(h)
  BY Fields DEF Stands
<1>1. m \in LaneRecord
  BY <1>0 DEF LaneRecord, Gate
<1>2. /\ m.chat = a.chat /\ m.running = a.running
      /\ m.intent.waiter = None /\ m.cart.waiter = None
      /\ m.cart.released = a.cart.released
  BY <1>0 DEF LaneRecord, Gate
<1>3. k = WithLane(h, l, m)
  BY DEF Refused, WithLane
<1> HIDE DEF m
<1>4. /\ k \in Hosts /\ k.lane[l] = m
      /\ k.turn = h.turn /\ k.line = h.line /\ k.held = h.held
      /\ \A b \in Lanes \ {l} : k.lane[b] = h.lane[b]
  BY <1>0, <1>1, <1>3, LaneSet
<1>5. \A d : CalmIn(k, d) <=> CalmIn(h, d)
  BY <1>4 DEF CalmIn
<1>6. ASSUME NEW u \in Turns  PROVE TurnStands(k, u)
  <2>1. TurnStands(h, u)
    BY <1>0
  <2>2. (Unfinished(k, u) <=> Unfinished(h, u)) /\ (Live(k, u) <=> Live(h, u))
        /\ (Live(h, u) => Unfinished(h, u))
    BY <1>4 DEF Unfinished, Live
  <2>3. Kept(k.turn[u])
    BY <1>4, <2>1 DEF TurnStands
  <2>4. ASSUME Unfinished(h, u)
        PROVE  /\ h.turn[u].lane \in Lanes
               /\ k.lane[h.turn[u].lane].chat = h.lane[h.turn[u].lane].chat
               /\ k.lane[h.turn[u].lane].running = h.lane[h.turn[u].lane].running
               /\ k.lane[h.turn[u].lane].cart.released
                     = h.lane[h.turn[u].lane].cart.released
               /\ h.turn[u].lane \in Range(h.held) =>
                     k.lane[h.turn[u].lane] = h.lane[h.turn[u].lane]
    <3>1. h.turn[u].lane \in Lanes
      BY <2>1, <2>4 DEF TurnStands, Placed
    <3>2. CASE h.turn[u].lane = l
      BY <1>2, <1>4, <3>1, <3>2
    <3>3. CASE h.turn[u].lane # l
      BY <1>4, <3>1, <3>3
    <3> QED  BY <3>1, <3>2, <3>3
  <2>5. Unfinished(k, u) => Placed(k.turn[u], k.lane[k.turn[u].lane], Range(k.held))
    BY <1>4, <2>1, <2>2, <2>4 DEF TurnStands, Placed
  <2>6. ASSUME Live(k, u), CalmIn(k, k.turn[u].chat)
        PROVE  Owed(u, k.turn[u], k.lane[k.turn[u].lane], Range(k.held))
    <3>1. Owed(u, h.turn[u], h.lane[h.turn[u].lane], Range(h.held))
      BY <1>4, <1>5, <2>1, <2>2, <2>6 DEF TurnStands
    <3> QED  BY <1>4, <2>2, <2>4, <2>6, <3>1 DEF Owed
  <2> QED  BY <2>3, <2>5, <2>6 DEF TurnStands
<1>7. ASSUME NEW b \in Lanes  PROVE GateStands(k, b)
  <2>1. CASE b = l
    BY <1>2, <1>4, <2>1 DEF GateStands
  <2>2. CASE b # l
    BY <1>0, <1>4, <2>2 DEF GateStands
  <2> QED  BY <2>1, <2>2
<1>8. LineStands(k) /\ HeldStands(k)
  BY <1>0, <1>4 DEF LineStands, HeldStands
<1>9. Stands(k)
  BY <1>4, <1>6, <1>7, <1>8 DEF Stands
<1>10. NoNewWaiter(h, k)
  <2>1. Local(h, k, 0, l)
    BY <1>4 DEF Local
  <2> QED  BY <1>2, <1>4, <2>1, SameWaiters
<1>11. ASSUME NEW w \in {a.intent.waiter, a.cart.waiter} \ {None}  PROVE Unwaited(k, w)
  <2>1. h.turn[w].lane = l
    BY <1>0 DEF GateStands
  <2>2. ASSUME NEW b \in Lanes
        PROVE  k.lane[b].intent.waiter # w /\ k.lane[b].cart.waiter # w
    <3>1. CASE b = l
      BY <1>2, <1>4, <3>1
    <3>2. CASE b # l
      <4>1. k.lane[b] = h.lane[b] /\ GateStands(h, b)
        BY <1>0, <1>4, <3>2
      <4>2. h.lane[b].intent.waiter # w
        BY <2>1, <3>2, <4>1 DEF GateStands
      <4>3. h.lane[b].cart.waiter # w
        BY <2>1, <3>2, <4>1 DEF GateStands
      <4> QED  BY <4>1, <4>2, <4>3
    <3> QED  BY <3>1, <3>2
  <2> QED  BY <2>2 DEF Unwaited
<1> QED  BY <1>4, <1>9, <1>10, <1>11 DEF a

\* A run that throws at its gate settles, and pays for nothing.
LEMMA AbortsStands ==
    ASSUME NEW h, Stands(h), NEW w, w # None => w \in Turns /\ Live(h, w) /\ Unwaited(h, w),
           NEW k, k = Aborts(h, w)
    PROVE  /\ Stands(k) /\ NothingPaid(h, k) /\ NoNewWaiter(h, k)
           /\ \A u \in Turns \ {w} : h.turn[u].stage \in Waits => k.turn[u] = h.turn[u]
<1>1. CASE w = None
  <2>1. k = h
    BY <1>1 DEF Aborts
  <2> QED  BY <2>1 DEF NothingPaid, NoNewWaiter
<1>2. CASE w # None
  <2>1. k = Settle(h, w) /\ w \in Turns /\ Live(h, w) /\ Unwaited(h, w)
    BY <1>2 DEF Aborts
  <2>2. Settled(h, k, w)
    BY <2>1, SettleStands
  <2>3. ASSUME NEW u \in Turns, k.turn[u].stage = "paying"  PROVE h.turn[u].stage = "paying"
    BY <2>2, <2>3 DEF Settled
  <2>4. NothingPaid(h, k)
    BY <2>2, <2>3 DEF Settled, NothingPaid
  <2>5. ASSUME NEW u \in Turns \ {w}, h.turn[u].stage \in Waits  PROVE k.turn[u] = h.turn[u]
    <3>1. h.turn[u].stage \notin {"line", "behind"}
      BY <2>5 DEF Waits
    <3> QED  BY <2>2, <3>1 DEF Settled
  <2> QED  BY <2>2, <2>4, <2>5 DEF Settled
<1> QED  BY <1>1, <1>2

LEMMA CancelChatStands ==
    ASSUME NEW h, Stands(h), NEW l \in Lanes, l \notin Range(h.held),
           NEW k, k = CancelChat(h, l)
    PROVE  Stands(k) /\ NothingPaid(h, k)
<1>1. CASE ~h.lane[l].seated
  <2>1. k = h
    BY <1>1 DEF CancelChat
  <2> QED  BY <2>1 DEF NothingPaid
<1>2. CASE h.lane[l].seated
  <2> DEFINE v == h.lane[l].intent.waiter
             w == h.lane[l].cart.waiter
             r == Refused(h, l)
             a == Aborts(r, v)
  <2>1. k = Aborts(a, w)
    BY <1>2 DEF CancelChat
  <2>2. /\ Stands(r) /\ NoNewWaiter(h, r) /\ r.turn = h.turn
        /\ v # None => Unwaited(r, v)
        /\ w # None => Unwaited(r, w)
    <3>1. /\ Stands(r) /\ NoNewWaiter(h, r) /\ r.turn = h.turn
          /\ \A x \in {v, w} \ {None} : Unwaited(r, x)
      BY RefusedStands
    <3> QED  BY <3>1
  <2>3. /\ v # None => v \in Turns /\ r.turn[v].stage = "intent"
        /\ w # None => w \in Turns /\ r.turn[w].stage = "cart"
    <3>1. GateStands(h, l) /\ h.lane[l] \in LaneRecord
      BY Fields DEF Stands
    <3>2. v \in Turns \cup {None} /\ w \in Turns \cup {None}
      BY <3>1, Fields
    <3>3. r.turn = h.turn
      BY <2>2
    <3> HIDE DEF r
    <3> QED  BY <3>1, <3>2, <3>3 DEF GateStands
  <2> HIDE DEF v, w, r
  <2>4. v # None => Live(r, v)
    BY <2>3 DEF Live, Waits
  <2>5. /\ Stands(a) /\ NothingPaid(r, a) /\ NoNewWaiter(r, a)
        /\ \A u \in Turns \ {v} : r.turn[u].stage \in Waits => a.turn[u] = r.turn[u]
    BY <2>2, <2>3, <2>4, AbortsStands
  <2> HIDE DEF a
  <2>6. w # None => w \in Turns /\ Live(a, w) /\ Unwaited(a, w)
    <3>1. w # None => w # v \/ v = None
      BY <2>3
    <3>2. w # None => w \in Turns \ {v}
      BY <2>3, <3>1, Bounds
    <3>3. w # None => a.turn[w] = r.turn[w]
      BY <2>3, <2>5, <3>2 DEF Waits
    <3> QED  BY <2>2, <2>3, <2>5, <3>3 DEF Live, Waits, NoNewWaiter
  <2>7. Stands(k) /\ NothingPaid(a, k)
    BY <2>1, <2>5, <2>6, AbortsStands
  <2>8. \A d : CalmIn(k, d) => CalmIn(h, d)
    <3>1. \A d : CalmIn(r, d) <=> CalmIn(h, d)
      BY <2>2 DEF CalmIn
    <3> QED  BY <2>5, <2>7, <3>1 DEF NothingPaid
  <2>9. \A u \in Turns : k.turn[u].stage = "paying" => h.turn[u].stage = "paying"
    <3>1. \A u \in Turns : k.turn[u].stage = "paying" => r.turn[u].stage = "paying"
      BY <2>5, <2>7 DEF NothingPaid
    <3> QED  BY <2>2, <3>1
  <2> QED  BY <2>7, <2>8, <2>9 DEF NothingPaid
<1> QED  BY <1>1, <1>2

LEMMA CancelStands ==
    ASSUME Stands(Host), NEW c \in Chats, Cancel(c)
    PROVE  /\ \E k : Stands(k) /\ NothingPaid(Host, k) /\ Become(k)
           /\ phase = "serving" /\ UNCHANGED <<phase, awaited>>
<1> DEFINE h == LeaveLine(Host, c)
<1>1. /\ IF LanesOf(h, c) = {} THEN Become(h)
         ELSE \E l \in LanesOf(h, c) :
                  Become(CancelChat(Orphaned(LetGo(h, l), l), l))
      /\ phase = "serving" /\ UNCHANGED <<phase, awaited>>
  BY DEF Cancel
<1> HIDE DEF h
<1>2. Stands(h) /\ NothingPaid(Host, h)
  BY LeaveLineStands DEF h
<1>3. CASE Become(h)
  BY <1>1, <1>2, <1>3
<1>4. ASSUME NEW l \in LanesOf(h, c), Become(CancelChat(Orphaned(LetGo(h, l), l), l))
      PROVE  \E k : Stands(k) /\ NothingPaid(Host, k) /\ Become(k)
  <2> DEFINE o == Orphaned(LetGo(h, l), l)
             k == CancelChat(o, l)
  <2>1. /\ Stands(o) /\ NothingPaid(h, o)
        /\ l \in Lanes /\ l \notin Range(o.held)
    <3>1. l \in Range(h.held)
      BY DEF LanesOf
    <3> QED  BY <1>2, <3>1, OrphanedStands
  <2>2. Become(k)
    BY <1>4
  <2> HIDE DEF o
  <2>3. Stands(k) /\ NothingPaid(o, k)
    BY <2>1, CancelChatStands
  <2> HIDE DEF k
  <2>4. NothingPaid(Host, k)
    BY <1>2, <2>1, <2>3 DEF NothingPaid
  <2> QED  BY <2>2, <2>3, <2>4
<1> QED  BY <1>1, <1>3, <1>4

-----------------------------------------------------------------------------
(* Every step.                                                             *)

\* The line is emptied: what stood in it is dropped.
Hushed(h) ==
    [h EXCEPT !.line = <<>>,
              !.turn = [t \in Turns |-> IF h.turn[t].stage = "line"
                          THEN [h.turn[t] EXCEPT !.stage = "dropped"]
                          ELSE h.turn[t]]]

LEMMA HushedStands ==
    ASSUME NEW h, Stands(h), NEW k, k = Hushed(h)
    PROVE  /\ Stands(k) /\ NothingPaid(h, k) /\ k.line = <<>>
           /\ k.held = h.held /\ k.lane = h.lane
           /\ \A u \in Turns : Live(k, u) => k.turn[u] = h.turn[u]
<1> DEFINE f == [t \in Turns |-> IF h.turn[t].stage = "line"
                   THEN [h.turn[t] EXCEPT !.stage = "dropped"] ELSE h.turn[t]]
<1>0. /\ h \in Hosts /\ h.turn \in [Turns -> TurnRecord]
      /\ (\A u \in Turns : TurnStands(h, u)) /\ (\A b \in Lanes : GateStands(h, b))
      /\ HeldStands(h)
  BY Fields DEF Stands
<1>1. ASSUME NEW t \in Turns
      PROVE  /\ f[t] \in TurnRecord
             /\ f[t].chat = h.turn[t].chat /\ f[t].after = h.turn[t].after
             /\ IF h.turn[t].stage = "line" THEN f[t].stage = "dropped"
                ELSE f[t] = h.turn[t]
  <2>1. h.turn[t] \in TurnRecord
    BY <1>0
  <2>2. CASE h.turn[t].stage = "line"
    <3>1. f[t] = [h.turn[t] EXCEPT !.stage = "dropped"] /\ "dropped" \in Stages
      BY <2>2, StageNames
    <3> HIDE DEF f
    <3> QED  BY <2>1, <2>2, <3>1, StageSet
  <2>3. CASE h.turn[t].stage # "line"
    <3>1. f[t] = h.turn[t]
      BY <2>3
    <3> HIDE DEF f
    <3> QED  BY <2>1, <2>3, <3>1
  <2> QED  BY <2>2, <2>3
<1>2. f \in [Turns -> TurnRecord]
  BY <1>1
<1>3. k = [h EXCEPT !.line = <<>>, !.turn = f]
  BY DEF Hushed
<1> HIDE DEF f
<1>4. k \in Hosts /\ k.turn = f /\ k.lane = h.lane /\ k.held = h.held /\ k.line = <<>>
  <2>1. <<>> \in Seq(Turns)
    OBVIOUS
  <2> QED  BY <1>0, <1>2, <1>3, <2>1 DEF Hosts
<1>5. \A d : CalmIn(k, d) <=> CalmIn(h, d)
  BY <1>1, <1>4 DEF CalmIn
<1>6. ASSUME NEW u \in Turns  PROVE TurnStands(k, u)
  <2>1. CASE h.turn[u].stage = "line"
    <3>1. k.turn[u].stage = "dropped"
      BY <1>1, <1>4, <2>1
    <3>2. Kept(k.turn[u]) /\ ~Unfinished(k, u) /\ ~Live(k, u)
      BY <3>1 DEF Kept, Unfinished, Live, Waits, Works
    <3> QED  BY <3>2 DEF TurnStands
  <2>2. CASE h.turn[u].stage # "line"
    <3>1. k.turn[u] = h.turn[u] /\ TurnStands(h, u)
      BY <1>0, <1>1, <1>4, <2>2
    <3>2. (Unfinished(k, u) <=> Unfinished(h, u)) /\ (Live(k, u) <=> Live(h, u))
      BY <3>1 DEF Unfinished, Live
    <3> QED  BY <1>4, <1>5, <3>1, <3>2 DEF TurnStands
  <2> QED  BY <2>1, <2>2
<1>7. ASSUME NEW b \in Lanes  PROVE GateStands(k, b)
  <2>1. GateStands(h, b)
    BY <1>0
  <2>2. /\ h.lane[b].intent.waiter \in Turns \cup {None}
        /\ h.lane[b].cart.waiter \in Turns \cup {None}
    BY <1>0, Fields
  <2> QED  BY <1>1, <1>4, <2>1, <2>2 DEF GateStands
<1>8. LineStands(k) /\ HeldStands(k)
  BY <1>0, <1>4 DEF LineStands, HeldStands
<1>9. NothingPaid(h, k)
  <2>1. ASSUME NEW u \in Turns, k.turn[u].stage = "paying"  PROVE h.turn[u].stage = "paying"
    BY <1>1, <1>4, <2>1
  <2> QED  BY <1>5, <2>1 DEF NothingPaid
<1>10. ASSUME NEW u \in Turns, Live(k, u)  PROVE k.turn[u] = h.turn[u]
  <2>1. k.turn[u].stage # "dropped"
    BY <1>10 DEF Live, Waits, Works
  <2> QED  BY <1>1, <1>4, <2>1
<1> QED  BY <1>4, <1>6, <1>7, <1>8, <1>9, <1>10 DEF Stands

\* What the process's phases say of the turns.
Down ==
    /\ phase \in {"serving", "settling", "closed", "cut"} /\ awaited \subseteq Turns
    /\ phase # "serving" => line = <<>>
    /\ phase \in {"settling", "closed"} /\ AllCalm =>
          \A t \in Turns : Live(Host, t) /\ ~turn[t].gone => t \in awaited
    /\ phase = "closed" => \A t \in awaited : turn[t].stage = "done"

\* The inductive invariant.
HostStands == Stands(Host) /\ Down

LEMMA SettleAllStands ==
    ASSUME HostStands, SettleAll
    PROVE  /\ HostStands'
           /\ \E k : NothingPaid(Host, k) /\ turn' = k.turn
<1> DEFINE k == Hushed(Host)
<1>1. Become(k) /\ phase' = "settling"
      /\ awaited' = {lane[l].running : l \in Range(held)} \ {None}
  BY DEF SettleAll, Hushed, Host
<1>2. /\ Stands(k) /\ NothingPaid(Host, k) /\ k.line = <<>>
      /\ k.held = Host.held /\ k.lane = Host.lane
      /\ \A u \in Turns : Live(k, u) => k.turn[u] = Host.turn[u]
  BY HushedStands DEF HostStands
<1> HIDE DEF k
<1>3. Stands(Host)' /\ turn' = k.turn /\ line' = <<>>
  BY <1>1, <1>2, BecomeStands
<1>4. Host \in Hosts /\ Host.turn = turn /\ Host.lane = lane /\ Host.held = held
  BY DEF HostStands, Stands, Host
<1>5. awaited' \subseteq Turns
  <2>1. held \in Seq(Lanes) /\ lane \in [Lanes -> LaneRecord]
    BY <1>4, Fields
  <2>2. \A l \in Range(held) : lane[l].running \in Turns \cup {None}
    BY <2>1, Fields DEF Range
  <2> QED  BY <1>1, <2>2
<1>6. ASSUME AllCalm', NEW t \in Turns, Live(Host, t)', ~turn'[t].gone
      PROVE  t \in awaited'
  <2>1. Live(k, t) /\ ~k.turn[t].gone
    BY <1>3, <1>6 DEF Live, Host
  <2>2. k.turn[t] = turn[t] /\ Live(Host, t)
    BY <1>2, <1>4, <2>1 DEF Live
  <2>3. k.turn[t].chat \in Chats
    BY <1>2, <2>1, LaneMates DEF Unfinished
  <2>4. CalmIn(k, k.turn[t].chat)
    BY <1>3, <1>6, <2>3 DEF AllCalm, Calm, CalmIn
  <2>5. CalmIn(Host, Host.turn[t].chat)
    BY <1>2, <1>4, <2>2, <2>4 DEF NothingPaid
  <2>6. lane[turn[t].lane].running = t /\ turn[t].lane \in Range(held)
    <3>1. /\ Host.lane[Host.turn[t].lane].running = t
          /\ Host.turn[t].gone \/ Host.turn[t].lane \in Range(Host.held)
      BY <2>2, <2>5, RunnerKnown DEF HostStands
    <3> QED  BY <1>4, <2>1, <2>2, <3>1
  <2> QED  BY <1>1, <2>6, Bounds
<1>7. Down'
  BY <1>1, <1>3, <1>5, <1>6 DEF Down
<1> QED  BY <1>2, <1>3, <1>7 DEF HostStands

\* A request leaves the process serving.
LEMMA ServingDown ==
    ASSUME Down, phase = "serving", UNCHANGED <<phase, awaited>>
    PROVE  Down'
BY DEF Down

LEMMA RequestStands ==
    ASSUME HostStands, NEW c \in Chats, Requests(c)
    PROVE  /\ HostStands'
           /\ \E k : /\ turn' = k.turn
                     /\ \/ \E t \in Turns : Begun(Host, k, t)
                        \/ Signed(Host, k)
                        \/ NothingPaid(Host, k)
<1>0. Stands(Host) /\ Down
  BY DEF HostStands
<1>1. ASSUME NEW kind \in Kinds, Admit(c, kind)
      PROVE  /\ HostStands'
             /\ \E k : turn' = k.turn /\ \E t \in Turns : Begun(Host, k, t)
  <2>1. /\ \E t \in Turns : \E k : Begun(Host, k, t) /\ Become(k)
        /\ phase = "serving" /\ UNCHANGED <<phase, awaited>>
    BY <1>0, <1>1, AdmitBegun
  <2>a. PICK t \in Turns : \E k : Begun(Host, k, t) /\ Become(k)
    BY <2>1
  <2>2. PICK k : Begun(Host, k, t) /\ Become(k)
    BY <2>a
  <2>3. Stands(Host)' /\ turn' = k.turn
    BY <2>2, BecomeStands DEF Begun
  <2>4. Down'
    BY <1>0, <2>1, ServingDown
  <2> QED  BY <2>2, <2>3, <2>4 DEF HostStands
<1>2. ASSUME CarryOn(c)
      PROVE  /\ HostStands'
             /\ \E k : turn' = k.turn /\ \E t \in Turns : Begun(Host, k, t)
  <2>1. /\ \E t \in Turns : \E k : Begun(Host, k, t) /\ Become(k)
        /\ phase = "serving" /\ UNCHANGED <<phase, awaited>>
    BY <1>0, <1>2, CarryOnBegun
  <2>a. PICK t \in Turns : \E k : Begun(Host, k, t) /\ Become(k)
    BY <2>1
  <2>2. PICK k : Begun(Host, k, t) /\ Become(k)
    BY <2>a
  <2>3. Stands(Host)' /\ turn' = k.turn
    BY <2>2, BecomeStands DEF Begun
  <2>4. Down'
    BY <1>0, <2>1, ServingDown
  <2> QED  BY <2>2, <2>3, <2>4 DEF HostStands
<1>3. ASSUME SignIntent(c) \/ SignCart(c)
      PROVE  /\ HostStands'
             /\ \E k : turn' = k.turn /\ Signed(Host, k)
  <2>1. /\ \E k : Signed(Host, k) /\ Become(k)
        /\ phase = "serving" /\ UNCHANGED <<phase, awaited>>
    BY <1>0, <1>3, SignedBy
  <2>2. PICK k : Signed(Host, k) /\ Become(k)
    BY <2>1
  <2>3. Stands(Host)' /\ turn' = k.turn
    BY <2>2, BecomeStands DEF Signed, Went
  <2>4. Down'
    BY <1>0, <2>1, ServingDown
  <2> QED  BY <2>2, <2>3, <2>4 DEF HostStands
<1>4. ASSUME Cancel(c)
      PROVE  /\ HostStands'
             /\ \E k : turn' = k.turn /\ NothingPaid(Host, k)
  <2>1. /\ \E k : Stands(k) /\ NothingPaid(Host, k) /\ Become(k)
        /\ phase = "serving" /\ UNCHANGED <<phase, awaited>>
    BY <1>0, <1>4, CancelStands
  <2>2. PICK k : Stands(k) /\ NothingPaid(Host, k) /\ Become(k)
    BY <2>1
  <2>3. Stands(Host)' /\ turn' = k.turn
    BY <2>2, BecomeStands
  <2>4. Down'
    BY <1>0, <2>1, ServingDown
  <2> QED  BY <2>2, <2>3, <2>4 DEF HostStands
<1> QED  BY <1>1, <1>2, <1>3, <1>4 DEF Requests

LEMMA WorkStands ==
    ASSUME HostStands, NEW t \in Turns, Work(t)
    PROVE  /\ HostStands'
           /\ \E k : turn' = k.turn /\ Ran(Host, k, t)
<1>0. Stands(Host) /\ Down /\ Host.turn = turn /\ Host.line = line
  BY DEF HostStands, Host
<1>1. /\ \E k : Ran(Host, k, t) /\ Become(k)
      /\ UNCHANGED <<phase, awaited>>
  BY <1>0, WorkRan
<1>2. PICK k : Ran(Host, k, t) /\ Become(k)
  BY <1>1
<1>3. Stands(Host)' /\ turn' = k.turn /\ line' = k.line /\ Stands(k)
  BY <1>2, BecomeStands DEF Ran
<1>4. phase # "closed"
  BY DEF Work, Plan, Issue, Shop, RunErrand, Pay, At
<1>5. phase' # "serving" => line' = <<>>
  BY <1>0, <1>1, <1>2, <1>3 DEF Down, Ran
<1>6. ASSUME phase' \in {"settling", "closed"}, AllCalm',
             NEW u \in Turns, Live(Host, u)', ~turn'[u].gone
      PROVE  u \in awaited'
  <2>1. Live(k, u) /\ ~k.turn[u].gone
    BY <1>3, <1>6 DEF Live, Host
  <2>2. \A c \in Chats : CalmIn(k, c)
    BY <1>3, <1>6 DEF AllCalm, Calm, CalmIn
  <2>3. k.turn[u].chat \in Chats
    BY <1>3, <2>1, LaneMates DEF Unfinished
  <2>4. Host.line = <<>>
    BY <1>0, <1>1, <1>6 DEF Down
  <2>5. Live(Host, u)
    BY <1>2, <2>1, <2>2, <2>3, <2>4 DEF Ran
  <2>6. AllCalm
    <3>1. \A c \in Chats : CalmIn(Host, c)
      BY <1>2, <2>2 DEF Ran
    <3> QED  BY <1>0, <3>1 DEF AllCalm, Calm, CalmIn
  <2>7. ~turn[u].gone
    <3>1. CASE u = t
      BY <1>0, <1>2, <2>1, <3>1 DEF Ran
    <3>2. CASE u # t
      BY <1>0, <1>2, <2>1, <3>2 DEF Ran
    <3> QED  BY <3>1, <3>2
  <2> QED  BY <1>0, <1>1, <1>6, <2>5, <2>6, <2>7 DEF Down
<1>7. Down'
  BY <1>0, <1>1, <1>4, <1>5, <1>6 DEF Down
<1> QED  BY <1>2, <1>3, <1>7 DEF HostStands

LEMMA CloseAllStands ==
    ASSUME HostStands, CloseAll
    PROVE  HostStands' /\ turn' = turn
<1>1. /\ phase = "settling" /\ UNCHANGED <<turn, line, held, lane, awaited>>
      /\ phase' = IF \A t \in awaited : turn[t].stage = "done" THEN "closed" ELSE "cut"
  BY DEF CloseAll
<1>2. Host' = Host
  BY <1>1, Zenon DEF Host
<1>3. Stands(Host)'
  BY <1>2 DEF HostStands, Stands, Hosts, TurnStands, GateStands, LineStands, HeldStands,
     Kept, Placed, Owed, Unfinished, Live, CalmIn, Signless
<1>4. AllCalm' <=> AllCalm
  BY <1>1 DEF AllCalm, Calm
<1>5. \A t \in Turns : Live(Host, t)' <=> Live(Host, t)
  BY <1>2 DEF Live
<1>6. Down'
  BY <1>1, <1>4, <1>5 DEF HostStands, Down
<1> QED  BY <1>1, <1>3, <1>6 DEF HostStands

LEMMA StutterStands ==
    ASSUME HostStands, UNCHANGED vars
    PROVE  HostStands'
<1>1. UNCHANGED <<turn, line, held, lane, phase, awaited>>
  BY DEF vars
<1>2. Host' = Host
  BY <1>1, Zenon DEF Host
<1>3. Stands(Host)'
  BY <1>2 DEF HostStands, Stands, Hosts, TurnStands, GateStands, LineStands, HeldStands,
     Kept, Placed, Owed, Unfinished, Live, CalmIn, Signless
<1>4. (AllCalm' <=> AllCalm) /\ \A t \in Turns : Live(Host, t)' <=> Live(Host, t)
  BY <1>1, <1>2 DEF AllCalm, Calm, Live
<1>5. Down'
  BY <1>1, <1>4 DEF HostStands, Down
<1> QED  BY <1>3, <1>5 DEF HostStands

LEMMA InitStands ==
    ASSUME Init
    PROVE  HostStands
<1> DEFINE r == [chat |-> None, kind |-> None, lane |-> None, after |-> None,
                 stage |-> "unasked", gone |-> FALSE]
           m == FreshLane(None)
<1>1. /\ turn = [t \in Turns |-> r] /\ line = <<>> /\ held = <<>>
      /\ lane = [l \in Lanes |-> m] /\ phase = "serving" /\ awaited = {}
  BY DEF Init
<1>2. r \in TurnRecord /\ m \in LaneRecord
  <2>1. "unasked" \in Stages
    BY StageNames
  <2>2. r \in TurnRecord
    BY <2>1 DEF TurnRecord
  <2>3. m \in LaneRecord
    BY Fields DEF FreshLane, LaneRecord
  <2> QED  BY <2>2, <2>3
<1>3. r.stage = "unasked" /\ ~r.gone /\ r.after = None
  OBVIOUS
<1>4. m.intent.waiter = None /\ m.cart.waiter = None
  BY Fields DEF FreshLane
<1> HIDE DEF r, m
<1>5. /\ Host.turn = turn /\ Host.line = line /\ Host.held = held /\ Host.lane = lane
  BY DEF Host
<1>6. Host \in Hosts
  <2>1. turn \in [Turns -> TurnRecord] /\ lane \in [Lanes -> LaneRecord]
        /\ line \in Seq(Turns) /\ held \in Seq(Lanes)
    BY <1>1, <1>2
  <2> QED  BY <2>1 DEF Hosts, Host
<1>7. ASSUME NEW t \in Turns  PROVE TurnStands(Host, t) /\ ~Live(Host, t)
  <2>1. Host.turn[t] = r
    BY <1>1, <1>5
  <2>2. Kept(Host.turn[t]) /\ ~Unfinished(Host, t) /\ ~Live(Host, t)
    BY <1>3, <2>1 DEF Kept, Unfinished, Live, Waits, Works
  <2> QED  BY <2>2 DEF TurnStands
<1>8. ASSUME NEW b \in Lanes  PROVE GateStands(Host, b)
  BY <1>1, <1>4, <1>5 DEF GateStands
<1>9. LineStands(Host) /\ HeldStands(Host)
  BY <1>1, <1>5, Bounds DEF LineStands, HeldStands
<1>10. Down
  BY <1>1, <1>7 DEF Down
<1> QED  BY <1>6, <1>7, <1>8, <1>9, <1>10 DEF Stands, HostStands

-----------------------------------------------------------------------------
(* The theorems.                                                           *)

\* Whatever is asked, signed, deleted or settled, in whatever order, every
\* turn, lane and gate of the host agree with each other.
THEOREM HostsStand == Spec => []HostStands
<1>1. Init => HostStands
  BY InitStands
<1>2. HostStands /\ [Next]_vars => HostStands'
  <2> SUFFICES ASSUME HostStands, [Next]_vars  PROVE HostStands'
    OBVIOUS
  <2> QED
    BY RequestStands, WorkStands, SettleAllStands, CloseAllStands, StutterStands DEF Next
<1> QED  BY <1>1, <1>2, PTL DEF Spec

\* Every state is of its type; the line never holds a turn twice, so it is no
\* longer than the turns asked, and the lanes held never exceed MAX_HELD_LANES.
THEOREM TypesHold == Spec => []TypeOK
<1>1. HostStands => TypeOK
  <2> SUFFICES ASSUME HostStands  PROVE TypeOK
    OBVIOUS
  <2>1. /\ turn \in [Turns -> TurnRecord] /\ lane \in [Lanes -> LaneRecord]
        /\ line \in Seq(Turns) /\ held \in Seq(Lanes)
        /\ LineStands(Host) /\ HeldStands(Host)
    BY Fields DEF HostStands, Stands, Host
  <2>2. Len(held) <= MaxHeld
    BY <2>1 DEF HeldStands, Host
  <2>3. \A i, j \in DOMAIN line : line[i] = line[j] => i = j
    BY <2>1 DEF LineStands, Host
  <2>4. IsFiniteSet(Range(line)) /\ Cardinality(Range(line)) = Len(line)
    BY <2>1, <2>3, CountOf
  <2>5. IsFiniteSet(Turns) /\ Cardinality(Turns) = MaxTurns
    BY Bounds, FS_Interval DEF Turns
  <2>6. Range(line) \subseteq Turns
    BY <2>1 DEF Range
  <2>7. Len(line) <= MaxTurns
    BY <2>4, <2>5, <2>6, FS_Subset
  <2> QED  BY <2>1, <2>2, <2>7 DEF HostStands, Down, TypeOK
<1> QED  BY <1>1, HostsStand, PTL

\* A run of a calm chat that waits on a lane the host holds is the one its
\* gate would release, for any number of chats, turns and lanes.
THEOREM WaitsAreAnswered == Spec => []EveryWaitIsAnswerable
<1>1. HostStands => EveryWaitIsAnswerable
  <2> SUFFICES ASSUME HostStands, NEW t \in Turns, turn[t].stage \in Waits, Held(t),
                      Calm(turn[t].chat)
               PROVE  lane[turn[t].lane][turn[t].stage].waiter = t
    BY DEF EveryWaitIsAnswerable
  <2>1. /\ Host \in Hosts /\ TurnStands(Host, t)
        /\ Host.turn = turn /\ Host.lane = lane /\ Host.held = held
    BY DEF HostStands, Stands, Host
  <2>2. Live(Host, t) /\ CalmIn(Host, Host.turn[t].chat) /\ Unfinished(Host, t)
    BY <2>1 DEF Live, Unfinished, CalmIn, Calm
  <2>3. /\ Owed(t, turn[t], lane[turn[t].lane], Range(held))
        /\ turn[t].lane \in Lanes
    BY <2>1, <2>2 DEF TurnStands, Placed
  <2>4. lane[turn[t].lane] \in LaneRecord
    BY <2>1, <2>3, Fields
  <2>5. /\ lane[turn[t].lane]["intent"] = lane[turn[t].lane].intent
        /\ lane[turn[t].lane]["cart"] = lane[turn[t].lane].cart
    BY <2>4, GateNames
  <2>6. turn[t].lane \in Range(held)
    BY DEF Held
  <2>7. CASE turn[t].stage = "intent"
    BY <2>3, <2>5, <2>6, <2>7 DEF Owed
  <2>8. CASE turn[t].stage = "cart"
    BY <2>3, <2>5, <2>6, <2>8 DEF Owed
  <2> QED  BY <2>7, <2>8 DEF Waits
<1> QED  BY <1>1, HostsStand, PTL

\* A host that closed closed under no run but those of deleted chats.
THEOREM CloseWaits == Spec => []CloseWaitsForEveryRun
<1>1. HostStands => CloseWaitsForEveryRun
  <2> SUFFICES ASSUME HostStands, phase = "closed", AllCalm,
                      NEW t \in Turns, Live(Host, t), ~turn[t].gone
               PROVE  FALSE
    <3>1. HostStands => \A t \in Turns : turn[t].gone \in BOOLEAN
      BY Fields DEF HostStands, Stands, Host
    <3> QED  BY <3>1 DEF CloseWaitsForEveryRun
  <2>1. t \in awaited
    BY DEF HostStands, Down
  <2>2. turn[t].stage = "done"
    BY <2>1 DEF HostStands, Down
  <2> QED  BY <2>2 DEF Live, Host, Waits, Works
<1> QED  BY <1>1, HostsStand, PTL

\* How a run comes to pay.
LEMMA PaidHow ==
    ASSUME HostStands, [Next]_vars, NEW t \in Turns,
           turn'[t].stage = "paying", turn[t].stage # "paying", Calm(turn[t].chat)
    PROVE  turn[t].stage = "cart" /\ ~turn[t].gone
<1>0. Stands(Host) /\ Host.turn = turn /\ CalmIn(Host, turn[t].chat)
  BY DEF HostStands, Host, CalmIn, Calm
<1>1. ASSUME NEW k, turn' = k.turn, NothingPaid(Host, k)  PROVE FALSE
  BY <1>0, <1>1 DEF NothingPaid
<1>2. ASSUME NEW k, turn' = k.turn, NEW u \in Turns, Begun(Host, k, u)  PROVE FALSE
  <2>1. CASE u = t
    BY <1>2, <2>1 DEF Begun
  <2>2. CASE u # t
    BY <1>0, <1>2, <2>2 DEF Begun
  <2> QED  BY <2>1, <2>2
<1>3. ASSUME NEW k, turn' = k.turn, NEW u \in Turns, Ran(Host, k, u)  PROVE FALSE
  <2>1. CASE u = t
    BY <1>0, <1>3, <2>1 DEF Ran
  <2>2. CASE u # t
    BY <1>0, <1>3, <2>2 DEF Ran
  <2> QED  BY <2>1, <2>2
<1>4. ASSUME NEW k, turn' = k.turn, Signed(Host, k)
      PROVE  turn[t].stage = "cart" /\ ~turn[t].gone
  <2>1. PICK w \in Turns :
           /\ Went(Host, k, w) /\ Live(Host, w)
           /\ \/ Host.turn[w].stage = "intent" /\ k.turn[w].stage = "issuing"
              \/ Host.turn[w].stage = "cart" /\ k.turn[w].stage = "paying"
           /\ Host.turn[w].lane \in Range(Host.held)
    BY <1>4 DEF Signed
  <2>2. w = t
    BY <1>0, <1>4, <2>1 DEF Went
  <2>3. turn[t].stage = "cart"
    BY <1>0, <1>4, <2>1, <2>2
  <2>4. Placed(turn[t], Host.lane[turn[t].lane], Range(Host.held))
    BY <1>0, <2>1, <2>2 DEF Stands, TurnStands, Unfinished
  <2> QED  BY <1>0, <2>1, <2>2, <2>3, <2>4 DEF Placed
<1>5. CASE \E c \in Chats : Requests(c)
  BY <1>1, <1>2, <1>4, <1>5, RequestStands
<1>6. CASE \E u \in Turns : Work(u)
  BY <1>3, <1>6, WorkStands
<1>7. CASE SettleAll
  BY <1>1, <1>7, SettleAllStands
<1>8. CASE CloseAll \/ UNCHANGED vars
  BY <1>8, CloseAllStands DEF vars
<1> QED  BY <1>5, <1>6, <1>7, <1>8 DEF Next

\* A cart of a calm chat is paid only by a run that was held at the cart gate,
\* whatever signatures earlier carts of the lane were given.
THEOREM CartsHeldFor == Spec => CartsAreHeldFor
<1>1. HostStands /\ [Next]_vars =>
         [\A t \in Turns :
            turn'[t].stage = "paying" /\ turn[t].stage # "paying"
            /\ Calm(turn[t].chat)
            => turn[t].stage = "cart"]_vars
  BY PaidHow
<1> QED  BY <1>1, HostsStand, PTL DEF Spec, CartsAreHeldFor

\* A run whose chat was deleted never pays a cart that was not signed before.
THEOREM DeletedPaysNothing == Spec => DeletedNeverPays
<1>1. HostStands /\ [Next]_vars =>
         [\A t \in Turns :
            turn[t].gone /\ turn[t].stage # "paying" /\ Calm(turn[t].chat)
            => turn'[t].stage # "paying"]_vars
  BY PaidHow
<1> QED  BY <1>1, HostsStand, PTL DEF Spec, DeletedNeverPays

-----------------------------------------------------------------------------
(***************************************************************************)
(* The bill.  Turns may overlap, so several works can be between their     *)
(* beginning and their gate at once: what the invariant says of a hold the *)
(* gate keeps is that each of those works was under way when the hold      *)
(* released what it released.                                              *)
(***************************************************************************)
WorkStages == {"queued", "working", "assembling", "gate", "settling", "done"}
TaskRecord == [kind: {"say", "tap"}, ref: Cards, after: Nat, at: WorkStages,
         cart: Cards]

\* The works in the order they came, and what is on its way to join them.
Line ==
    /\ tasks \in Seq(TaskRecord) /\ running \in Nat
    /\ \A c \in calls : c.kind \in {"say", "tap"} /\ c.ref \in Cards

\* Who the gate waits for stands at it; a hold it keeps was once taken.
GateKept ==
    /\ gate \in [waiting: Nat, by: {gate.by}]
    /\ gate.waiting # 0 => gate.waiting \in 1..Len(tasks) /\ tasks[gate.waiting].at = "gate"
    /\ gate.by = NoHold \/ gate.by.n \in 1..pen.n

\* Holds are numbered as they are pressed, and one is under way at a time.
PenHeld ==
    /\ pen \in [at: {"none", "sent", "answered"}, mine: {pen.mine}, hold: {pen.hold}, n: Nat]
    /\ pen.at = "sent" => /\ pen.hold.n = pen.n /\ pen.n >= 1
                          /\ gate.by.n # pen.n
                          /\ \A r \in receipts : r.n # pen.n
Sheet(p) ==
    p \in [snap: {p.snap}, hand: {p.hand}, spoken: {p.spoken}, confirmed: {p.confirmed},
           open: {p.open}, signed: {p.signed}, place: {p.place}, penned: {p.penned},
           busy: {p.busy}, pay: {p.pay}, press: {p.press}, held: {p.held}]
Pressed ==
    /\ Sheet(page)
    /\ page.press # NoHold => page.press.n = pen.n + 1 /\ pen.at = "none"

\* A receipt is of a work past its gate.
Past == \A r \in receipts : /\ r.task \in 1..Len(tasks) /\ r.n \in 1..pen.n
                            /\ tasks[r.task].at \in {"settling", "done"}

\* What is settled was released; what a kept hold released was beside every
\* work that has yet to come to the gate.
Beside ==
    \A i \in 1..Len(tasks) :
        /\ tasks[i].at = "settling" => \E r \in receipts : r.task = i
        /\ tasks[i].at \in {"working", "assembling"} =>
              \A r \in receipts : r.n = gate.by.n => i \in r.beside

\* Two carts of one hold belong to turns that overlapped.
Apart ==
    \A r, q \in receipts :
        /\ r.task = q.task => r = q
        /\ r.n = q.n => r = q \/ r.task \in q.beside \/ q.task \in r.beside

Filed == Past /\ Beside /\ Apart

BillInv == Line /\ GateKept /\ PenHeld /\ Pressed /\ Filed

-----------------------------------------------------------------------------
\* What the invariant says of a page, a pen and a gate it reads field by field.
LEMMA NoHoldIsNone == NoHold.n = 0
BY DEF NoHold

\* A work goes to another stage, with the cart it has or one it was given.
Moves(i, at) ==
    \/ tasks' = [tasks EXCEPT ![i].at = at]
    \/ \E s \in Cards : tasks' = [tasks EXCEPT ![i].at = at, ![i].cart = s]

\* One work moves to another stage, and no other.
LEMMA WorkMoves ==
    ASSUME Line, NEW i \in 1..Len(tasks), NEW at \in WorkStages,
           Moves(i, at),
           running' \in {0, running}, calls' = calls
    PROVE  /\ Line' /\ Len(tasks') = Len(tasks) /\ tasks'[i].at = at
           /\ \A j \in 1..Len(tasks) : j # i => tasks'[j] = tasks[j]
<1>0. /\ tasks \in [1..Len(tasks) -> TaskRecord] /\ Len(tasks) \in Nat /\ tasks[i] \in TaskRecord
      /\ DOMAIN tasks = 1..Len(tasks)
  BY DEF Line
<1>1. \E w \in TaskRecord : tasks' = [tasks EXCEPT ![i] = w] /\ w.at = at
  <2>1. CASE tasks' = [tasks EXCEPT ![i].at = at]
    <3> DEFINE w == [tasks[i] EXCEPT !.at = at]
    <3>1. w \in TaskRecord /\ w.at = at
      BY <1>0 DEF TaskRecord
    <3>2. tasks' = [tasks EXCEPT ![i] = w]
      BY <2>1
    <3> QED  BY <3>1, <3>2
  <2>2. ASSUME NEW s \in Cards,
               tasks' = [tasks EXCEPT ![i].at = at, ![i].cart = s]
        PROVE  \E w \in TaskRecord : tasks' = [tasks EXCEPT ![i] = w] /\ w.at = at
    <3> DEFINE u == [tasks EXCEPT ![i].at = at]
               w == [u[i] EXCEPT !.cart = s]
    <3>1. u[i] = [tasks[i] EXCEPT !.at = at]
      BY <1>0
    <3>2. w \in TaskRecord /\ w.at = at
      BY <1>0, <3>1 DEF TaskRecord
    <3>3. tasks' = [u EXCEPT ![i] = w]
      BY <2>2
    <3>4. tasks' = [tasks EXCEPT ![i] = w]
      <4> HIDE DEF w
      <4> QED  BY <1>0, <3>3
    <3> QED  BY <3>2, <3>4
  <2> QED  BY <2>1, <2>2 DEF Moves
<1>2. PICK w \in TaskRecord : tasks' = [tasks EXCEPT ![i] = w] /\ w.at = at
  BY <1>1
<1>3. /\ tasks' \in Seq(TaskRecord) /\ Len(tasks') = Len(tasks)
      /\ \A j \in 1..Len(tasks) : tasks'[j] = IF j = i THEN w ELSE tasks[j]
  <2>1. tasks \in Seq(TaskRecord)
    BY DEF Line
  <2> QED  BY <1>2, <2>1, ExceptSeq
<1>4. Line'
  BY <1>3 DEF Line
<1>5. tasks'[i].at = at /\ \A j \in 1..Len(tasks) : j # i => tasks'[j] = tasks[j]
  BY <1>2, <1>3
<1> QED  BY <1>3, <1>4, <1>5

\* What a step of the engine leaves to the page.
Aside == UNCHANGED <<calls, pen, page>>

\* A work that begins: the gate it will come to keeps nothing.
LEMMA BeginsFile ==
    ASSUME BillInv, NEW i \in 1..Len(tasks), tasks[i].at = "queued",
           tasks' = [tasks EXCEPT ![i].at = "working"], running' = running,
           gate' = [waiting |-> 0, by |-> NoHold], receipts' = receipts, Aside
    PROVE  BillInv'
<1>1. /\ Line' /\ Len(tasks') = Len(tasks) /\ tasks'[i].at = "working"
      /\ \A j \in 1..Len(tasks) : j # i => tasks'[j] = tasks[j]
  BY WorkMoves DEF BillInv, Aside, WorkStages, Moves
<1>2. gate'.waiting = 0 /\ gate'.by = NoHold /\ gate'.by.n = 0
  BY NoHoldIsNone
<1>3. GateKept'
  BY <1>2 DEF GateKept
<1>4. PenHeld' /\ Pressed'
  BY <1>2 DEF BillInv, PenHeld, Pressed, Aside, Sheet
<1>5. Filed'
  <2>1. \A r \in receipts : r.n \in 1..pen.n /\ r.task \in 1..Len(tasks) /\ r.task # i
    BY DEF BillInv, Filed, Past
  <2>2. \A r \in receipts : r.n # 0
    BY <2>1
  <2>3. Past'
    BY <1>1, <2>1 DEF BillInv, Filed, Past, Aside
  <2>4. Beside'
    BY <1>1, <1>2, <2>2 DEF BillInv, Filed, Beside
  <2>5. Apart'
    BY DEF BillInv, Filed, Apart
  <2> QED  BY <2>3, <2>4, <2>5 DEF Filed
<1> QED  BY <1>1, <1>3, <1>4, <1>5 DEF BillInv

\* A work that goes on short of the gate, or is done with it.
LEMMA StepsFile ==
    ASSUME BillInv, NEW i \in 1..Len(tasks), NEW at \in {"assembling", "done"},
           tasks[i].at \in {"queued", "working", "assembling", "settling"},
           at = "assembling" => tasks[i].at = "working",
           Moves(i, at),
           running' \in {0, running}, gate' = gate, receipts' = receipts, Aside
    PROVE  BillInv'
<1>1. /\ Line' /\ Len(tasks') = Len(tasks) /\ tasks'[i].at = at
      /\ \A j \in 1..Len(tasks) : j # i => tasks'[j] = tasks[j]
  <2>1. at \in WorkStages /\ calls' = calls /\ Line
    BY DEF BillInv, Aside, WorkStages
  <2> QED  BY <2>1, WorkMoves
<1>2. GateKept'
  BY <1>1 DEF BillInv, GateKept, Aside
<1>3. PenHeld' /\ Pressed'
  BY DEF BillInv, PenHeld, Pressed, Aside, Sheet
<1>4. Filed'
  <2>1. Past'
    BY <1>1 DEF BillInv, Filed, Past, Aside
  <2>2. Beside'
    BY <1>1 DEF BillInv, Filed, Beside
  <2>3. Apart'
    BY DEF BillInv, Filed, Apart
  <2> QED  BY <2>1, <2>2, <2>3 DEF Filed
<1> QED  BY <1>1, <1>2, <1>3, <1>4 DEF BillInv

\* A work handed over stands last, and has not begun.
LEMMA ArriveFiles ==
    ASSUME BillInv, NEW c, Arrive(c)
    PROVE  BillInv'
<1> DEFINE w == [kind |-> c.kind, ref |-> c.ref, after |-> running, at |-> "queued",
                 cart |-> NoCard]
           n == Len(tasks)
<1>0. tasks \in Seq(TaskRecord) /\ n \in Nat /\ running \in Nat
  BY DEF BillInv, Line
<1>1. /\ c \in calls /\ calls' = calls \ {c} /\ tasks' = Append(tasks, w)
      /\ running' = n + 1 /\ UNCHANGED <<gate, receipts, pen, page>>
  BY <1>0 DEF Arrive, Enqueue, screen, history
<1>2. w \in TaskRecord /\ w.at = "queued"
  BY <1>0, <1>1 DEF BillInv, Line, TaskRecord, WorkStages, Cards
<1> HIDE DEF w
<1>3. /\ tasks' \in Seq(TaskRecord) /\ Len(tasks') = n + 1 /\ tasks'[n + 1] = w
      /\ \A j \in 1..n : tasks'[j] = tasks[j]
  BY <1>0, <1>1, <1>2
<1>4. Line'
  BY <1>0, <1>1, <1>3 DEF BillInv, Line
<1>5. (\A j \in 1..n : j \in 1..(n + 1)) /\ \A j \in 1..(n + 1) : j \in 1..n \/ j = n + 1
  BY <1>0
<1>6. GateKept'
  BY <1>1, <1>3, <1>5 DEF BillInv, GateKept
<1>7. PenHeld' /\ Pressed'
  BY <1>1 DEF BillInv, PenHeld, Pressed, Sheet
<1>8. Filed'
  <2>1. Past'
    BY <1>1, <1>3, <1>5 DEF BillInv, Filed, Past
  <2>2. Beside'
    BY <1>1, <1>2, <1>3, <1>5 DEF BillInv, Filed, Beside
  <2>3. Apart'
    BY <1>1 DEF BillInv, Filed, Apart
  <2> QED  BY <2>1, <2>2, <2>3 DEF Filed
<1> QED  BY <1>4, <1>6, <1>7, <1>8 DEF BillInv

\* A work is released by a hold: it was beside all that the hold released
\* before, and what has yet to come to the gate is beside it.
LEMMA ReleasesFile ==
    ASSUME BillInv, NEW i \in 1..Len(tasks), tasks[i].at \in {"assembling", "gate"},
           NEW hold, hold.n \in 1..pen'.n,
           \A q \in receipts : q.n = hold.n => i \in q.beside,
           tasks' = [tasks EXCEPT ![i].at = "settling"], running' = running,
           receipts' = receipts \cup {Receipt(i, hold)}, gate'.by = hold,
           pen'.n = pen.n, calls' = calls,
           \A j \in 1..Len(tasks) : tasks[j].at \in {"working", "assembling"} =>
               \A q \in receipts : q.n = hold.n => j \in q.beside
    PROVE  Line' /\ Filed' /\ Len(tasks') = Len(tasks)
           /\ \A j \in 1..Len(tasks) : j # i => tasks'[j] = tasks[j]
<1> DEFINE r == Receipt(i, hold)
<1>1. /\ Line' /\ Len(tasks') = Len(tasks) /\ tasks'[i].at = "settling"
      /\ \A j \in 1..Len(tasks) : j # i => tasks'[j] = tasks[j]
  BY WorkMoves DEF BillInv, WorkStages, Moves
<1>2. \A q \in receipts : q.task # i
  BY DEF BillInv, Filed, Past
<1>3. r.task = i /\ r.n = hold.n
  BY DEF Receipt
<1>4. \A j \in 1..Len(tasks) :
          j # i /\ tasks[j].at \in {"working", "assembling"} => j \in r.beside
  <2>1. DOMAIN tasks = 1..Len(tasks)
    BY DEF BillInv, Line
  <2> QED  BY <2>1 DEF Receipt, Active
<1> HIDE DEF r
<1>5. receipts' = receipts \cup {r}
  BY DEF r
<1>6. Past'
  BY <1>1, <1>2, <1>3, <1>5 DEF BillInv, Filed, Past
<1>7. Beside'
  BY <1>1, <1>3, <1>4, <1>5 DEF BillInv, Filed, Beside
<1>8. Apart'
  BY <1>2, <1>3, <1>5 DEF BillInv, Filed, Apart
<1> QED  BY <1>1, <1>6, <1>7, <1>8 DEF Filed

\* The cart shown: through with the hold that is kept for it, or to the gate.
LEMMA AnnouncesFile ==
    ASSUME BillInv, NEW i \in 1..Len(tasks), Announces(i)
    PROVE  BillInv'
<1>0. tasks[i].at = "assembling" /\ UNCHANGED <<running, calls, pen, page>>
  BY DEF Announces, screen
<1>00. Len(tasks) \in Nat
  BY DEF BillInv, Line
<1>1. CASE gate.by # NoHold
  <2> DEFINE hold == gate.by
  <2>1. /\ tasks' = [tasks EXCEPT ![i].at = "settling"]
        /\ receipts' = receipts \cup {Receipt(i, hold)} /\ gate' = gate
    BY <1>1 DEF Announces, Move
  <2>2. hold.n \in 1..pen'.n
    BY <1>0, <1>1 DEF BillInv, GateKept
  <2>3. \A j \in 1..Len(tasks) : tasks[j].at \in {"working", "assembling"} =>
            \A q \in receipts : q.n = hold.n => j \in q.beside
    BY DEF BillInv, Filed, Beside
  <2>3a. \A q \in receipts : q.n = hold.n => i \in q.beside
    BY <1>0, <2>3
  <2>3b. gate'.by = hold /\ pen'.n = pen.n /\ tasks[i].at \in {"assembling", "gate"}
    BY <1>0, <2>1
  <2> HIDE DEF hold
  <2>4. Line' /\ Filed' /\ Len(tasks') = Len(tasks)
        /\ \A j \in 1..Len(tasks) : j # i => tasks'[j] = tasks[j]
    BY <1>0, <2>1, <2>2, <2>3, <2>3a, <2>3b, ReleasesFile
  <2>5. GateKept'
    BY <1>0, <2>1, <2>4 DEF BillInv, GateKept
  <2>6. PenHeld'
    <3>1. Receipt(i, hold).n = hold.n
      BY DEF Receipt
    <3> QED  BY <1>0, <2>1, <3>1 DEF BillInv, PenHeld, hold
  <2>7. Pressed'
    BY <1>0 DEF BillInv, Pressed, Sheet
  <2> QED  BY <2>4, <2>5, <2>6, <2>7 DEF BillInv
<1>2. CASE gate.by = NoHold
  <2>1. /\ tasks' = [tasks EXCEPT ![i].at = "gate"] /\ receipts' = receipts
        /\ gate' = [gate EXCEPT !.waiting = i]
    BY <1>2 DEF Announces, Move
  <2>2. /\ Line' /\ Len(tasks') = Len(tasks) /\ tasks'[i].at = "gate"
        /\ \A j \in 1..Len(tasks) : j # i => tasks'[j] = tasks[j]
    BY <1>0, <2>1, WorkMoves DEF BillInv, WorkStages, Moves
  <2>3. gate'.waiting = i /\ gate'.by = gate.by /\ gate' \in [waiting: Nat, by: {gate'.by}]
    BY <1>00, <2>1 DEF BillInv, GateKept
  <2>4. GateKept'
    BY <1>0, <1>2, <2>2, <2>3 DEF GateKept
  <2>5. PenHeld'
    BY <1>0, <2>1, <2>3 DEF BillInv, PenHeld
  <2>6. Pressed'
    BY <1>0 DEF BillInv, Pressed, Sheet
  <2>7. Filed'
    <3>1. Past'
      BY <1>0, <2>1, <2>2 DEF BillInv, Filed, Past
    <3>2. Beside'
      BY <2>1, <2>2, <2>3 DEF BillInv, Filed, Beside
    <3>3. Apart'
      BY <2>1 DEF BillInv, Filed, Apart
    <3> QED  BY <3>1, <3>2, <3>3 DEF Filed
  <2> QED  BY <2>2, <2>4, <2>5, <2>6, <2>7 DEF BillInv
<1> QED  BY <1>1, <1>2

\* The hold reaches the gate, whoever waits there or nobody.
LEMMA TakesFile ==
    ASSUME BillInv, TakeHold
    PROVE  BillInv'
<1>0. /\ pen.at = "sent" /\ pen' = [pen EXCEPT !.at = "answered"]
      /\ gate' = [waiting |-> 0, by |-> pen.hold]
      /\ UNCHANGED <<running, calls, page>>
  BY DEF TakeHold, screen
<1>1. /\ pen'.at = "answered" /\ pen'.n = pen.n /\ pen.n \in Nat
      /\ pen' \in [at: {"none", "sent", "answered"}, mine: {pen'.mine}, hold: {pen'.hold}, n: Nat]
  <2>1. pen' \in [at: {"answered"}, mine: {pen.mine}, hold: {pen.hold}, n: {pen.n}]
    BY <1>0 DEF BillInv, PenHeld
  <2>2. pen.n \in Nat
    BY DEF BillInv, PenHeld
  <2> QED  BY <2>1, <2>2
<1>2. gate'.waiting = 0 /\ gate'.by = pen.hold /\ gate'.by.n = pen.n /\ pen.n \in 1..pen.n
      /\ gate' \in [waiting: Nat, by: {gate'.by}] /\ \A r \in receipts : r.n # pen.n
  BY <1>0, <1>1 DEF BillInv, PenHeld
<1>3. PenHeld'
  BY <1>1 DEF PenHeld
<1>4. Pressed'
  BY <1>0, <1>1 DEF BillInv, Pressed, Sheet
<1>5. GateKept'
  BY <1>1, <1>2 DEF GateKept
<1>6. CASE gate.waiting = 0
  <2>1. UNCHANGED <<tasks, receipts>>
    BY <1>6 DEF TakeHold
  <2>2. Line'
    BY <1>0, <2>1 DEF BillInv, Line
  <2>3. Filed'
    BY <1>1, <1>2, <2>1 DEF BillInv, Filed, Past, Beside, Apart
  <2> QED  BY <1>3, <1>4, <1>5, <2>2, <2>3 DEF BillInv
<1>7. CASE gate.waiting # 0
  <2> DEFINE i == gate.waiting
             hold == pen.hold
  <2>1. /\ tasks' = [tasks EXCEPT ![i].at = "settling"]
        /\ receipts' = receipts \cup {Receipt(i, hold)}
    BY <1>7 DEF TakeHold, Move
  <2>2. hold.n = pen.n /\ gate'.by = hold
    BY <1>0 DEF BillInv, PenHeld
  <2>3. i \in 1..Len(tasks) /\ tasks[i].at = "gate"
    BY <1>7 DEF BillInv, GateKept
  <2> HIDE DEF i, hold
  <2>5. /\ hold.n \in 1..pen'.n /\ (\A q \in receipts : q.n = hold.n => i \in q.beside)
        /\ pen'.n = pen.n /\ tasks[i].at \in {"assembling", "gate"}
        /\ \A j \in 1..Len(tasks) : tasks[j].at \in {"working", "assembling"} =>
               \A q \in receipts : q.n = hold.n => j \in q.beside
    BY <1>1, <1>2, <2>2, <2>3
  <2>6. running' = running /\ calls' = calls
    BY <1>0
  <2>4. Line' /\ Filed'
    BY <2>1, <2>2, <2>3, <2>5, <2>6, ReleasesFile
  <2> QED  BY <1>3, <1>4, <1>5, <2>4 DEF BillInv
<1> QED  BY <1>6, <1>7

\* What the engine does, whoever it does it for.
LEMMA HostFiles ==
    ASSUME BillInv, HostStep
    PROVE  BillInv'
<1>0. Line /\ DOMAIN tasks = 1..Len(tasks)
  BY DEF BillInv, Line
<1>1. CASE \E c \in calls : Arrive(c)
  BY <1>1, ArriveFiles
<1>2. CASE TakeHold
  BY <1>2, TakesFile
<1>3. CASE \E t \in DOMAIN txns : Pays(t) \/ PaymentFails(t)
  <2>1. UNCHANGED <<tasks, running, gate, calls, pen, page, receipts>>
    BY <1>3 DEF Pays, PaymentFails, host, screen,
          history
  <2> QED  BY <2>1 DEF BillInv, Line, GateKept, PenHeld, Pressed, Sheet, Filed, Past, Beside, Apart
<1>4. ASSUME NEW i \in 1..Len(tasks), BeginsSentence(i) \/ BeginsTap(i)
      PROVE  BillInv'
  <2>1. tasks[i].at = "queued"
    BY <1>4 DEF BeginsSentence, BeginsTap, Turn
  <2>2. Aside /\ receipts' = receipts
    BY <1>4 DEF BeginsSentence, BeginsTap, screen,
          history, Aside
  <2>3. CASE /\ tasks' = [tasks EXCEPT ![i].at = "working"] /\ running' = running
             /\ gate' = [waiting |-> 0, by |-> NoHold]
    BY <2>1, <2>2, <2>3, BeginsFile
  <2>4. CASE /\ tasks' = [tasks EXCEPT ![i].at = "done"] /\ running' = 0 /\ gate' = gate
    BY <2>1, <2>2, <2>4, StepsFile DEF Moves
  <2> QED
    BY <1>4, <2>3, <2>4 DEF BeginsSentence, BeginsTap, Move,
       Done
<1>5. ASSUME NEW i \in 1..Len(tasks),
             Answers(i) \/ Fails(i) \/ Settles(i)
      PROVE  BillInv'
  <2>1. /\ tasks[i].at \in {"working", "assembling", "settling"}
        /\ tasks' = [tasks EXCEPT ![i].at = "done"] /\ running' = 0
        /\ gate' = gate /\ receipts' = receipts /\ Aside
    BY <1>5 DEF Answers, Fails, Settles, Done,
          Move, screen, history, Aside
  <2> QED  BY <2>1, StepsFile DEF Moves
<1>6. ASSUME NEW i \in 1..Len(tasks), NEW s \in Skus, Proposes(i, s)
      PROVE  BillInv'
  <2>1. /\ tasks[i].at = "working" /\ s \in Cards
        /\ tasks' = [tasks EXCEPT ![i].at = "assembling", ![i].cart = s]
        /\ running' = running /\ gate' = gate /\ receipts' = receipts /\ Aside
    BY <1>6 DEF Proposes, screen, history, Aside, Cards
  <2> QED  BY <2>1, StepsFile DEF Moves
<1>7. ASSUME NEW i \in 1..Len(tasks), Announces(i)
      PROVE  BillInv'
  BY <1>7, AnnouncesFile
<1> QED  BY <1>0, <1>1, <1>2, <1>3, <1>4, <1>5, <1>6, <1>7 DEF HostStep

-----------------------------------------------------------------------------
\* A card that mounts, or stays, is the same page with the same press.
LEMMA CardMountsKeep ==
    ASSUME NEW b, Sheet(b)
    PROVE  LET c == CardMounts(b)
           IN  Sheet(c) /\ c.press = b.press /\ (c.pay = b.pay \/ c.pay.txn = 0)
<1> DEFINE c == CardMounts(b)
           at == Place(b)
           isRecord == at = "record"
           unpaid == [txn |-> 0, is |-> "none"]
           l == [b EXCEPT !.place = at, !.penned = isRecord,
                          !.busy = FALSE, !.held = FALSE, !.pay = unpaid]
<1>1. c = b \/ c = l
  BY DEF CardMounts
<1>0. unpaid.txn = 0
  OBVIOUS
<1> HIDE DEF at, isRecord, unpaid
<1>2. l \in
        [snap: {b.snap}, hand: {b.hand}, spoken: {b.spoken}, confirmed: {b.confirmed},
         open: {b.open}, signed: {b.signed}, place: {at}, penned: {isRecord},
         busy: {FALSE}, pay: {unpaid}, press: {b.press}, held: {FALSE}]
  BY DEF Sheet
<1>3. Sheet(c) /\ c.press = b.press /\ (c.pay = b.pay \/ c.pay.txn = 0)
  BY <1>0, <1>1, <1>2 DEF Sheet
<1> HIDE DEF c
<1> QED  BY <1>3 DEF c

\* What renders is a page like the one given, with the same press under way and
\* the same word of the payment, or none.
LEMMA RenderKeepsPress ==
    ASSUME NEW p, Sheet(p), Render(p)
    PROVE  /\ Sheet(page') /\ page'.press = p.press
           /\ page'.pay = p.pay \/ page'.pay.txn = 0
<1> DEFINE a == HandHeard(p)
           b == TxnHeard(a, page.snap.txn)
           c == CardMounts(b)
<1>1. Sheet(a) /\ a.press = p.press /\ a.pay = p.pay
  <2>1. CASE a = p
    BY <2>1
  <2>2. CASE a # p
    <3> DEFINE h == IF p.hand = p.snap.picked THEN p.hand ELSE Unset
               l == [p EXCEPT !.spoken = p.snap.picked, !.hand = h]
    <3>1. a = l
      BY <2>2 DEF HandHeard
    <3> HIDE DEF h
    <3>2. l \in [snap: {p.snap}, hand: {h}, spoken: {p.snap.picked}, confirmed: {p.confirmed},
                 open: {p.open}, signed: {p.signed}, place: {p.place}, penned: {p.penned},
                 busy: {p.busy}, pay: {p.pay}, press: {p.press}, held: {p.held}]
      BY DEF Sheet
    <3> QED  BY <3>1, <3>2 DEF Sheet
  <2> QED  BY <2>1, <2>2
<1> HIDE DEF a
<1>2. Sheet(b) /\ b.press = a.press /\ b.pay = a.pay
  <2>1. b = a \/ b = [a EXCEPT !.signed = TRUE]
    BY DEF TxnHeard
  <2>2. [a EXCEPT !.signed = TRUE] \in
          [snap: {a.snap}, hand: {a.hand}, spoken: {a.spoken}, confirmed: {a.confirmed},
           open: {a.open}, signed: {TRUE}, place: {a.place}, penned: {a.penned},
           busy: {a.busy}, pay: {a.pay}, press: {a.press}, held: {a.held}]
    BY <1>1 DEF Sheet
  <2> QED  BY <1>1, <2>1, <2>2 DEF Sheet
<1> HIDE DEF b
<1>3. Sheet(c) /\ c.press = b.press /\ (c.pay = b.pay \/ c.pay.txn = 0)
  BY <1>2, CardMountsKeep
<1> HIDE DEF c
<1>4. page' = c
  BY DEF Render, a, b, c
<1> QED  BY <1>1, <1>2, <1>3, <1>4

\* A gesture or a word from the host leaves the engine's books alone.
LEMMA PageFiles ==
    ASSUME BillInv, UNCHANGED <<tasks, running, gate, receipts>>,
           \A c \in calls' : c.kind \in {"say", "tap"} /\ c.ref \in Cards,
           PenHeld', Pressed', pen'.n >= pen.n, pen'.n \in Nat
    PROVE  BillInv'
<1>1. Line'
  BY DEF BillInv, Line
<1>2. pen.n \in Nat /\ \A n \in 1..pen.n : n \in 1..pen'.n
  BY DEF BillInv, PenHeld
<1>3. GateKept' /\ Filed'
  BY <1>2 DEF BillInv, GateKept, Filed, Past, Beside, Apart
<1> QED  BY <1>1, <1>3 DEF BillInv

\* A page that renders under the same pen, its sweep going on or gone.
LEMMA PageTurns ==
    ASSUME BillInv, UNCHANGED <<tasks, running, gate, receipts, pen>>,
           \A c \in calls' : c.kind \in {"say", "tap"} /\ c.ref \in Cards,
           Sheet(page'), page'.press = page.press \/ page'.press = NoHold
    PROVE  BillInv'
<1>1. PenHeld' /\ pen'.n >= pen.n /\ pen'.n \in Nat
  BY DEF BillInv, PenHeld
<1>2. Pressed'
  BY DEF BillInv, Pressed, Sheet
<1> QED  BY <1>1, <1>2, PageFiles

\* The same, said of a page about to be rendered.
LEMMA RendersFile ==
    ASSUME BillInv, UNCHANGED <<tasks, running, gate, receipts, pen>>,
           \A c \in calls' : c.kind \in {"say", "tap"} /\ c.ref \in Cards,
           NEW p, Sheet(p), p.press = page.press, Render(p)
    PROVE  BillInv'
<1>1. Sheet(page') /\ page'.press = page.press
  BY RenderKeepsPress
<1> QED  BY <1>1, PageTurns

\* What a sentence or a tap posts is a call of that kind.
LEMMA PostsAreCalls ==
    ASSUME BillInv, NEW kind \in {"say", "tap"}, NEW ref \in Cards,
           Post(kind, ref)
    PROVE  \A c \in calls' : c.kind \in {"say", "tap"} /\ c.ref \in Cards
BY DEF Post, BillInv, Line

\* A sentence typed.
LEMMA SayFiles ==
    ASSUME BillInv, Say
    PROVE  BillInv'
<1> DEFINE snap == Fold(page.snap, Buyer)
           l == [page EXCEPT !.snap = snap]
<1>1. /\ UNCHANGED <<tasks, running, gate, receipts, pen>>
      /\ Post("say", NoCard) /\ Render(l) /\ NoCard \in Cards
  BY DEF Say, Gesture, host, history, Cards
<1> HIDE DEF snap
<1>2. Sheet(l) /\ l.press = page.press
  BY DEF BillInv, Pressed, Sheet
<1> HIDE DEF l
<1> QED  BY <1>1, <1>2, PostsAreCalls, RendersFile

\* A card tapped: a sentence, or a rebuild of the cart that stands.
LEMMA ChooseFiles ==
    ASSUME BillInv, NEW s \in Skus, Choose(s)
    PROVE  BillInv'
<1> DEFINE snap == Fold(page.snap, Buyer)
           l == [page EXCEPT !.hand = s, !.snap = snap]
           m == [page EXCEPT !.hand = s, !.confirmed = TRUE, !.open = TRUE]
<1>1. /\ UNCHANGED <<tasks, running, gate, receipts, pen>> /\ s \in Cards
      /\ \/ Post("say", s) /\ Render(l)
         \/ Post("tap", s) /\ Render(m)
  BY DEF Choose, Gesture, host, history, Cards
<1> HIDE DEF snap
<1>2. Sheet(l) /\ l.press = page.press
  BY DEF BillInv, Pressed, Sheet
<1>3. Sheet(m) /\ m.press = page.press
  BY DEF BillInv, Pressed, Sheet
<1> HIDE DEF l, m
<1> QED  BY <1>1, <1>2, <1>3, PostsAreCalls, RendersFile

\* The gestures that only render: the card let go, confirmed, its bill opened
\* and closed, the panel nudged.
LEMMA RendersOnlyFile ==
    ASSUME BillInv,
           \/ ChangeChoice \/ Confirm \/ ReviewBill
           \/ CloseBill \/ Nudge
    PROVE  BillInv'
<1>1. /\ UNCHANGED <<tasks, running, gate, receipts, pen, calls>>
      /\ \/ Render([page EXCEPT !.hand = NoCard, !.confirmed = FALSE, !.open = FALSE])
         \/ Render([page EXCEPT !.confirmed = TRUE])
         \/ Render([page EXCEPT !.open = TRUE])
         \/ Render([page EXCEPT !.open = FALSE])
         \/ page' = page
  BY DEF ChangeChoice, Confirm, ReviewBill, CloseBill,
     Nudge, Gesture, host, history
<1>2. \A c \in calls' : c.kind \in {"say", "tap"} /\ c.ref \in Cards
  BY <1>1 DEF BillInv, Line
<1>3. Sheet(page)
  BY DEF BillInv, Pressed
<1>4. CASE page' = page
  <2>1. Sheet(page') /\ page'.press = page.press
    BY <1>3, <1>4 DEF Sheet
  <2> QED  BY <1>1, <1>2, <2>1, PageTurns
<1>5. CASE Render([page EXCEPT !.hand = NoCard, !.confirmed = FALSE, !.open = FALSE])
  <2> DEFINE l == [page EXCEPT !.hand = NoCard, !.confirmed = FALSE, !.open = FALSE]
  <2>1. Sheet(l) /\ l.press = page.press
    BY <1>3 DEF Sheet
  <2>2. Render(l)
    BY <1>5
  <2> HIDE DEF l
  <2> QED  BY <1>1, <1>2, <2>1, <2>2, RendersFile
<1>6. CASE Render([page EXCEPT !.confirmed = TRUE])
  <2> DEFINE l == [page EXCEPT !.confirmed = TRUE]
  <2>1. Sheet(l) /\ l.press = page.press
    BY <1>3 DEF Sheet
  <2>2. Render(l)
    BY <1>6
  <2> HIDE DEF l
  <2> QED  BY <1>1, <1>2, <2>1, <2>2, RendersFile
<1>7. ASSUME NEW b \in BOOLEAN, Render([page EXCEPT !.open = b])
      PROVE  BillInv'
  <2> DEFINE l == [page EXCEPT !.open = b]
  <2>1. Sheet(l) /\ l.press = page.press
    BY <1>3 DEF Sheet
  <2>2. Render(l)
    BY <1>7
  <2> HIDE DEF l
  <2> QED  BY <1>1, <1>2, <2>1, <2>2, RendersFile
<1> QED  BY <1>1, <1>4, <1>5, <1>6, <1>7

\* A hold begins under the number after the last completed one.
LEMMA PressFiles ==
    ASSUME BillInv, Press \/ Abort
    PROVE  BillInv'
<1> DEFINE hold == [n |-> pen.n + 1, card |-> Chosen(page),
                    total |-> Total(page)]
           l == [page EXCEPT !.held = TRUE, !.press = hold]
           m == [page EXCEPT !.press = NoHold, !.held = FALSE]
<1>1. /\ UNCHANGED <<tasks, running, gate, receipts, pen, calls>>
      /\ (pen.at = "none" /\ page' = l) \/ page' = m
  BY DEF Press, Abort, Gesture, host, history
<1>2. hold.n = pen.n + 1
  OBVIOUS
<1> HIDE DEF hold
<1>3. Sheet(page)
  BY DEF BillInv, Pressed
<1>4. Sheet(l) /\ l.press = hold
  BY <1>3 DEF Sheet
<1>5. Sheet(m) /\ m.press = NoHold
  BY <1>3 DEF Sheet
<1> HIDE DEF l, m
<1>6. Pressed'
  BY <1>1, <1>2, <1>4, <1>5 DEF Pressed, Sheet
<1>7. PenHeld' /\ pen'.n >= pen.n /\ pen'.n \in Nat
  BY <1>1 DEF BillInv, PenHeld
<1>8. \A c \in calls' : c.kind \in {"say", "tap"} /\ c.ref \in Cards
  BY <1>1 DEF BillInv, Line
<1> QED  BY <1>1, <1>6, <1>7, <1>8, PageFiles

\* The sweep completes: its number is one that nothing has released yet.
LEMMA CompleteFiles ==
    ASSUME BillInv, Complete
    PROVE  BillInv'
<1> DEFINE hold == page.press
           down == page.held
           l == [page EXCEPT !.press = NoHold, !.held = FALSE, !.busy = down]
<1>1. /\ UNCHANGED <<tasks, running, gate, receipts, calls>>
      /\ hold # NoHold /\ page' = l
      /\ pen' = [at |-> "sent", mine |-> TRUE, hold |-> hold, n |-> hold.n]
  BY DEF Complete, Gesture, host, history
<1>2. hold.n = pen.n + 1 /\ pen.n \in Nat
  BY <1>1 DEF BillInv, Pressed, PenHeld
<1> HIDE DEF hold, down
<1>3. Sheet(l) /\ l.press = NoHold
  BY DEF BillInv, Pressed, Sheet
<1> HIDE DEF l
<1>4. /\ pen' \in [at: {"none", "sent", "answered"}, mine: {pen'.mine}, hold: {pen'.hold}, n: Nat]
      /\ pen'.n = pen.n + 1 /\ pen'.hold.n = pen.n + 1
  BY <1>1, <1>2
<1>5. gate'.by.n # pen.n + 1 /\ \A r \in receipts' : r.n # pen.n + 1
  <2>1. gate.by.n = 0 \/ gate.by.n \in 1..pen.n
    BY NoHoldIsNone DEF BillInv, GateKept
  <2>2. \A r \in receipts : r.n \in 1..pen.n
    BY DEF BillInv, Filed, Past
  <2> QED  BY <1>1, <1>2, <2>1, <2>2
<1>6. PenHeld'
  BY <1>2, <1>4, <1>5 DEF PenHeld
<1>7. Pressed'
  BY <1>1, <1>3 DEF Pressed, Sheet
<1>8. \A c \in calls' : c.kind \in {"say", "tap"} /\ c.ref \in Cards
  BY <1>1 DEF BillInv, Line
<1>9. pen'.n >= pen.n /\ pen'.n \in Nat
  BY <1>2, <1>4
<1> QED  BY <1>1, <1>6, <1>7, <1>8, <1>9, PageFiles

-----------------------------------------------------------------------------
\* A beat arrives.
LEMMA ReceiveFiles ==
    ASSUME BillInv, Receive
    PROVE  BillInv'
<1> DEFINE snap == Fold(page.snap, Head(wire))
           l == [page EXCEPT !.snap = snap]
<1>1. UNCHANGED <<tasks, running, gate, receipts, pen, calls>> /\ Render(l)
  BY DEF Receive, host, history
<1> HIDE DEF snap
<1>2. Sheet(l) /\ l.press = page.press
  BY DEF BillInv, Pressed, Sheet
<1>3. \A c \in calls' : c.kind \in {"say", "tap"} /\ c.ref \in Cards
  BY <1>1 DEF BillInv, Line
<1> HIDE DEF l
<1> QED  BY <1>1, <1>2, <1>3, RendersFile

\* A page that mounts has no sweep under way.
LEMMA MountsAreSheets ==
    ASSUME NEW snap
    PROVE  LET m == CardMounts(Mounted(snap))
           IN  Sheet(m) /\ m.press = NoHold
<1> DEFINE b == Mounted(snap)
           c == CardMounts(b)
<1>1. Sheet(b) /\ b.press = NoHold
  BY DEF Mounted, Sheet
<1> HIDE DEF b
<1>2. Sheet(c) /\ c.press = b.press
  BY <1>1, CardMountsKeep
<1> QED  BY <1>1, <1>2 DEF b

\* The page is torn down, and its hold is nobody's here.
LEMMA ReloadFiles ==
    ASSUME BillInv, Reload
    PROVE  BillInv'
<1>1. /\ UNCHANGED <<tasks, running, gate, receipts, calls>>
      /\ page' = CardMounts(Mounted(kept))
      /\ pen' = [pen EXCEPT !.mine = FALSE]
  BY DEF Reload, host
<1>2. Sheet(page') /\ page'.press = NoHold
  BY <1>1, MountsAreSheets
<1>3. pen.n \in Nat /\ pen' \in [at: {pen.at}, mine: {FALSE}, hold: {pen.hold}, n: {pen.n}]
      /\ pen.at \in {"none", "sent", "answered"}
  BY <1>1 DEF BillInv, PenHeld
<1>4. pen'.at = pen.at /\ pen'.n = pen.n /\ pen'.hold = pen.hold
      /\ pen' \in [at: {"none", "sent", "answered"}, mine: {pen'.mine}, hold: {pen'.hold}, n: Nat]
  BY <1>3
<1>5. PenHeld'
  BY <1>1, <1>4 DEF BillInv, PenHeld
<1>6. Pressed'
  BY <1>2 DEF Pressed
<1>7. \A c \in calls' : c.kind \in {"say", "tap"} /\ c.ref \in Cards
  BY <1>1 DEF BillInv, Line
<1>8. pen'.n >= pen.n /\ pen'.n \in Nat
  BY <1>3, <1>4
<1> QED  BY <1>1, <1>5, <1>6, <1>7, <1>8, PageFiles

\* The pen comes back, with the host's answer or without one.
LEMMA PenReturns ==
    ASSUME BillInv, UNCHANGED <<tasks, running, gate, receipts, calls>>,
           pen.at # "none", NoPen,
           Sheet(page'), page'.press = page.press
    PROVE  BillInv'
<1>1. pen.n \in Nat
      /\ pen' \in [at: {"none"}, mine: {FALSE}, hold: {NoHold}, n: {pen.n}]
  BY DEF BillInv, PenHeld, NoPen
<1>2. pen'.at = "none" /\ pen'.n = pen.n
      /\ pen' \in [at: {"none", "sent", "answered"}, mine: {pen'.mine}, hold: {pen'.hold}, n: Nat]
  BY <1>1
<1>3. PenHeld'
  BY <1>2 DEF PenHeld
<1>4. Pressed'
  BY <1>2 DEF BillInv, Pressed
<1>5. \A c \in calls' : c.kind \in {"say", "tap"} /\ c.ref \in Cards
  BY DEF BillInv, Line
<1>6. pen'.n >= pen.n /\ pen'.n \in Nat
  BY <1>1, <1>2
<1> QED  BY <1>3, <1>4, <1>5, <1>6, PageFiles

\* The hold comes back, to the card that sent it or to nobody.
LEMMA AnswersFile ==
    ASSUME BillInv, HoldAnswered \/ HoldFails
    PROVE  BillInv'
<1> DEFINE snap == [page.snap EXCEPT !.awaiting = FALSE]
           penned == page.penned \/ page.busy
           l == [page EXCEPT !.snap = snap, !.signed = TRUE, !.busy = FALSE, !.penned = penned]
           m == [page EXCEPT !.busy = FALSE]
<1>1. /\ UNCHANGED <<tasks, running, gate, receipts, calls>>
      /\ pen.at # "none" /\ NoPen
      /\ Render([page EXCEPT !.snap.awaiting = FALSE, !.signed = TRUE,
                                !.busy = FALSE, !.penned = @ \/ page.busy])
         \/ page' = m \/ page' = page
  BY DEF HoldAnswered, HoldFails, Gesture, host,
     screen, history
<1>2. Sheet(page)
  BY DEF BillInv, Pressed
<1>3. CASE page' = page
  <2>1. Sheet(page') /\ page'.press = page.press
    BY <1>2, <1>3 DEF Sheet
  <2> QED  BY <1>1, <2>1, PenReturns
<1>4. CASE page' = m
  <2>1. Sheet(m) /\ m.press = page.press
    BY <1>2 DEF Sheet
  <2> HIDE DEF m
  <2> QED  BY <1>1, <1>4, <2>1, PenReturns
<1>5. CASE Render([page EXCEPT !.snap.awaiting = FALSE, !.signed = TRUE,
                                !.busy = FALSE, !.penned = @ \/ page.busy])
  <2>1. Render(l)
    BY <1>5
  <2> HIDE DEF snap, penned
  <2>2. Sheet(l) /\ l.press = page.press
    BY <1>2 DEF Sheet
  <2> HIDE DEF l
  <2>3. Sheet(page') /\ page'.press = page.press
    BY <2>1, <2>2, RenderKeepsPress
  <2> QED  BY <1>1, <2>3, PenReturns
<1> QED  BY <1>1, <1>3, <1>4, <1>5

\* The poll's rounds: an answer changes what the panel says of the payment.
LEMMA PollFiles ==
    ASSUME BillInv,
           AskAgain \/ \E a \in asks : Answer(a) \/ AskFails(a)
    PROVE  BillInv'
<1>1. /\ UNCHANGED <<tasks, running, gate, receipts, pen, calls>>
      /\ page' = page \/ \E pay : page' = [page EXCEPT !.pay = pay]
  BY DEF AskAgain, Answer, AskFails, host,
     history
<1>2. Sheet(page)
  BY DEF BillInv, Pressed
<1>3. Sheet(page') /\ page'.press = page.press
  BY <1>1, <1>2 DEF Sheet
<1>4. \A c \in calls' : c.kind \in {"say", "tap"} /\ c.ref \in Cards
  BY <1>1 DEF BillInv, Line
<1> QED  BY <1>1, <1>3, <1>4, PageTurns

-----------------------------------------------------------------------------
\* An empty conversation.
LEMMA BillStarts ==
    ASSUME BillInit
    PROVE  BillInv
<1>1. /\ tasks = <<>> /\ running = 0 /\ calls = {} /\ receipts = {}
      /\ gate = [waiting |-> 0, by |-> NoHold]
      /\ pen = [at |-> "none", mine |-> FALSE, hold |-> NoHold, n |-> 0]
      /\ page = Mounted(NoSnapshot)
  BY DEF BillInit
<1>2. Line
  BY <1>1 DEF Line
<1>3. GateKept /\ PenHeld /\ Filed
  BY <1>1 DEF GateKept, PenHeld, Filed, Past, Beside, Apart
<1>4. Sheet(page) /\ page.press = NoHold
  BY <1>1 DEF Mounted, Sheet
<1> QED  BY <1>2, <1>3, <1>4 DEF BillInv, Pressed

\* No step of the engine, the shopper or the page undoes the books.
LEMMA BillSteps ==
    ASSUME BillInv, [BillNext]_billVars
    PROVE  BillInv'
<1>1. CASE HostStep
  BY <1>1, HostFiles
<1>2. CASE Hand
  BY <1>2, SayFiles, ChooseFiles, RendersOnlyFile, PressFiles, CompleteFiles
     DEF Hand
<1>3. CASE PageStep
  BY <1>3, ReceiveFiles, ReloadFiles, AnswersFile, PollFiles DEF PageStep
<1>4. CASE UNCHANGED billVars
  <2>1. UNCHANGED <<tasks, running, gate, receipts, pen, calls, page>>
    BY <1>4 DEF billVars, host, screen, history
  <2> QED  BY <2>1 DEF BillInv, Line, GateKept, PenHeld, Pressed, Sheet, Filed, Past, Beside, Apart
<1> QED  BY <1>1, <1>2, <1>3, <1>4 DEF BillNext

\* The books stay in order, whatever is typed, tapped, held, lost or reloaded.
LEMMA BillStands == BillSpec => []BillInv
<1>1. BillInit => BillInv
  BY BillStarts
<1>2. BillInv /\ [BillNext]_billVars => BillInv'
  BY BillSteps
<1> QED  BY <1>1, <1>2, PTL DEF BillSpec

\* A cart goes to settlement by one hold, and a hold releases a second cart only
\* to a turn that was under way beside the first (ConfirmationGate's latch, reset
\* by each run that begins), for any shelf and any number of sentences, taps,
\* holds, failures and reloads, and however ChatService lets turns overlap.
THEOREM HoldsBuyOneCart == BillSpec => []OneHoldOneCart
<1>1. BillInv => OneHoldOneCart
  BY DEF BillInv, Line, Filed, Beside, Apart, OneHoldOneCart
<1> QED  BY <1>1, BillStands, PTL

-----------------------------------------------------------------------------
(* What the panel is told of the payment.                                   *)

\* A round of the poll that is live asks what the page would ask now.
Asking(a) == a \in [txn: {a.txn}, live: {a.live}]
RoundsAreCurrent ==
    \A a \in asks : Asking(a) /\ (a.live => a.txn = Question(page))
PollInv == Sheet(page) /\ RoundsAreCurrent

\* What one step may say of the payment.
PayIsCurrent == page'.pay # page.pay => page'.pay.txn \in {0, page'.snap.txn}

\* The rounds under way when the poll starts over are not live any more.
LEMMA RestartAsks ==
    ASSUME \A a \in asks : Asking(a), NEW t, Restart(t)
    PROVE  \A a \in asks' : Asking(a) /\ (a.live => a.txn = t)
<1>1. ASSUME NEW a \in asks
      PROVE  Asking([a EXCEPT !.live = FALSE]) /\ ~[a EXCEPT !.live = FALSE].live
  <2>1. Asking(a)
    OBVIOUS
  <2> QED  BY <2>1 DEF Asking
<1>2. Asking([txn |-> t, live |-> TRUE]) /\ [txn |-> t, live |-> TRUE].txn = t
  BY DEF Asking
<1>3. asks' \subseteq {[a EXCEPT !.live = FALSE] : a \in asks} \cup {[txn |-> t, live |-> TRUE]}
  BY DEF Restart
<1> QED  BY <1>1, <1>2, <1>3

\* A page rendered asks about its own transaction.
LEMMA RenderAsks ==
    ASSUME PollInv, NEW p, Sheet(p), p.pay = page.pay, Render(p)
    PROVE  PollInv' /\ PayIsCurrent
<1>1. Sheet(page') /\ (page'.pay = page.pay \/ page'.pay.txn = 0)
  BY RenderKeepsPress
<1>2. \/ Restart(Question(page'))
      \/ Question(page') = Question(page) /\ asks' = asks
  <2> DEFINE q == CardMounts(
                     TxnHeard(HandHeard(p), page.snap.txn))
  <2>1. /\ page' = q
        /\ IF q.place # page.place \/ Question(q) # Question(page)
           THEN Restart(Question(q)) ELSE UNCHANGED <<asks, loop>>
    BY DEF Render
  <2> HIDE DEF q
  <2> QED  BY <2>1
<1>3. RoundsAreCurrent'
  <2>1. CASE Restart(Question(page'))
    BY <2>1, RestartAsks DEF PollInv, RoundsAreCurrent
  <2>2. CASE Question(page') = Question(page) /\ asks' = asks
    BY <2>2 DEF PollInv, RoundsAreCurrent, Asking
  <2> QED  BY <1>2, <2>1, <2>2
<1> QED  BY <1>1, <1>3 DEF PollInv, PayIsCurrent

\* A page that changes neither what it shows nor what it was told.
LEMMA AsksStay ==
    ASSUME PollInv, Sheet(page'), page'.pay = page.pay, page'.snap = page.snap,
           page'.place = page.place, asks' = asks
    PROVE  PollInv' /\ PayIsCurrent
<1>1. Question(page') = Question(page)
  BY DEF Question
<1> QED  BY <1>1 DEF PollInv, RoundsAreCurrent, Asking, PayIsCurrent

\* The shopper's gestures.
LEMMA HandAsks ==
    ASSUME PollInv, Hand
    PROVE  PollInv' /\ PayIsCurrent
<1>0. Sheet(page)
  BY DEF PollInv
<1>1. ASSUME NEW snap, Render([page EXCEPT !.snap = snap])
      PROVE  PollInv' /\ PayIsCurrent
  <2> DEFINE l == [page EXCEPT !.snap = snap]
  <2>1. Sheet(l) /\ l.pay = page.pay /\ Render(l)
    BY <1>0, <1>1 DEF Sheet
  <2> HIDE DEF l
  <2> QED  BY <2>1, RenderAsks
<1>2. ASSUME NEW snap, NEW s, Render([page EXCEPT !.hand = s, !.snap = snap])
      PROVE  PollInv' /\ PayIsCurrent
  <2> DEFINE l == [page EXCEPT !.hand = s, !.snap = snap]
  <2>1. Sheet(l) /\ l.pay = page.pay /\ Render(l)
    BY <1>0, <1>2 DEF Sheet
  <2> HIDE DEF l
  <2> QED  BY <2>1, RenderAsks
<1>3. ASSUME NEW s, NEW b, NEW c,
             Render([page EXCEPT !.hand = s, !.confirmed = b, !.open = c])
      PROVE  PollInv' /\ PayIsCurrent
  <2> DEFINE l == [page EXCEPT !.hand = s, !.confirmed = b, !.open = c]
  <2>1. Sheet(l) /\ l.pay = page.pay /\ Render(l)
    BY <1>0, <1>3 DEF Sheet
  <2> HIDE DEF l
  <2> QED  BY <2>1, RenderAsks
<1>4. ASSUME NEW b, Render([page EXCEPT !.confirmed = b])
      PROVE  PollInv' /\ PayIsCurrent
  <2> DEFINE l == [page EXCEPT !.confirmed = b]
  <2>1. Sheet(l) /\ l.pay = page.pay /\ Render(l)
    BY <1>0, <1>4 DEF Sheet
  <2> HIDE DEF l
  <2> QED  BY <2>1, RenderAsks
<1>5. ASSUME NEW b, Render([page EXCEPT !.open = b])
      PROVE  PollInv' /\ PayIsCurrent
  <2> DEFINE l == [page EXCEPT !.open = b]
  <2>1. Sheet(l) /\ l.pay = page.pay /\ Render(l)
    BY <1>0, <1>5 DEF Sheet
  <2> HIDE DEF l
  <2> QED  BY <2>1, RenderAsks
<1>6. CASE Say
  BY <1>1, <1>6 DEF Say
<1>7. CASE \E s \in Skus : Choose(s)
  BY <1>2, <1>3, <1>7 DEF Choose
<1>8. CASE ChangeChoice
  BY <1>3, <1>8 DEF ChangeChoice
<1>9. CASE Confirm
  BY <1>4, <1>9 DEF Confirm
<1>10. CASE ReviewBill \/ CloseBill
  BY <1>5, <1>10 DEF ReviewBill, CloseBill
<1>11. CASE Press
  <2> DEFINE hold == [n |-> pen.n + 1, card |-> Chosen(page),
                      total |-> Total(page)]
             l == [page EXCEPT !.held = TRUE, !.press = hold]
  <2>1. page' = l /\ asks' = asks
    BY <1>11 DEF Press
  <2> HIDE DEF hold
  <2>2. Sheet(l) /\ l.pay = page.pay /\ l.snap = page.snap /\ l.place = page.place
    BY <1>0 DEF Sheet
  <2> HIDE DEF l
  <2> QED  BY <2>1, <2>2, AsksStay
<1>12. CASE Abort
  <2> DEFINE l == [page EXCEPT !.press = NoHold, !.held = FALSE]
  <2>1. page' = l /\ asks' = asks
    BY <1>12 DEF Abort
  <2>2. Sheet(l) /\ l.pay = page.pay /\ l.snap = page.snap /\ l.place = page.place
    BY <1>0 DEF Sheet
  <2> HIDE DEF l
  <2> QED  BY <2>1, <2>2, AsksStay
<1>13. CASE Complete
  <2> DEFINE held0 == page.held
             l == [page EXCEPT !.press = NoHold, !.held = FALSE, !.busy = held0]
  <2>1. page' = l /\ asks' = asks
    BY <1>13 DEF Complete
  <2> HIDE DEF held0
  <2>2. Sheet(l) /\ l.pay = page.pay /\ l.snap = page.snap /\ l.place = page.place
    BY <1>0 DEF Sheet
  <2> HIDE DEF l
  <2> QED  BY <2>1, <2>2, AsksStay
<1>14. CASE Nudge
  <2>1. page' = page /\ Restart(Question(page))
    BY <1>14 DEF Nudge
  <2>2. RoundsAreCurrent'
    BY <2>1, RestartAsks DEF PollInv, RoundsAreCurrent
  <2> QED  BY <1>0, <2>1, <2>2 DEF PollInv, PayIsCurrent, Sheet
<1> QED  BY <1>6, <1>7, <1>8, <1>9, <1>10, <1>11, <1>12, <1>13, <1>14 DEF Hand

\* What the page receives.
LEMMA PageAsks ==
    ASSUME PollInv, PageStep
    PROVE  PollInv' /\ PayIsCurrent
<1>0. Sheet(page)
  BY DEF PollInv
<1>1. CASE Receive
  <2> DEFINE snap == Fold(page.snap, Head(wire))
             l == [page EXCEPT !.snap = snap]
  <2>1. Render(l)
    BY <1>1 DEF Receive
  <2> HIDE DEF snap
  <2>2. Sheet(l) /\ l.pay = page.pay
    BY <1>0 DEF Sheet
  <2> HIDE DEF l
  <2> QED  BY <2>1, <2>2, RenderAsks
<1>2. CASE Reload
  <2> DEFINE b == Mounted(kept)
  <2>1. page' = CardMounts(b) /\ Restart(Question(CardMounts(b)))
    BY <1>2 DEF Reload
  <2>2. Sheet(b) /\ b.pay.txn = 0
    BY DEF Mounted, Sheet
  <2> HIDE DEF b
  <2>3. Sheet(page') /\ page'.pay.txn = 0
    BY <2>1, <2>2, CardMountsKeep
  <2>4. RoundsAreCurrent'
    BY <2>1, RestartAsks DEF PollInv, RoundsAreCurrent
  <2> QED  BY <2>3, <2>4 DEF PollInv, PayIsCurrent
<1>3. CASE HoldAnswered
  <2> DEFINE snap == [page.snap EXCEPT !.awaiting = FALSE]
             penned == page.penned \/ page.busy
             l == [page EXCEPT !.snap = snap, !.signed = TRUE, !.busy = FALSE, !.penned = penned]
  <2>1. Render([page EXCEPT !.snap.awaiting = FALSE, !.signed = TRUE,
                                !.busy = FALSE, !.penned = @ \/ page.busy])
        \/ (page' = page /\ asks' = asks)
    BY <1>3 DEF HoldAnswered, screen
  <2>2. Render(l) \/ (page' = page /\ asks' = asks)
    BY <2>1
  <2> HIDE DEF snap, penned
  <2>3. Sheet(l) /\ l.pay = page.pay
    BY <1>0 DEF Sheet
  <2> HIDE DEF l
  <2>4. CASE page' = page /\ asks' = asks
    <3>1. Sheet(page') /\ page'.pay = page.pay /\ page'.snap = page.snap /\ page'.place = page.place
      BY <1>0, <2>4 DEF Sheet
    <3> QED  BY <2>4, <3>1, AsksStay
  <2> QED  BY <2>2, <2>3, <2>4, RenderAsks
<1>4. CASE HoldFails
  <2> DEFINE l == [page EXCEPT !.busy = FALSE]
  <2>1. page' = l /\ asks' = asks
    BY <1>4 DEF HoldFails
  <2>2. Sheet(l) /\ l.pay = page.pay /\ l.snap = page.snap /\ l.place = page.place
    BY <1>0 DEF Sheet
  <2> HIDE DEF l
  <2> QED  BY <2>1, <2>2, AsksStay
<1>5. CASE AskAgain
  <2>1. page' = page /\ asks' = asks \cup {[txn |-> Question(page), live |-> TRUE]}
    BY <1>5 DEF AskAgain
  <2>2. RoundsAreCurrent'
    BY <2>1 DEF PollInv, RoundsAreCurrent, Asking
  <2> QED  BY <1>0, <2>1, <2>2 DEF PollInv, PayIsCurrent, Sheet
<1>6. ASSUME NEW a \in asks, AskFails(a)
      PROVE  PollInv' /\ PayIsCurrent
  <2>1. page' = page /\ asks' \subseteq asks
    BY <1>6 DEF AskFails
  <2> QED  BY <1>0, <2>1 DEF PollInv, RoundsAreCurrent, Asking, PayIsCurrent, Sheet
<1>7. ASSUME NEW a \in asks, Answer(a)
      PROVE  PollInv' /\ PayIsCurrent
  <2> DEFINE pay == [txn |-> a.txn, is |-> txns[a.txn]]
             l == [page EXCEPT !.pay = pay]
  <2>1. asks' \subseteq asks /\ (page' = page \/ (a.live /\ page' = l))
    BY <1>7 DEF Answer
  <2>2. pay.txn = a.txn
    OBVIOUS
  <2> HIDE DEF pay
  <2>3. Sheet(l) /\ l.pay = pay /\ l.snap = page.snap /\ l.place = page.place
    BY <1>0 DEF Sheet
  <2> HIDE DEF l
  <2>4. Sheet(page') /\ page'.snap = page.snap /\ page'.place = page.place
    BY <1>0, <2>1, <2>3 DEF Sheet
  <2>5. Question(page') = Question(page)
    BY <2>4 DEF Question
  <2>6. RoundsAreCurrent'
    BY <2>1, <2>5 DEF PollInv, RoundsAreCurrent, Asking
  <2>7. PayIsCurrent
    <3>1. CASE a.live /\ page' = l
      <4>1. page'.pay.txn = Question(page)
        BY <2>2, <2>3, <3>1 DEF PollInv, RoundsAreCurrent
      <4> QED  BY <2>4, <4>1 DEF PayIsCurrent, Question
    <3> QED  BY <2>1, <3>1 DEF PayIsCurrent
  <2> QED  BY <2>4, <2>6, <2>7 DEF PollInv
<1> QED  BY <1>1, <1>2, <1>3, <1>4, <1>5, <1>6, <1>7 DEF PageStep

\* The engine says nothing to the panel itself.
LEMMA PollSteps ==
    ASSUME PollInv, [BillNext]_billVars
    PROVE  PollInv' /\ PayIsCurrent
<1>1. CASE page' = page /\ asks' = asks
  BY <1>1 DEF PollInv, RoundsAreCurrent, Asking, PayIsCurrent, Sheet
<1>2. CASE HostStep
  <2>1. page' = page /\ asks' = asks
    BY <1>2 DEF HostStep, Arrive, BeginsSentence,
       BeginsTap, Answers, Fails, Announces,
       Settles, Proposes, TakeHold, Pays,
       PaymentFails, screen
  <2> QED  BY <1>1, <2>1
<1>3. CASE UNCHANGED billVars
  <2>1. page' = page /\ asks' = asks
    BY <1>3 DEF billVars, screen
  <2> QED  BY <1>1, <2>1
<1> QED  BY <1>2, <1>3, HandAsks, PageAsks DEF BillNext

\* No late answer of the payment poll speaks of a transaction the bill has left:
\* what the panel is told is about the one the page now shows, through nudges,
\* remounts, reloads and failed rounds, whether turns overlap or not
\* (use-payment-state.ts).
THEOREM PanelIsCurrent == BillSpec => AnswersAreCurrent
<1>1. BillInit => PollInv
  <2> SUFFICES ASSUME BillInit PROVE PollInv
    OBVIOUS
  <2>1. Sheet(page) /\ asks = {}
    BY DEF BillInit, Mounted, Sheet
  <2> QED  BY <2>1 DEF PollInv, RoundsAreCurrent
<1>2. PollInv /\ [BillNext]_billVars => PollInv'
  BY PollSteps
<1>3. PollInv /\ [BillNext]_billVars =>
        [page'.pay # page.pay => page'.pay.txn \in {0, page'.snap.txn}]_billVars
  BY PollSteps DEF PayIsCurrent
<1> QED  BY <1>1, <1>2, <1>3, PTL DEF BillSpec, AnswersAreCurrent
=============================================================================
