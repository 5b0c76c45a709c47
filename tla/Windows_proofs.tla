--------------------------- MODULE Windows_proofs ---------------------------
(***************************************************************************)
(* Theorems about the shopper's windows: the registry that admits them     *)
(* (Sandboxes) and, of one that is open, whose hands are on it (Wheel).    *)
(* The two share no state; each half has an invariant of its own.          *)
(*                                                                         *)
(* The registry, for any number of windows, places in the line, containers *)
(* and calls: the machine never holds more windows than it can, and no     *)
(* window stands free while someone waits for one. Both depend on when a   *)
(* slot is free: a deletion gives its slot back before its container has   *)
(* ended, and looks at the line after. SlotsInv counts the slots taken     *)
(* together with the deletions under way.                                  *)
(*                                                                         *)
(* The wheel, for any windows, conversations, tool calls and readings, and *)
(* whatever a call that its errand's clock cut off still does to the page. *)
(* IInv says of a window whose hands are on it, of a suspended call what   *)
(* it may still touch (Good), and of a turn what it has left to say        *)
(* (Talking); of a parked checkout that every turn that does not touch     *)
(* the record leaves the one it stands on (Parked).                        *)
(***************************************************************************)
EXTENDS Sandboxes, Wheel, FiniteSetTheorems, SequenceTheorems, TLAPS

(***************************************************************************)
(* The registry of the windows.                                            *)
(***************************************************************************)
\* Windows are numbered as they are admitted, and tickets hold such numbers.
Numbered ==
    /\ minted \in Nat
    /\ open \subseteq 1..minted
    /\ queue \in Seq(Nat)

\* A call on its way is a record of its kind, window and step; whatever is not
\* an open only closes, and a window under deletion has left the registry for
\* good: no later one has its number.
Shaped(t) ==
    /\ t \in [kind: {t.kind}, w: {t.w}, c: {t.c}, step: {t.step}, n: {t.n}]
    /\ t.kind # "open" => t.step = "closing"
Leaving ==
    \A t \in tasks :
        /\ Shaped(t)
        /\ t.kind = "delete" => t.w \in 1..minted /\ t.w \notin open

Deletes == {t \in tasks : t.kind = "delete"}
Waiting == Ungranted(queue) # {}

\* NoSlotIdleWhileSomeoneWaits, in these words.
NoneIdle == Waiting => Cardinality(open) + Cardinality(Deletes) >= Cap

SlotsInv ==
    /\ Numbered
    /\ IsFiniteSet(tasks) /\ Leaving
    /\ OpenWithinCap
    /\ NoneIdle

\* A set of windows admitted is finite.
LEMMA OpenIsFinite ==
    ASSUME Numbered
    PROVE  IsFiniteSet(open) /\ Cardinality(open) \in Nat
<1>1. IsFiniteSet(1..minted)
  BY FS_Interval DEF Numbered
<1>2. IsFiniteSet(open)
  BY <1>1, FS_Subset DEF Numbered
<1> QED  BY <1>2, FS_CardinalityType

\* What the deletions under way number, when a call begins or ends.
LEMMA DeletesCount ==
    ASSUME IsFiniteSet(tasks)
    PROVE  IsFiniteSet(Deletes) /\ Cardinality(Deletes) \in Nat
<1>1. IsFiniteSet(Deletes)
  BY FS_Subset DEF Deletes
<1> QED  BY <1>1, FS_CardinalityType

\* A step that admits nobody, closes nothing and neither starts nor ends a
\* deletion leaves the registry as it found it.
LEMMA RegistryRests ==
    ASSUME SlotsInv, UNCHANGED <<open, queue, minted>>,
           IsFiniteSet(tasks'), Leaving', Deletes' = Deletes
    PROVE  SlotsInv'
<1>1. Numbered'
  BY DEF SlotsInv, Numbered
<1>2. OpenWithinCap'
  BY DEF SlotsInv, OpenWithinCap
<1>3. Waiting' = Waiting
  BY DEF Waiting, Ungranted
<1>4. NoneIdle'
  BY <1>3 DEF SlotsInv, NoneIdle
<1> QED  BY <1>1, <1>2, <1>4 DEF SlotsInv

\* Steps that leave the calls alone too.
LEMMA SlotsRest ==
    ASSUME SlotsInv, UNCHANGED <<open, queue, minted, tasks>>
    PROVE  SlotsInv'
<1>1. Leaving' /\ IsFiniteSet(tasks') /\ Deletes' = Deletes
  BY DEF SlotsInv, Leaving, Deletes
<1> QED  BY <1>1, RegistryRests

\* A ticket claimed is a ticket less, and nobody new waits.
LEMMA ClaimKeepsLine ==
    ASSUME NEW q \in Seq(Nat), NEW i \in DOMAIN q
    PROVE  /\ RemoveAt(q, i) \in Seq(Nat)
           /\ \A j \in DOMAIN RemoveAt(q, i) : \E k \in DOMAIN q : RemoveAt(q, i)[j] = q[k]
<1> DEFINE a == SubSeq(q, 1, i - 1)
           b == SubSeq(q, i + 1, Len(q))
<1>1. DOMAIN q = 1..Len(q) /\ Len(q) \in Nat /\ i \in 1..Len(q) /\ \A j \in 1..Len(q) : q[j] \in Nat
  OBVIOUS
<1>2. RemoveAt(q, i) = a \o b
  BY DEF RemoveAt
<1>3. /\ a \in Seq(Nat) /\ Len(a) = i - 1
      /\ \A j \in 1..(i - 1) : a[j] = q[j]
  <2>1. 1 \in Int /\ i - 1 \in Int /\ \A j \in 1..(i - 1) : q[j] \in Nat
    BY <1>1
  <2>2. /\ a \in Seq(Nat) /\ Len(a) = IF 1 <= i - 1 THEN (i - 1) - 1 + 1 ELSE 0
        /\ \A j \in 1..((i - 1) - 1 + 1) : a[j] = q[1 + j - 1]
    BY <2>1, SubSeqProperties
  <2> QED  BY <1>1, <2>2
<1>4. /\ b \in Seq(Nat) /\ Len(b) = Len(q) - i
      /\ \A j \in 1..(Len(q) - i) : b[j] = q[i + j]
  <2>1. i + 1 \in Int /\ Len(q) \in Int /\ \A j \in (i + 1)..Len(q) : q[j] \in Nat
    BY <1>1
  <2>2. /\ b \in Seq(Nat) /\ Len(b) = IF i + 1 <= Len(q) THEN Len(q) - (i + 1) + 1 ELSE 0
        /\ \A j \in 1..(Len(q) - (i + 1) + 1) : b[j] = q[(i + 1) + j - 1]
    BY <2>1, SubSeqProperties
  <2> HIDE DEF b
  <2>3. Len(q) - (i + 1) + 1 = Len(q) - i
    BY <1>1
  <2>4. \A j \in 1..(Len(q) - i) : (i + 1) + j - 1 = i + j
    BY <1>1
  <2>5. \A j \in 1..(Len(q) - i) : b[j] = q[i + j]
    BY <2>2, <2>3, <2>4
  <2>6. Len(b) = Len(q) - i
    BY <1>1, <2>2, <2>3
  <2> QED  BY <2>2, <2>5, <2>6
<1> HIDE DEF a, b
<1>5. /\ a \o b \in Seq(Nat) /\ DOMAIN (a \o b) = 1..(Len(q) - 1)
      /\ \A j \in 1..(Len(q) - 1) : (a \o b)[j] = IF j <= i - 1 THEN a[j] ELSE b[j - (i - 1)]
  <2>1. /\ a \o b \in Seq(Nat) /\ Len(a \o b) = Len(a) + Len(b)
        /\ \A j \in 1..(Len(a) + Len(b)) :
              (a \o b)[j] = IF j <= Len(a) THEN a[j] ELSE b[j - Len(a)]
    BY <1>3, <1>4, ConcatProperties
  <2>2. Len(a) + Len(b) = Len(q) - 1 /\ Len(a) = i - 1
    BY <1>1, <1>3, <1>4
  <2>3. DOMAIN (a \o b) = 1..Len(a \o b)
    BY <2>1
  <2> QED  BY <2>1, <2>2, <2>3
<1>6. ASSUME NEW j \in 1..(Len(q) - 1)
      PROVE  \E k \in DOMAIN q : (a \o b)[j] = q[k]
  <2>1. CASE j <= i - 1
    <3>1. (a \o b)[j] = a[j]
      BY <1>5, <2>1
    <3>2. j \in DOMAIN q /\ j \in 1..(i - 1)
      BY <1>1, <2>1
    <3> QED  BY <1>3, <3>1, <3>2
  <2>2. CASE ~(j <= i - 1)
    <3>1. (a \o b)[j] = b[j - (i - 1)]
      BY <1>1, <1>5, <2>2
    <3>2. j - (i - 1) \in 1..(Len(q) - i)
      BY <1>1, <2>2
    <3>3. i + (j - (i - 1)) \in DOMAIN q
      BY <1>1, <2>2
    <3>4. b[j - (i - 1)] = q[i + (j - (i - 1))]
      BY <1>4, <3>2
    <3> QED  BY <3>1, <3>3, <3>4
  <2> QED  BY <1>1, <2>1, <2>2
<1> QED  BY <1>2, <1>5, <1>6

\* A ticket granted stays a ticket.
LEMMA GrantKeepsLine ==
    ASSUME NEW q \in Seq(Nat), NEW i, NEW n \in Nat
    PROVE  [q EXCEPT ![i] = n] \in Seq(Nat)
<1>1. CASE i \in DOMAIN q
  BY <1>1, ExceptSeq
<1>2. CASE i \notin DOMAIN q
  <2>1. q = [j \in DOMAIN q |-> q[j]]
    <3>1. q \in [1..Len(q) -> Nat]
      OBVIOUS
    <3> QED  BY <3>1, Zenon
  <2>2. [q EXCEPT ![i] = n] = [j \in DOMAIN q |-> q[j]]
    BY <1>2, Zenon
  <2> QED  BY <2>1, <2>2
<1> QED  BY <1>1, <1>2

\* A window handed its slot: the one that closes leaves no slot idle, and the
\* number it gives is nobody's.
LEMMA PromoteFills ==
    ASSUME SandboxesData, Numbered, NEW o \in SUBSET open,
           Cardinality(o) <= Cap, Promote(o)
    PROVE  /\ Numbered'
           /\ minted <= minted' /\ \A w \in open' : w \in o \/ w = minted + 1
           /\ Cardinality(open') <= Cap
           /\ Waiting' => Cardinality(open') = Cap \/ Cardinality(open') = Cardinality(o) + 1
<1>0. /\ minted \in Nat /\ open \subseteq 1..minted /\ queue \in Seq(Nat) /\ Cap \in Nat
      /\ IsFiniteSet(o) /\ Cardinality(o) \in Nat
  BY OpenIsFinite, FS_Subset, FS_CardinalityType DEF Numbered, SandboxesData
<1>1. CASE Ungranted(queue) # {} /\ Cardinality(o) < Cap
  <2> DEFINE i == CHOOSE i \in Ungranted(queue) :
                      \A j \in Ungranted(queue) : i <= j
  <2>1. /\ minted' = minted + 1 /\ open' = o \cup {minted + 1}
        /\ queue' = [queue EXCEPT ![i] = minted + 1]
    BY <1>1 DEF Promote
  <2> HIDE DEF i
  <2>2. queue' \in Seq(Nat)
    <3>1. minted + 1 \in Nat
      BY <1>0
    <3>2. [queue EXCEPT ![i] = minted + 1] \in Seq(Nat)
      BY <1>0, <3>1, GrantKeepsLine
    <3> QED  BY <2>1, <3>2
  <2>3. minted + 1 \notin o
    BY <1>0
  <2>4. Cardinality(open') = Cardinality(o) + 1
    BY <1>0, <2>1, <2>3, FS_AddElement
  <2>5. open' \subseteq 1..minted'
    BY <1>0, <2>1
  <2> QED  BY <1>0, <1>1, <2>1, <2>2, <2>4, <2>5 DEF Numbered
<1>2. CASE ~(Ungranted(queue) # {} /\ Cardinality(o) < Cap)
  <2>1. open' = o /\ UNCHANGED <<queue, minted>>
    BY <1>2 DEF Promote
  <2>2. Waiting' => Cardinality(o) = Cap
    BY <1>0, <1>2, <2>1 DEF Waiting, Ungranted
  <2> QED  BY <1>0, <2>1, <2>2 DEF Numbered
<1> QED  BY <1>1, <1>2

\* A call that is no deletion may come, go and change its step.
LEMMA TasksMove ==
    ASSUME SlotsInv, UNCHANGED <<open, queue, minted>>,
           NEW old \in SUBSET tasks, NEW new, IsFiniteSet(new),
           \A t \in old : t.kind # "delete",
           \A t \in new : t.kind # "delete" /\ Shaped(t),
           tasks' = (tasks \ old) \cup new
    PROVE  SlotsInv'
<1>1. IsFiniteSet(tasks')
  <2>1. IsFiniteSet(tasks \ old)
    BY FS_Difference DEF SlotsInv
  <2> QED  BY <2>1, FS_Union
<1>2. Leaving'
  BY DEF SlotsInv, Leaving, Shaped
<1>3. Deletes' = Deletes
  BY DEF Deletes
<1> QED  BY <1>1, <1>2, <1>3, RegistryRests

\* A call of any kind that ends while the registry stays.
LEMMA CallEnds ==
    ASSUME SlotsInv, UNCHANGED <<open, queue, minted>>,
           NEW t \in tasks, t.kind # "delete", tasks' = tasks \ {t}
    PROVE  SlotsInv'
<1>1. IsFiniteSet({}) /\ tasks' = (tasks \ {t}) \cup {} /\ {t} \in SUBSET tasks
  BY FS_EmptySet
<1> QED  BY <1>1, TasksMove

\* An open keeps its shape from one step to the next.
LEMMA OnwardIsShaped ==
    ASSUME NEW t, Shaped(t), t.kind = "open", NEW c, NEW step
    PROVE  LET l == [t EXCEPT !.c = c, !.step = step]
               m == [t EXCEPT !.step = step, !.c = c]
               u == [t EXCEPT !.step = step]
           IN  /\ Shaped(l) /\ l.kind = "open"
               /\ Shaped(m) /\ m.kind = "open"
               /\ Shaped(u) /\ u.kind = "open"
<1> DEFINE l == [t EXCEPT !.c = c, !.step = step]
           m == [t EXCEPT !.step = step, !.c = c]
           u == [t EXCEPT !.step = step]
           Onward(d) == [kind: {"open"}, w: {t.w}, c: {d}, step: {step}, n: {t.n}]
<1>1. l \in Onward(c) /\ m \in Onward(c) /\ u \in Onward(t.c)
  BY DEF Shaped
<1> HIDE DEF l, m, u
<1>2. \A d : \A x \in Onward(d) :
          x.kind = "open" /\ x.w = t.w /\ x.c = d /\ x.step = step /\ x.n = t.n
  OBVIOUS
<1>3. \A d : \A x \in Onward(d) : Shaped(x) /\ x.kind = "open"
  BY <1>2 DEF Shaped
<1> QED  BY <1>1, <1>3 DEF l, m, u

\* A call that goes on to its next step.
LEMMA CallGoesOn ==
    ASSUME SlotsInv, UNCHANGED <<open, queue, minted>>,
           NEW t \in tasks, NEW l, Shaped(l), l.kind = "open", t.kind = "open",
           tasks' = (tasks \ {t}) \cup {l}
    PROVE  SlotsInv'
<1>1. IsFiniteSet({l}) /\ {t} \in SUBSET tasks
  BY FS_Singleton
<1> QED  BY <1>1, TasksMove

\* A call that begins, without touching the registry.
LEMMA CallBegins ==
    ASSUME SlotsInv, UNCHANGED <<open, queue, minted>>, NEW t,
           t.kind # "delete", Shaped(t), tasks' = tasks \cup {t}
    PROVE  SlotsInv'
<1>1. IsFiniteSet({t}) /\ tasks' = (tasks \ {}) \cup {t} /\ {} \in SUBSET tasks
  BY FS_Singleton
<1> QED  BY <1>1, TasksMove

-----------------------------------------------------------------------------
\* A request for a window: a slot below the cap, or a place in a line that is
\* only joined when every slot is taken.
LEMMA StartSlots ==
    ASSUME SandboxesData, SlotsInv, Start
    PROVE  SlotsInv'
<1>0. /\ Numbered /\ IsFiniteSet(open) /\ Cardinality(open) \in Nat
      /\ IsFiniteSet(Deletes) /\ Cardinality(Deletes) \in Nat /\ Cap \in Nat
      /\ Cardinality(open) = Cardinality(open)
  BY OpenIsFinite, DeletesCount DEF SlotsInv, SandboxesData
<1>1. UNCHANGED tasks /\ Deletes' = Deletes /\ IsFiniteSet(tasks')
  BY DEF Start, Deletes, SlotsInv
<1>2. CASE /\ Cardinality(open) < Cap /\ minted' = minted + 1
           /\ open' = open \cup {minted + 1} /\ UNCHANGED queue
  <2>1. minted + 1 \notin open /\ minted + 1 \in Nat
    BY <1>0 DEF Numbered
  <2>2. Cardinality(open') = Cardinality(open) + 1
    BY <1>0, <1>2, <2>1, FS_AddElement
  <2>3. Numbered'
    BY <1>0, <1>2 DEF Numbered
  <2>4. Leaving'
    BY <1>0, <1>1, <1>2 DEF SlotsInv, Leaving, Numbered
  <2>5. Waiting' = Waiting
    BY <1>2 DEF Waiting, Ungranted
  <2>6. OpenWithinCap' /\ NoneIdle'
    BY <1>0, <1>1, <1>2, <2>2, <2>5 DEF SlotsInv, OpenWithinCap, NoneIdle
  <2> QED  BY <1>1, <2>3, <2>4, <2>6 DEF SlotsInv
<1>3. CASE /\ Cardinality(open) >= Cap /\ queue' = Append(queue, Nothing)
           /\ UNCHANGED <<open, minted>>
  <2>1. Numbered'
    BY <1>0, <1>3 DEF Numbered, Nothing
  <2>2. Leaving'
    BY <1>1, <1>3 DEF SlotsInv, Leaving
  <2>3. OpenWithinCap' /\ NoneIdle'
    BY <1>0, <1>1, <1>3 DEF SlotsInv, OpenWithinCap, NoneIdle
  <2> QED  BY <1>1, <2>1, <2>2, <2>3 DEF SlotsInv
<1> QED  BY <1>0, <1>2, <1>3 DEF Start

\* A ticket picked up.
LEMMA ClaimSlots ==
    ASSUME SlotsInv, NEW i \in DOMAIN queue, Claim(i)
    PROVE  SlotsInv'
<1>1. /\ queue' = RemoveAt(queue, i) /\ UNCHANGED <<open, minted, tasks>>
      /\ queue \in Seq(Nat)
  BY DEF SlotsInv, Numbered, Claim
<1>2. queue' \in Seq(Nat) /\ \A j \in DOMAIN queue' : \E k \in DOMAIN queue : queue'[j] = queue[k]
  BY <1>1, ClaimKeepsLine
<1>3. Waiting' => Waiting
  BY <1>2 DEF Waiting, Ungranted
<1>4. Numbered' /\ Leaving' /\ IsFiniteSet(tasks') /\ Deletes' = Deletes
  BY <1>1, <1>2 DEF SlotsInv, Numbered, Leaving, Deletes
<1>5. OpenWithinCap' /\ NoneIdle'
  BY <1>1, <1>3, <1>4 DEF SlotsInv, OpenWithinCap, NoneIdle
<1> QED  BY <1>4, <1>5 DEF SlotsInv

\* A window let go: its slot is free while its container ends, and the call
\* that ends it is one more that will look at the line.
LEMMA DeleteSlots ==
    ASSUME SandboxesData, SlotsInv, NEW w, Delete(w)
    PROVE  SlotsInv'
<1> DEFINE t == Closing("delete", w)
<1>0. /\ Numbered /\ IsFiniteSet(open) /\ Cardinality(open) \in Nat
      /\ IsFiniteSet(Deletes) /\ Cardinality(Deletes) \in Nat /\ Cap \in Nat
  BY OpenIsFinite, DeletesCount DEF SlotsInv, SandboxesData
<1>1. /\ w \in open /\ open' = open \ {w} /\ tasks' = tasks \cup {t}
      /\ UNCHANGED <<queue, minted>>
  BY DEF Delete, Claimed, Begins
<1>2. t.kind = "delete" /\ t.w = w /\ Shaped(t)
  BY DEF Closing, Shaped
<1> HIDE DEF t
<1>3. t \notin Deletes /\ Deletes' = Deletes \cup {t}
  BY <1>1, <1>2 DEF SlotsInv, Leaving, Deletes
<1>4. Cardinality(Deletes') = Cardinality(Deletes) + 1
  BY <1>0, <1>3, FS_AddElement
<1>5. Cardinality(open') = Cardinality(open) - 1
  BY <1>0, <1>1, FS_RemoveElement
<1>6. IsFiniteSet(tasks')
  BY <1>1, FS_AddElement DEF SlotsInv
<1>7. Numbered'
  BY <1>0, <1>1 DEF Numbered
<1>8. Leaving'
  BY <1>0, <1>1, <1>2 DEF SlotsInv, Leaving, Numbered, Shaped
<1>9. Waiting' = Waiting
  BY <1>1 DEF Waiting, Ungranted
<1>10. OpenWithinCap' /\ NoneIdle'
  BY <1>0, <1>4, <1>5, <1>9 DEF SlotsInv, OpenWithinCap, NoneIdle
<1> QED  BY <1>6, <1>7, <1>8, <1>10 DEF SlotsInv

\* The container has ended: the slot it left, if still free, is given away, and
\* a window that nobody drove goes with its slot.
LEMMA ClosedSlots ==
    ASSUME SandboxesData, SlotsInv, NEW t \in tasks, Closed(t)
    PROVE  SlotsInv'
<1>0. /\ Numbered /\ IsFiniteSet(open) /\ Cardinality(open) \in Nat
      /\ IsFiniteSet(Deletes) /\ Cardinality(Deletes) \in Nat /\ Cap \in Nat
      /\ Cardinality(open) <= Cap
      /\ Waiting => Cardinality(open) + Cardinality(Deletes) >= Cap
  BY OpenIsFinite, DeletesCount DEF SlotsInv, SandboxesData, OpenWithinCap, NoneIdle
<1>1. CASE /\ t.kind = "delete" \/ (t.kind = "reap" /\ t.w \in open)
           /\ Promote(open \ {t.w}) /\ tasks' = tasks \ {t}
  <2> DEFINE o == open \ {t.w}
  <2>1. /\ o \in SUBSET open /\ IsFiniteSet(o) /\ Cardinality(o) \in Nat
        /\ Cardinality(o) = IF t.w \in open THEN Cardinality(open) - 1 ELSE Cardinality(open)
    BY <1>0, FS_RemoveElement, FS_CardinalityType
  <2>2. Promote(o) /\ Cardinality(o) <= Cap
    BY <1>0, <1>1, <2>1
  <2> HIDE DEF o
  <2>3. /\ Numbered'
        /\ minted <= minted' /\ \A w \in open' : w \in o \/ w = minted + 1
        /\ Cardinality(open') <= Cap
        /\ Waiting' => Cardinality(open') = Cap \/ Cardinality(open') = Cardinality(o) + 1
    BY <1>0, <2>1, <2>2, PromoteFills
  <2>4. Leaving'
    BY <1>0, <1>1, <2>3 DEF SlotsInv, Leaving, Numbered, o
  <2>5. IsFiniteSet(tasks')
    BY <1>1, FS_RemoveElement DEF SlotsInv
  <2>6. Deletes' = Deletes \ {t}
    BY <1>1 DEF Deletes
  <2>7. Cardinality(Deletes') = IF t.kind = "delete" THEN Cardinality(Deletes) - 1
                                ELSE Cardinality(Deletes)
    <3>1. t \in Deletes <=> t.kind = "delete"
      BY DEF Deletes
    <3> QED  BY <1>0, <2>6, <3>1, FS_RemoveElement
  <2>8. t.kind = "delete" => t.w \notin open
    BY DEF SlotsInv, Leaving
  <2>9. Waiting' => Waiting
    BY <1>0, <1>1 DEF Promote, Waiting, Ungranted
  <2>10. Cardinality(Deletes') \in Nat
    BY <1>0, <2>6, FS_RemoveElement, FS_CardinalityType
  <2>11. Waiting' => Cardinality(open') + Cardinality(Deletes') >= Cap
    <3> SUFFICES ASSUME Waiting'
                 PROVE  Cardinality(open') + Cardinality(Deletes') >= Cap
      OBVIOUS
    <3>1. CASE Cardinality(open') = Cap
      BY <1>0, <2>10, <3>1
    <3>2. CASE Cardinality(open') = Cardinality(o) + 1
      BY <1>0, <1>1, <2>1, <2>7, <2>8, <2>9, <3>2
    <3> QED  BY <2>3, <3>1, <3>2
  <2> QED  BY <2>3, <2>4, <2>5, <2>11 DEF SlotsInv, OpenWithinCap, NoneIdle
<1>2. CASE /\ t.kind = "end" \/ (t.kind = "reap" /\ t.w \notin open)
           /\ UNCHANGED <<open, queue, minted>> /\ tasks' = tasks \ {t}
  BY <1>2, CallEnds
<1>3. CASE /\ t.kind = "open" /\ UNCHANGED <<open, queue, minted>>
           /\ tasks' = (tasks \ {t}) \cup
                 {[t EXCEPT !.c = Nothing, !.step = "claiming"]}
  <2> DEFINE l == [t EXCEPT !.c = Nothing, !.step = "claiming"]
  <2>1. Shaped(l) /\ l.kind = "open"
    BY <1>3, OnwardIsShaped DEF SlotsInv, Leaving
  <2> HIDE DEF l
  <2>2. tasks' = (tasks \ {t}) \cup {l}
    BY <1>3 DEF l
  <2> QED  BY <1>3, <2>1, <2>2, CallGoesOn
<1> QED  BY <1>1, <1>2, <1>3 DEF Closed, registry

\* The last closing of all: nobody waits, and everything open is on its way out.
LEMMA CloseAllSlots ==
    ASSUME SandboxesData, SlotsInv, CloseAll
    PROVE  SlotsInv'
<1>0. Numbered /\ IsFiniteSet(open) /\ Cap \in Nat
  BY OpenIsFinite DEF SlotsInv, SandboxesData
<1>1. /\ queue' = <<>> /\ open' = {} /\ minted' = minted
      /\ tasks' = tasks \cup {Closing("delete", w) : w \in open}
  BY DEF CloseAll
<1> DEFINE f == [w \in open |-> Closing("delete", w)]
           new == {Closing("delete", w) : w \in open}
<1>2. IsFiniteSet(new)
  <2>1. f \in Surjection(open, new)
    BY DEF Surjection
  <2> QED  BY <1>0, <2>1, FS_Surjection
<1>3. \A t \in new : Shaped(t) /\ t.kind = "delete" /\ t.w \in open
  BY DEF Closing, Shaped
<1> HIDE DEF new
<1>4. IsFiniteSet(tasks')
  BY <1>1, <1>2, FS_Union DEF SlotsInv, new
<1>5. Leaving'
  BY <1>0, <1>1, <1>3 DEF SlotsInv, Leaving, Numbered, Shaped, new
<1>6. Numbered'
  BY <1>0, <1>1 DEF Numbered
<1>7. OpenWithinCap'
  BY <1>0, <1>1, FS_EmptySet DEF OpenWithinCap
<1>8. ~Waiting'
  BY <1>1 DEF Waiting, Ungranted
<1> QED  BY <1>4, <1>5, <1>6, <1>7, <1>8 DEF SlotsInv, NoneIdle

\* The calls that begin without leaving the registry: an end, an idle sweep,
\* an open.
LEMMA BeginsSlots ==
    ASSUME SlotsInv, NEW w,
           End(w) \/ SweepIdle(w) \/ Open(w)
    PROVE  SlotsInv'
<1>1. UNCHANGED <<open, queue, minted>>
  BY DEF End, SweepIdle, Open, registry
<1>2. ASSUME NEW kind \in {"end", "reap"}, Begins(Closing(kind, w))
      PROVE  SlotsInv'
  <2>1. Shaped(Closing(kind, w)) /\ Closing(kind, w).kind # "delete"
    BY DEF Closing, Shaped
  <2> QED  BY <1>1, <1>2, <2>1, CallBegins DEF Begins
<1>3. CASE Open(w)
  <2> DEFINE n == CHOOSE n \in 0..MaxTasks : \A t \in Opens(w) : t.n # n
             t == [Closing("open", w) EXCEPT !.n = n]
  <2>1. tasks' = tasks \cup {t}
    BY <1>3 DEF Open, Begins
  <2> HIDE DEF n
  <2>2. t = [kind |-> "open", w |-> w, c |-> held[w], step |-> "closing", n |-> n]
    BY DEF Closing
  <2> HIDE DEF t
  <2>3. Shaped(t) /\ t.kind # "delete"
    BY <2>2 DEF Shaped
  <2> QED  BY <1>1, <2>1, <2>3, CallBegins
<1> QED  BY <1>2, <1>3 DEF End, SweepIdle

\* What a suspended call does when its await returns.
LEMMA ResumesSlots ==
    ASSUME SandboxesData, SlotsInv, NEW t \in tasks, Resumes(t)
    PROVE  SlotsInv'
<1>1. CASE Closed(t)
  BY <1>1, ClosedSlots
<1>2. CASE PoolServes(t) \/ ColdStarts(t)
  <2>1. /\ t.step # "closing" /\ UNCHANGED <<open, queue, minted>>
        /\ \/ tasks' = (tasks \ {t}) \cup {[t EXCEPT !.step = "starting"]}
           \/ \E c : tasks' = (tasks \ {t}) \cup {[t EXCEPT !.step = "launched", !.c = c]}
    BY <1>2 DEF PoolServes, ColdStarts, registry
  <2>2. t.kind = "open" /\ Shaped(t)
    BY <2>1 DEF SlotsInv, Leaving, Shaped
  <2>3. CASE tasks' = (tasks \ {t}) \cup {[t EXCEPT !.step = "starting"]}
    <3> DEFINE l == [t EXCEPT !.step = "starting"]
    <3>1. Shaped(l) /\ l.kind = "open"
      BY <2>2, OnwardIsShaped
    <3> HIDE DEF l
    <3>2. tasks' = (tasks \ {t}) \cup {l}
      BY <2>3 DEF l
    <3> QED  BY <2>1, <2>2, <3>1, <3>2, CallGoesOn
  <2>4. ASSUME NEW c, tasks' = (tasks \ {t}) \cup {[t EXCEPT !.step = "launched", !.c = c]}
        PROVE  SlotsInv'
    <3> DEFINE l == [t EXCEPT !.step = "launched", !.c = c]
    <3>1. Shaped(l) /\ l.kind = "open"
      BY <2>2, OnwardIsShaped
    <3> HIDE DEF l
    <3>2. tasks' = (tasks \ {t}) \cup {l}
      BY <2>4 DEF l
    <3> QED  BY <2>1, <2>2, <3>1, <3>2, CallGoesOn
  <2> QED  BY <2>1, <2>3, <2>4
<1>3. CASE ColdStartFails(t) \/ Launched(t)
  <2>1. /\ t.step # "closing" /\ UNCHANGED <<open, queue, minted>>
        /\ tasks' = tasks \ {t}
    BY <1>3 DEF ColdStartFails, Launched, registry
  <2>2. t.kind # "delete"
    BY <2>1 DEF SlotsInv, Leaving, Shaped
  <2> QED  BY <2>1, <2>2, CallEnds
<1> QED  BY <1>1, <1>2, <1>3 DEF Resumes

\* Every step keeps the slots.
LEMMA SlotsSteps ==
    ASSUME SandboxesData, SlotsInv, [SandboxesNext]_sandboxVars
    PROVE  SlotsInv'
<1>1. CASE Start
  BY <1>1, StartSlots
<1>2. CASE \E i \in DOMAIN queue : Claim(i)
  BY <1>2, ClaimSlots
<1>3. CASE \E w \in Windows : Delete(w) \/ End(w)
                                       \/ SweepIdle(w) \/ Open(w)
  BY <1>3, DeleteSlots, BeginsSlots
<1>4. CASE \E t \in tasks : Resumes(t)
  BY <1>4, ResumesSlots
<1>5. CASE \/ PoolWorks \/ SweepPool
           \/ \E c \in Containers : Spoils(c)
           \/ Connect \/ HangUp \/ StopAccepting \/ AllGone
           \/ Drain \/ EmptyPool \/ Stop
           \/ UNCHANGED sandboxVars
  <2>1. UNCHANGED <<open, queue, minted, tasks>>
    BY <1>5 DEF PoolWorks, PoolLaunched, PoolLaunchFails,
          Retired, SweepPool, Spoils, Connect, HangUp, StopAccepting,
          AllGone, Drain, EmptyPool, Stop, sandboxVars, registry
  <2> QED  BY <2>1, SlotsRest
<1>6. CASE CloseAll
  BY <1>6, CloseAllSlots
<1> QED  BY <1>1, <1>2, <1>3, <1>4, <1>5, <1>6 DEF SandboxesNext, ShutsDown

\* A host that starts holds nothing.
LEMMA SlotsStart ==
    ASSUME SandboxesData, SandboxesInit
    PROVE  SlotsInv
<1>1. open = {} /\ queue = <<>> /\ minted = 0 /\ tasks = {} /\ Cap \in Nat
  BY DEF SandboxesInit, SandboxesData
<1>2. Numbered /\ Leaving
  BY <1>1 DEF Numbered, Leaving
<1>3. IsFiniteSet(tasks) /\ OpenWithinCap
  BY <1>1, FS_EmptySet DEF OpenWithinCap
<1>4. ~Waiting
  BY <1>1 DEF Waiting, Ungranted
<1> QED  BY <1>2, <1>3, <1>4 DEF SlotsInv, NoneIdle

\* The invariant of every reachable state of the windows.
LEMMA SlotsStand ==
    SandboxesSpec => []SlotsInv
<1>1. SandboxesInit => SlotsInv
  BY SlotsStart, SandboxesAssumption
<1>2. SlotsInv /\ [SandboxesNext]_sandboxVars => SlotsInv'
  BY SlotsSteps, SandboxesAssumption
<1> QED  BY <1>1, <1>2, PTL DEF SandboxesSpec

\* For any cap, line and number of windows the registry holds no more than the
\* machine does, although a slot is given away only when its container has
\* ended and may be taken meanwhile (browser-registry.ts).
THEOREM OpensWithinCap ==
    SandboxesSpec => []OpenWithinCap
<1>1. SlotsInv => OpenWithinCap
  BY DEF SlotsInv, OpenWithinCap
<1> QED  BY <1>1, SlotsStand, PTL

\* While somebody waits no slot is idle: each is taken, or a deletion on its
\* way will look at the line again (browser-registry.ts promote).
THEOREM NoSlotIdles ==
    SandboxesSpec => []NoSlotIdleWhileSomeoneWaits
<1>1. SlotsInv => NoSlotIdleWhileSomeoneWaits
  BY DEF SlotsInv, NoneIdle, Waiting, Deletes, NoSlotIdleWhileSomeoneWaits
<1> QED  BY <1>1, SlotsStand, PTL

(***************************************************************************)
(* Whose hands are on a window.                                            *)
(***************************************************************************)
\* A call has only so many touches left as the look behind it cleared, less
\* those that strayed; a box of an address is under way only if one was left;
\* a form is aimed at only with a send to spare, and only if it is not the one
\* just sent.
Within(k) == k.strays + k.left <= Cleared[k.kind]
Boxed(k) == k.kind = "address" /\ k.left > 0 => k.boxes > 0
Aimed(k) ==
    /\ Len(k.sent) <= MaxSends
    /\ k.seen # None =>
          /\ Len(k.sent) < MaxSends
          /\ k.sent # <<>> => k.sent[Len(k.sent)] # k.seen
    /\ MaxSends <= 2 => IsInjective(k.sent)
Good == {k \in Call : Within(k) /\ Boxed(k) /\ Aimed(k)}

\* A conversation is under way only if one was started, and a turn that has
\* something left to say has a conversation left to say it in.
Talking ==
    /\ turn \in {"errand", "afterword", "saying"} => talk >= 1
    /\ turn \in {"signing", "launching", "navigating"} => talk + 2 <= MaxTalks
    /\ turn = "errand" => talk + 1 <= MaxTalks

\* The part of ParkIsHonest a turn keeps that neither opens nor ends an errand.
Honest ==
    CASE park = "code" -> progress.challenged # None
      [] park = "address" -> progress.filled
      [] park = "handback" -> Resumable
      [] OTHER -> TRUE
Parked == turn \notin {"errand", "afterword"} => Honest

IInv ==
    /\ TypeOK
    /\ WheelIsReturnable
    /\ calls \subseteq Good
    /\ Talking
    /\ Parked

-----------------------------------------------------------------------------
(* One call.                                                                *)

\* A list of the forms sent, and what one more makes of it.
LEMMA FormsSent ==
    ASSUME NEW s \in Seq(Forms), NEW f \in Forms
    PROVE  /\ Len(s) \in Nat /\ Append(s, f) \in Seq(Forms)
           /\ Len(Append(s, f)) = Len(s) + 1
           /\ s # <<>> => Len(s) >= 1
           /\ (IsInjective(s) /\ Len(s) <= 1 /\ (s # <<>> => s[Len(s)] # f))
              => IsInjective(Append(s, f))
<1>1. /\ Len(s) \in Nat /\ Append(s, f) \in Seq(Forms)
      /\ Len(Append(s, f)) = Len(s) + 1
      /\ s # <<>> => Len(s) >= 1
      /\ DOMAIN s = 1..Len(s) /\ DOMAIN Append(s, f) = 1..(Len(s) + 1)
      /\ \A i \in 1..Len(s) : Append(s, f)[i] = s[i]
      /\ Append(s, f)[Len(s) + 1] = f
  OBVIOUS
<1>2. ASSUME IsInjective(s), Len(s) <= 1, s # <<>> => s[Len(s)] # f
      PROVE  IsInjective(Append(s, f))
  <2>1. CASE Len(s) = 0
    <3>1. \A i \in 1..(Len(s) + 1) : i = 1
      BY <1>1, <2>1
    <3> QED  BY <1>1, <3>1 DEF IsInjective
  <2>2. CASE Len(s) = 1
    <3>1. s # <<>> /\ s[1] # f
      BY <1>1, <1>2, <2>2
    <3>2. \A i \in 1..(Len(s) + 1) : i = 1 \/ i = 2
      BY <1>1, <2>2
    <3> QED  BY <1>1, <2>2, <3>1, <3>2 DEF IsInjective
  <2> QED  BY <1>1, <1>2, <2>1, <2>2
<1> QED  BY <1>1, <1>2

\* A call as it begins.
LEMMA NewIsGood ==
    ASSUME NEW t \in Talks \cup {Shopper}, NEW kind \in DOMAIN Cleared,
           window \in Sessions
    PROVE  New(t, kind) \in Good
<1> DEFINE k == New(t, kind)
<1>1. /\ Cleared[kind] \in 0..3 /\ 0 \in 0..Tries /\ Tries \in 0..Tries
      /\ MaxSends \in Nat
  BY WheelAssumption DEF Cleared
<1>2. k \in Call
  BY <1>1 DEF New, Call, Sessions
<1>3. k.left = Cleared[kind] /\ k.strays = 0 /\ k.kind = kind /\ k.sent = <<>> /\ k.seen = None
      /\ (kind = "address" => k.boxes = 2)
  BY DEF New
<1>4. Within(k) /\ Boxed(k)
  BY <1>1, <1>3 DEF Within, Boxed
<1>5. Aimed(k)
  BY <1>1, <1>3 DEF Aimed, IsInjective
<1> QED  BY <1>2, <1>4, <1>5 DEF Good

\* What a good call says of itself, in the form the steps below cite.
LEMMA GoodShape ==
    ASSUME NEW k \in Good
    PROVE  /\ k \in Call /\ Within(k) /\ Boxed(k) /\ Aimed(k)
           /\ k.by \in Talks \cup {Shopper} /\ k.w \in Sessions /\ k.kind \in DOMAIN Cleared
           /\ k.left \in 0..3 /\ k.boxes \in 0..2 /\ k.named \in BOOLEAN
           /\ k.tries \in 0..Tries /\ k.seen \in Forms \cup {None}
           /\ k.sent \in Seq(Forms) /\ k.strays \in 0..4
           /\ Cleared[k.kind] \in 0..3
           /\ k.strays <= Cleared[k.kind]
<1>1. k \in Call /\ Within(k) /\ Boxed(k) /\ Aimed(k)
  BY DEF Good
<1>2. Cleared[k.kind] \in 0..3
  <2>1. k.kind \in DOMAIN Cleared
    BY <1>1 DEF Call
  <2> QED  BY <2>1 DEF Cleared
<1> QED  BY <1>1, <1>2 DEF Call, Within

\* A touch spends what it strays.
LEMMA TouchIsGood ==
    ASSUME NEW k \in Good, k.left > 0
    PROVE  [Landing(k) EXCEPT !.left = @ - 1,
                !.boxes = IF k.kind = "address" THEN @ - 1 ELSE @] \in Good
<1> DEFINE m == Landing(k)
           l == [m EXCEPT !.left = @ - 1,
                          !.boxes = IF k.kind = "address" THEN @ - 1 ELSE @]
<1>1. /\ k \in Call /\ Within(k) /\ Boxed(k) /\ Aimed(k)
      /\ k.left \in 1..3 /\ k.boxes \in 0..2 /\ k.strays \in 0..4
      /\ Cleared[k.kind] \in 0..3 /\ k.sent \in Seq(Forms)
  BY GoodShape
<1>2. k.left - 1 \in 0..3 /\ (k.kind = "address" => k.boxes - 1 \in 0..2)
      /\ k.strays + 1 \in 0..4
  BY <1>1 DEF Within, Boxed
<1>3. /\ m \in Call
      /\ m.left = k.left /\ m.boxes = k.boxes /\ m.kind = k.kind /\ m.sent = k.sent
      /\ m.seen = k.seen /\ m.strays \in {k.strays, k.strays + 1}
  BY <1>1, <1>2 DEF Call, Landing
<1> HIDE DEF m
<1>4. /\ l \in Call /\ l.left = k.left - 1 /\ l.kind = k.kind /\ l.sent = k.sent
      /\ l.seen = k.seen /\ l.strays = m.strays
      /\ (k.kind = "address" => l.boxes = k.boxes - 1)
  BY <1>1, <1>2, <1>3 DEF Call
<1> HIDE DEF l
<1>5. Within(l)
  BY <1>1, <1>3, <1>4 DEF Within
<1>6. Boxed(l)
  <2>1. k.kind = "address" => k.left <= 1
    BY <1>1 DEF Within, Cleared
  <2> QED  BY <1>1, <1>4, <2>1 DEF Boxed
<1>7. Aimed(l)
  BY <1>1, <1>4 DEF Aimed
<1> QED  BY <1>4, <1>5, <1>6, <1>7 DEF Good, l, m

\* The next box is cleared afresh.
LEMMA NextBoxIsGood ==
    ASSUME NEW k \in Good, k.kind = "address", k.boxes > 0
    PROVE  [k EXCEPT !.left = 1, !.strays = 0] \in Good
<1> DEFINE l == [k EXCEPT !.left = 1, !.strays = 0]
<1>1. k \in Call /\ Aimed(k) /\ k.boxes \in 0..2 /\ 1 \in 0..3 /\ 0 \in 0..4
  BY GoodShape
<1>2. /\ l \in Call /\ l.left = 1 /\ l.strays = 0 /\ l.kind = k.kind
      /\ l.boxes = k.boxes /\ l.sent = k.sent /\ l.seen = k.seen
  BY <1>1 DEF Call
<1> HIDE DEF l
<1>3. Within(l) /\ Boxed(l) /\ Aimed(l)
  BY <1>1, <1>2 DEF Within, Boxed, Aimed, Cleared
<1> QED  BY <1>2, <1>3 DEF Good, l

\* A reading may take a try, give up, aim at a form or note the name typed.
LEMMA ReadingIsGood ==
    ASSUME NEW k \in Good, NEW n \in 0..Tries, NEW named \in BOOLEAN,
           NEW form \in Forms \cup {None},
           form # None => /\ Len(k.sent) < MaxSends
                          /\ k.sent # <<>> => k.sent[Len(k.sent)] # form
    PROVE  [k EXCEPT !.tries = n, !.named = named, !.seen = form] \in Good
<1> DEFINE l == [k EXCEPT !.tries = n, !.named = named, !.seen = form]
<1>1. k \in Call /\ Within(k) /\ Boxed(k) /\ Aimed(k)
  BY GoodShape
<1>2. /\ l \in Call /\ l.left = k.left /\ l.strays = k.strays /\ l.kind = k.kind
      /\ l.boxes = k.boxes /\ l.sent = k.sent /\ l.seen = form
  BY <1>1 DEF Call
<1> HIDE DEF l
<1>3. Within(l) /\ Boxed(l) /\ Aimed(l)
  BY <1>1, <1>2 DEF Within, Boxed, Aimed
<1> QED  BY <1>2, <1>3 DEF Good, l

\* The form aimed at is sent, and it was not sent before.
LEMMA SendIsGood ==
    ASSUME NEW k \in Good, k.seen # None, NEW named \in BOOLEAN
    PROVE  [k EXCEPT !.sent = Append(@, k.seen), !.seen = None, !.named = named] \in Good
<1> DEFINE l == [k EXCEPT !.sent = Append(@, k.seen), !.seen = None, !.named = named]
<1>1. /\ k \in Call /\ Within(k) /\ Boxed(k) /\ Aimed(k) /\ k.sent \in Seq(Forms)
      /\ k.seen \in Forms
  BY GoodShape
<1>2. /\ Len(k.sent) \in Nat /\ Append(k.sent, k.seen) \in Seq(Forms)
      /\ Len(Append(k.sent, k.seen)) = Len(k.sent) + 1
      /\ (IsInjective(k.sent) /\ Len(k.sent) <= 1
           /\ (k.sent # <<>> => k.sent[Len(k.sent)] # k.seen))
         => IsInjective(Append(k.sent, k.seen))
  BY <1>1, FormsSent
<1>3. /\ l \in Call /\ l.left = k.left /\ l.strays = k.strays /\ l.kind = k.kind
      /\ l.boxes = k.boxes /\ l.sent = Append(k.sent, k.seen) /\ l.seen = None
  BY <1>1, <1>2 DEF Call
<1> HIDE DEF l
<1>4. Within(l) /\ Boxed(l)
  BY <1>1, <1>3 DEF Within, Boxed
<1>5. MaxSends \in Nat
  BY WheelAssumption
<1>6. Aimed(l)
  BY <1>1, <1>2, <1>3, <1>5 DEF Aimed
<1> QED  BY <1>3, <1>4, <1>6 DEF Good, l
-----------------------------------------------------------------------------
(* The hands on the windows.                                                *)

Hands ==
    /\ window \in Sessions \cup {NoWindow}
    /\ drive \in [Sessions -> {"idle", "agent-drive", "user-drive", "closed"}]
    /\ pause \in [Sessions -> BOOLEAN]
    /\ WheelIsReturnable

\* A reason to stop takes the wheel and leaves a pause, or finds neither to take.
LEMMA RaiseHands ==
    ASSUME Hands, NEW w \in Sessions, Raise(w), window' = window
    PROVE  Hands'
<1>1. CASE drive[w] = "agent-drive"
  <2>1. /\ drive' = [drive EXCEPT ![w] = "user-drive"]
        /\ pause' = [pause EXCEPT ![w] = TRUE]
    BY <1>1 DEF Raise
  <2> QED  BY <2>1 DEF Hands, WheelIsReturnable
<1>2. CASE drive[w] # "agent-drive"
  <2>1. drive' = drive /\ pause' = pause
    BY <1>2 DEF Raise
  <2> QED  BY <2>1 DEF Hands, WheelIsReturnable
<1> QED  BY <1>1, <1>2

\* A window that closes owes nothing, and takes its calls with it.
LEMMA CloseHands ==
    ASSUME Hands, calls \subseteq Good, Close
    PROVE  Hands' /\ calls' \subseteq Good
  BY DEF Hands, WheelIsReturnable, Close, NoWindow

\* A window is launched with its wheel in the agent's hands, and no pause: it
\* had none while it was not there.
LEMMA LaunchHands ==
    ASSUME Hands, Launch
    PROVE  Hands'
  BY DEF Hands, WheelIsReturnable, Launch

\* The wheel goes back together with the pause.
LEMMA HandBackHands ==
    ASSUME Hands, HandBack
    PROVE  Hands'
<1>1. window \in Sessions
  BY DEF Hands, HandBack, NoWindow
<1>2. /\ drive' = [drive EXCEPT ![window] = "agent-drive"]
      /\ pause' = [pause EXCEPT ![window] = FALSE]
      /\ window' = window
  BY DEF HandBack
<1> QED  BY <1>1, <1>2 DEF Hands, WheelIsReturnable

\* The invariant from its parts, and its parts from it.
LEMMA Parts ==
    IInv <=> /\ Hands
             /\ turn \in Turns /\ talk \in 0..MaxTalks /\ loose \subseteq Talks
             /\ used \in 0..MaxCalls /\ calls \subseteq Good
             /\ progress \in [filled: BOOLEAN, handed: Reasons \cup {None},
                              challenged: {None, "through", "code", "password"}]
             /\ park \in {None, "address", "handback", "code"}
             /\ Talking /\ Parked
<1>1. Good \subseteq Call
  BY DEF Good
<1> QED  BY <1>1 DEF IInv, TypeOK, Hands

\* What a step outside the turn may do: touch the window, the calls, and what
\* is on record as long as a parked checkout keeps what it stands on.
LEMMA BesideTurn ==
    ASSUME IInv, Hands', calls' \subseteq Good, used' \in 0..MaxCalls,
           UNCHANGED <<turn, talk, loose, park>>,
           progress' \in [filled: BOOLEAN, handed: Reasons \cup {None},
                          challenged: {None, "through", "code", "password"}],
           Honest => Honest'
    PROVE  IInv'
<1>1. Talking'
  BY Parts DEF Talking
<1>2. Parked'
  BY Parts DEF Parked
<1>3. Good \subseteq Call
  BY DEF Good
<1>4. TypeOK' /\ WheelIsReturnable'
  BY <1>3, Parts DEF TypeOK, Hands
<1> QED  BY <1>1, <1>2, <1>4 DEF IInv

\* Windows nobody touches.
LEMMA SameHands ==
    ASSUME Hands, UNCHANGED hands
    PROVE  Hands'
  BY DEF Hands, WheelIsReturnable, hands

\* A record nobody writes.
LEMMA SameRecord ==
    ASSUME UNCHANGED <<progress, park>>
    PROVE  Honest => Honest'
  BY DEF Honest, Resumable

-----------------------------------------------------------------------------
(* The tool calls.                                                          *)

\* One call gives way to another, or to none.
LEMMA Exchange ==
    ASSUME calls \subseteq Good, NEW k \in calls,
           Drop(k) \/ \E l \in Good : Replace(k, l)
    PROVE  calls' \subseteq Good
  BY DEF Drop, Replace

\* The steps that only move calls.
LEMMA CallsMove ==
    ASSUME IInv,
           Touch \/ Answered \/ NextBox \/ SeesPassword \/ SeesNoPassword \/ SendPassword
    PROVE  calls' \subseteq Good /\ UNCHANGED <<hands, turn, talks, progress, park>>
<1>0. calls \subseteq Good
  BY Parts
<1>1. CASE Touch
  <2>1. PICK k \in calls : k.left > 0 /\ Replace(k, [Landing(k) EXCEPT
               !.left = @ - 1, !.boxes = IF k.kind = "address" THEN @ - 1 ELSE @])
    BY <1>1 DEF Touch
  <2> QED  BY <1>0, <1>1, <2>1, TouchIsGood, Exchange DEF Touch
<1>2. CASE Answered
  BY <1>0, <1>2, Exchange DEF Answered
<1>3. CASE NextBox
  <2>1. PICK k \in calls :
          /\ k.kind = "address" /\ k.boxes > 0
          /\ Replace(k, [k EXCEPT !.left = 1, !.strays = 0]) \/ Drop(k)
    BY <1>3 DEF NextBox
  <2> QED  BY <1>0, <1>3, <2>1, NextBoxIsGood, Exchange DEF NextBox
<1>4. CASE SeesPassword
  <2>1. PICK k \in calls, form \in Forms :
          /\ SigningIn(k) /\ k.tries > 0
          /\ Replace(k, CASE SentAlready(k, form) -> [k EXCEPT !.tries = @ - 1]
                           [] Len(k.sent) >= MaxSends -> [k EXCEPT !.tries = 0]
                           [] OTHER -> [k EXCEPT !.tries = @ - 1, !.seen = form])
    BY <1>4 DEF SeesPassword
  <2>2. /\ k \in Good /\ k \in Call /\ k.tries - 1 \in 0..Tries /\ 0 \in 0..Tries
        /\ k.named \in BOOLEAN /\ k.seen = None /\ Len(k.sent) \in Nat /\ MaxSends \in Nat
    BY <1>0, <2>1, GoodShape, WheelAssumption DEF SigningIn
  <2>3. \A n \in 0..Tries : [k EXCEPT !.tries = n, !.named = k.named, !.seen = None] \in Good
    BY <2>2, ReadingIsGood
  <2>4. /\ [k EXCEPT !.tries = @ - 1] = [k EXCEPT !.tries = k.tries - 1, !.named = k.named, !.seen = None]
        /\ [k EXCEPT !.tries = 0] = [k EXCEPT !.tries = 0, !.named = k.named, !.seen = None]
        /\ [k EXCEPT !.tries = @ - 1, !.seen = form]
              = [k EXCEPT !.tries = k.tries - 1, !.named = k.named, !.seen = form]
    BY <2>2 DEF Call
  <2>5. [k EXCEPT !.tries = @ - 1] \in Good /\ [k EXCEPT !.tries = 0] \in Good
    BY <2>2, <2>3, <2>4
  <2>6. ASSUME ~SentAlready(k, form), ~(Len(k.sent) >= MaxSends)
        PROVE  [k EXCEPT !.tries = @ - 1, !.seen = form] \in Good
    <3>1. Len(k.sent) < MaxSends /\ (k.sent # <<>> => k.sent[Len(k.sent)] # form)
      BY <2>2, <2>6 DEF SentAlready, Last
    <3>2. /\ k.tries - 1 \in 0..Tries /\ k.named \in BOOLEAN /\ form \in Forms \cup {None}
          /\ k \in Good
      BY <2>2
    <3>3. [k EXCEPT !.tries = k.tries - 1, !.named = k.named, !.seen = form] \in Good
      BY <3>1, <3>2, ReadingIsGood
    <3> QED  BY <2>4, <3>3
  <2>7. \E l \in Good : Replace(k, l)
    <3> DEFINE waits == [k EXCEPT !.tries = @ - 1]
               stops == [k EXCEPT !.tries = 0]
               aims == [k EXCEPT !.tries = @ - 1, !.seen = form]
               next == CASE SentAlready(k, form) -> waits
                         [] Len(k.sent) >= MaxSends -> stops
                         [] OTHER -> aims
    <3>1. Replace(k, next)
      BY <2>1
    <3>2. /\ waits \in Good /\ stops \in Good
          /\ ~SentAlready(k, form) /\ ~(Len(k.sent) >= MaxSends) => aims \in Good
      BY <2>5, <2>6
    <3> HIDE DEF waits, stops, aims
    <3>3. next \in Good
      BY <3>2
    <3> HIDE DEF next
    <3> QED  BY <3>1, <3>3
  <2>8. calls' \subseteq Good
    BY <1>0, <2>7, Exchange
  <2> QED  BY <1>4, <2>8 DEF SeesPassword
<1>5. CASE SeesNoPassword
  <2>1. PICK k \in calls :
          /\ SigningIn(k) /\ k.tries > 0
          /\ \/ Replace(k, [k EXCEPT !.tries = 0])
             \/ Replace(k, [k EXCEPT !.tries = @ - 1])
             \/ Replace(k, [k EXCEPT !.tries = @ - 1, !.named = TRUE])
             \/ Drop(k)
    BY <1>5 DEF SeesNoPassword
  <2>2. /\ k \in Good /\ k \in Call /\ k.tries - 1 \in 0..Tries /\ 0 \in 0..Tries
        /\ k.named \in BOOLEAN /\ k.seen = None
    BY <1>0, <2>1, GoodShape, WheelAssumption DEF SigningIn
  <2>3. \A n \in 0..Tries, b \in BOOLEAN : [k EXCEPT !.tries = n, !.named = b, !.seen = None] \in Good
    BY <2>2, ReadingIsGood
  <2>4. /\ [k EXCEPT !.tries = 0] = [k EXCEPT !.tries = 0, !.named = k.named, !.seen = None]
        /\ [k EXCEPT !.tries = @ - 1] = [k EXCEPT !.tries = k.tries - 1, !.named = k.named, !.seen = None]
        /\ [k EXCEPT !.tries = @ - 1, !.named = TRUE] = [k EXCEPT !.tries = k.tries - 1, !.named = TRUE, !.seen = None]
    BY <2>2 DEF Call
  <2>5. /\ [k EXCEPT !.tries = 0] \in Good
        /\ [k EXCEPT !.tries = @ - 1] \in Good
        /\ [k EXCEPT !.tries = @ - 1, !.named = TRUE] \in Good
    BY <2>2, <2>3, <2>4
  <2>6. calls' \subseteq Good
    BY <1>0, <2>1, <2>5, Exchange
  <2> QED  BY <1>5, <2>6 DEF SeesNoPassword
<1>6. CASE SendPassword
  <2>1. PICK k \in calls :
          /\ k.seen # None
          /\ \/ Drop(k)
             \/ \E named \in {k.named, TRUE} :
                   Replace(k, [k EXCEPT !.sent = Append(@, k.seen),
                                        !.seen = None, !.named = named])
    BY <1>6 DEF SendPassword
  <2>2. k \in Good /\ k.named \in BOOLEAN
    BY <1>0, <2>1, GoodShape
  <2>3. calls' \subseteq Good
    BY <1>0, <2>1, <2>2, SendIsGood, Exchange
  <2> QED  BY <1>6, <2>3 DEF SendPassword
<1> QED  BY <1>1, <1>2, <1>3, <1>4, <1>5, <1>6

\* The steps that begin a call, or end one with something to show for it.
LEMMA ToolHolds ==
    ASSUME IInv, Tool
    PROVE  IInv'
<1> DEFINE Progress == [filled: BOOLEAN, handed: Reasons \cup {None},
                        challenged: {None, "through", "code", "password"}]
<1>0. /\ Hands /\ calls \subseteq Good /\ used \in 0..MaxCalls /\ progress \in Progress
      /\ MaxCalls \in Nat
  BY Parts, WheelAssumption
<1>1. CASE Touch \/ Answered \/ NextBox \/ SeesPassword \/ SeesNoPassword \/ SendPassword
  <2>1. calls' \subseteq Good /\ UNCHANGED <<hands, turn, talks, progress, park>>
    BY <1>1, CallsMove
  <2>2. Hands' /\ (Honest => Honest')
    BY <1>0, <2>1, SameHands, SameRecord
  <2>3. UNCHANGED <<turn, talk, loose, used, park, progress>>
    BY <2>1 DEF talks
  <2> QED  BY <1>0, <2>1, <2>2, <2>3, BesideTurn
<1>2. CASE CallTool
  <2>1. PICK t \in Talks, kind \in DOMAIN Cleared :
          Calling(t) /\ Begin(t, kind) /\ Count
    BY <1>2 DEF CallTool
  <2>2. UNCHANGED <<hands, turn, talk, loose, progress, park>> /\ used' \in 0..MaxCalls
    BY <1>0, <1>2, <2>1 DEF CallTool, Count, Calling
  <2>3. window \in Sessions
    BY <1>0, <2>1 DEF Hands, Begin, Ours
  <2>4. New(t, kind) \in Good
    BY <2>3, NewIsGood
  <2>5. calls' \subseteq Good
    BY <1>0, <2>1, <2>4 DEF Begin
  <2>6. Hands' /\ (Honest => Honest')
    BY <1>0, <2>2, SameHands, SameRecord
  <2> QED  BY <1>0, <2>2, <2>5, <2>6, BesideTurn
<1>3. CASE OpenTool
  <2>1. /\ Launch /\ UNCHANGED <<turn, talk, loose, calls, progress, park>>
        /\ used' \in 0..MaxCalls
    BY <1>0, <1>3 DEF OpenTool, Count, Calling
  <2>2. Hands' /\ (Honest => Honest')
    BY <1>0, <2>1, LaunchHands, SameRecord
  <2> QED  BY <1>0, <2>1, <2>2, BesideTurn
<1>4. CASE HandoverTool
  <2>1. PICK reason \in Reasons :
          /\ window # NoWindow
          /\ progress' = [progress EXCEPT !.handed = IF @ = None THEN reason ELSE @]
          /\ Raise(window)
    BY <1>4 DEF HandoverTool
  <2>2. UNCHANGED <<window, turn, talk, loose, calls, park>> /\ used' \in 0..MaxCalls
    BY <1>0, <1>4 DEF HandoverTool, Count, Calling
  <2>3. window \in Sessions
    BY <1>0, <2>1 DEF Hands
  <2>4. Hands'
    BY <1>0, <2>1, <2>2, <2>3, RaiseHands
  <2>5. /\ progress' \in Progress
        /\ progress'.filled = progress.filled
        /\ progress'.challenged = progress.challenged
        /\ progress.handed # None => progress'.handed = progress.handed
    BY <1>0, <2>1
  <2>6. Honest => Honest'
    BY <2>2, <2>5 DEF Honest, Resumable
  <2> QED  BY <1>0, <2>2, <2>4, <2>5, <2>6, BesideTurn
<1>5. CASE Relay
  <2>1. UNCHANGED <<hands, turn, talk, loose, used, progress, park>>
    BY <1>5 DEF Relay, talks
  <2>2. window \in Sessions
    BY <1>0, <1>5 DEF Hands, Relay, Theirs
  <2>3. New(Shopper, "relay") \in Good
    <3>1. Shopper \in Talks \cup {Shopper} /\ "relay" \in DOMAIN Cleared
      BY DEF Cleared
    <3> QED  BY <2>2, <3>1, NewIsGood
  <2>4. calls' \subseteq Good
    BY <1>0, <1>5, <2>3 DEF Relay
  <2>5. Hands' /\ (Honest => Honest')
    BY <1>0, <2>1, SameHands, SameRecord
  <2> QED  BY <1>0, <2>1, <2>4, <2>5, BesideTurn
<1>6. CASE Refused \/ CartRead
  <2>1. PICK k \in calls : Drop(k) /\ (UNCHANGED <<drive, pause>> \/ Raise(k.w))
    BY <1>6 DEF Refused, CartRead
  <2>2. UNCHANGED <<window, turn, talk, loose, used, progress, park>>
    BY <1>6 DEF Refused, CartRead, talks
  <2>3. calls' \subseteq Good
    BY <1>0, <2>1, Exchange
  <2>4. k.w \in Sessions
    BY <1>0, <2>1, GoodShape
  <2>5. Hands'
    <3>1. CASE UNCHANGED <<drive, pause>>
      BY <1>0, <2>2, <3>1, SameHands DEF hands
    <3>2. CASE Raise(k.w)
      BY <1>0, <2>2, <2>4, <3>2, RaiseHands
    <3> QED  BY <2>1, <3>1, <3>2
  <2>6. Honest => Honest'
    BY <2>2, SameRecord
  <2> QED  BY <1>0, <2>2, <2>3, <2>5, <2>6, BesideTurn
<1>7. CASE AddressFilled
  <2>1. PICK k \in calls : Drop(k)
    BY <1>7 DEF AddressFilled
  <2>2. /\ UNCHANGED <<hands, turn, talk, loose, used, park>>
        /\ progress' = [progress EXCEPT !.filled = TRUE]
    BY <1>7 DEF AddressFilled, talks
  <2>3. calls' \subseteq Good /\ Hands'
    BY <1>0, <2>1, <2>2, Exchange, SameHands
  <2>4. progress' \in Progress /\ (Honest => Honest')
    BY <1>0, <2>2 DEF Honest, Resumable
  <2> QED  BY <1>0, <2>2, <2>3, <2>4, BesideTurn
<1>8. CASE SignInEnds
  <2>1. PICK k \in calls : Drop(k)
    BY <1>8 DEF SignInEnds
  <2>2. /\ UNCHANGED <<hands, turn, talk, loose, used, park>>
        /\ \/ UNCHANGED progress
           \/ \E c \in {"through", "code", "password"} :
                 progress' = [progress EXCEPT !.challenged = c]
    BY <1>8 DEF SignInEnds, talks
  <2>3. calls' \subseteq Good /\ Hands'
    BY <1>0, <2>1, <2>2, Exchange, SameHands
  <2>4. progress' \in Progress /\ (Honest => Honest')
    <3>1. CASE UNCHANGED progress
      BY <1>0, <2>2, <3>1, SameRecord
    <3>2. ASSUME NEW c \in {"through", "code", "password"},
                 progress' = [progress EXCEPT !.challenged = c]
          PROVE  progress' \in Progress /\ (Honest => Honest')
      BY <1>0, <2>2, <3>2 DEF Honest, Resumable, None
    <3> QED  BY <2>2, <3>1, <3>2
  <2> QED  BY <1>0, <2>2, <2>3, <2>4, BesideTurn
<1> QED  BY <1>1, <1>2, <1>3, <1>4, <1>5, <1>6, <1>7, <1>8 DEF Tool

-----------------------------------------------------------------------------
(* The turns.                                                               *)

\* What a step of the turn leaves alone: the calls, and the window unless the
\* card's page opens.
LEMMA TurnHands ==
    ASSUME IInv, Turn
    PROVE  Hands' /\ calls' \subseteq Good /\ UNCHANGED calls /\ used' = used
<1>1. Hands /\ calls \subseteq Good
  BY Parts
<1>2. UNCHANGED calls /\ used' = used
  BY DEF Turn, Pick, CovenantSigned, CovenantRefused, Opened, OpenFails,
         ErrandEnds, ErrandFails, ErrandExpires,
         AfterwordEnds, SayingEnds, Resume, StartTalk, talks
<1>3. UNCHANGED hands \/ Launch
  BY DEF Turn, Pick, CovenantSigned, CovenantRefused, Opened, OpenFails,
         ErrandEnds, ErrandFails, ErrandExpires,
         AfterwordEnds, SayingEnds, Resume
<1>4. Hands'
  BY <1>1, <1>3, SameHands, LaunchHands
<1> QED  BY <1>1, <1>2, <1>4

\* A checkout that parks stands on the reason just read off the record.
LEMMA ReasonIsHonest ==
    ASSUME park' = ParkReason, UNCHANGED progress
    PROVE  park' \in {None, "address", "handback", "code"} /\ Honest'
<1>1. /\ park' = "code" => progress.challenged = "code"
      /\ park' = "address" => progress.filled
      /\ park' = "handback" => Resumable
      /\ park' \in {None, "address", "handback", "code"}
  <2>1. CASE progress.challenged = "code" /\ progress.handed = None
    BY <2>1 DEF ParkReason, None
  <2>2. CASE ~(progress.challenged = "code" /\ progress.handed = None)
             /\ progress.filled /\ progress.handed = None
    BY <2>2 DEF ParkReason, None
  <2>3. CASE /\ ~(progress.challenged = "code" /\ progress.handed = None)
             /\ ~(progress.filled /\ progress.handed = None)
             /\ Resumable
    BY <2>3 DEF ParkReason, None
  <2>4. CASE /\ ~(progress.challenged = "code" /\ progress.handed = None)
             /\ ~(progress.filled /\ progress.handed = None)
             /\ ~Resumable
    BY <2>4 DEF ParkReason, None
  <2> QED  BY <2>1, <2>2, <2>3, <2>4
<1> QED  BY <1>1 DEF Honest, Resumable, None

\* The bookkeeping of a turn: which conversation it holds, and what is parked.
LEMMA TurnHolds ==
    ASSUME IInv, Turn
    PROVE  IInv'
<1> DEFINE Progress == [filled: BOOLEAN, handed: Reasons \cup {None},
                        challenged: {None, "through", "code", "password"}]
           Parks == {None, "address", "handback", "code"}
<1>0. /\ turn \in Turns /\ talk \in 0..MaxTalks /\ loose \subseteq Talks
      /\ used \in 0..MaxCalls /\ progress \in Progress /\ park \in Parks
      /\ Talking /\ Parked /\ MaxTalks \in Nat
  BY Parts, WheelAssumption
<1>1. Hands' /\ calls' \subseteq Good /\ used' = used
  BY TurnHands
<1>2. FreshProgress \in Progress
  BY DEF FreshProgress
<1>3. ASSUME UNCHANGED <<progress, park>>, turn \notin {"errand", "afterword"}
      PROVE  Parked'
  BY <1>0, <1>3, SameRecord DEF Parked
<1>4. ASSUME turn' \in {"errand", "afterword"}
      PROVE  Parked'
  BY <1>4 DEF Parked
<1>5. /\ turn' \in Turns /\ talk' \in 0..MaxTalks /\ loose' \subseteq Talks
      /\ progress' \in Progress /\ park' \in Parks /\ Talking' /\ Parked'
  <2>1. CASE Pick
    <3>1. UNCHANGED <<progress, park>> /\ turn = "idle" /\ loose' = loose
      BY <2>1 DEF Pick, talks
    <3>2. Parked'
      BY <1>3, <3>1
    <3> QED  BY <1>0, <2>1, <3>1, <3>2 DEF Pick, Room, talks, Talking, Turns
  <2>9. CASE CovenantSigned \/ CovenantRefused
    <3>1. /\ turn = "signing" /\ UNCHANGED <<progress, park>> /\ loose' = loose
          /\ \/ turn' = "saying" /\ talk' = talk + 1
             \/ turn' \in {"idle", "launching", "navigating"} /\ talk' = talk
      BY <2>9 DEF CovenantSigned, CovenantRefused, StartTalk, talks
    <3>2. Parked'
      BY <1>3, <3>1
    <3> QED  BY <1>0, <3>1, <3>2 DEF Talking, Turns
  <2>2. CASE Opened
    <3>1. /\ turn \in {"launching", "navigating"} /\ turn' = "errand"
          /\ talk' = talk + 1 /\ loose' = loose /\ progress' = FreshProgress /\ park' = park
      BY <2>2 DEF Opened, StartTalk
    <3>2. Parked'
      BY <1>4, <3>1
    <3> QED  BY <1>0, <1>2, <3>1, <3>2 DEF Talking, Turns
  <2>3. CASE OpenFails
    <3>1. /\ turn \in {"launching", "navigating"} /\ turn' = "saying"
          /\ talk' = talk + 1 /\ loose' = loose /\ UNCHANGED <<progress, park>>
      BY <2>3 DEF OpenFails, StartTalk
    <3>2. Parked'
      BY <1>3, <3>1
    <3> QED  BY <1>0, <3>1, <3>2 DEF Talking, Turns
  <2>4. CASE ErrandEnds
    <3>1. /\ turn' = "idle" /\ talk' = talk /\ loose' = loose
          /\ UNCHANGED progress /\ park' = ParkReason
      BY <2>4 DEF ErrandEnds, talks
    <3>2. park' \in Parks /\ Honest'
      BY <3>1, ReasonIsHonest
    <3> QED  BY <1>0, <3>1, <3>2 DEF Talking, Turns, Parked
  <2>5. CASE ErrandFails \/ ErrandExpires
    <3>1. /\ turn = "errand" /\ turn' = "afterword" /\ talk' = talk + 1
          /\ loose' \in {loose, loose \cup {talk}} /\ UNCHANGED <<progress, park>>
      BY <2>5 DEF ErrandFails, ErrandExpires, StartTalk, Abandon
    <3>2. Parked'
      BY <1>4, <3>1
    <3>3. talk \in Talks
      BY <1>0, <3>1 DEF Talking, Talks
    <3> QED  BY <1>0, <3>1, <3>2, <3>3 DEF Talking, Turns
  <2>6. CASE AfterwordEnds
    <3>1. /\ turn = "afterword" /\ turn' = "idle" /\ talk' = talk
          /\ loose' \in {loose, loose \cup {talk}}
          /\ UNCHANGED progress /\ park' = ParkReason
      BY <2>6 DEF AfterwordEnds, Abandon
    <3>2. park' \in Parks /\ Honest'
      BY <3>1, ReasonIsHonest
    <3>3. talk \in Talks
      BY <1>0, <3>1 DEF Talking, Talks
    <3> QED  BY <1>0, <3>1, <3>2, <3>3 DEF Talking, Turns, Parked
  <2>7. CASE SayingEnds
    <3>1. /\ turn = "saying" /\ turn' = "idle" /\ talk' = talk
          /\ loose' \in {loose, loose \cup {talk}} /\ UNCHANGED <<progress, park>>
      BY <2>7 DEF SayingEnds, Abandon
    <3>2. Parked'
      BY <1>3, <3>1
    <3>3. talk \in Talks
      BY <1>0, <3>1 DEF Talking, Talks
    <3> QED  BY <1>0, <3>1, <3>2, <3>3 DEF Talking, Turns
  <2>8. CASE Resume
    <3>1. /\ turn = "idle" /\ talk + 2 <= MaxTalks /\ talk' = talk + 1
          /\ loose' = loose /\ park' = park
          /\ \/ turn' = "saying" /\ UNCHANGED progress
             \/ turn' = "errand" /\ progress' = FreshProgress
      BY <2>8 DEF Resume, Room, StartTalk
    <3>2. Parked'
      BY <1>3, <1>4, <3>1
    <3> QED  BY <1>0, <1>2, <3>1, <3>2 DEF Talking, Turns
  <2> QED  BY <2>1, <2>2, <2>3, <2>4, <2>5, <2>6, <2>7, <2>8, <2>9 DEF Turn
<1>6. Good \subseteq Call
  BY DEF Good
<1>7. TypeOK' /\ WheelIsReturnable'
  BY <1>0, <1>1, <1>5, <1>6 DEF TypeOK, Hands
<1> QED  BY <1>1, <1>5, <1>7 DEF IInv

\* The wheel returned, with the parked checkout carried on or not.
LEMMA HandBackHolds ==
    ASSUME IInv, HandBack
    PROVE  IInv'
<1>0. /\ Hands /\ turn \in Turns /\ talk \in 0..MaxTalks /\ loose \subseteq Talks
      /\ used \in 0..MaxCalls /\ calls \subseteq Good /\ Talking /\ Parked
      /\ progress \in [filled: BOOLEAN, handed: Reasons \cup {None},
                       challenged: {None, "through", "code", "password"}]
      /\ MaxTalks \in Nat
  BY Parts, WheelAssumption
<1>1. Hands' /\ UNCHANGED <<calls, park>>
  BY <1>0, HandBackHands DEF HandBack
<1>2. CASE turn = "idle" /\ park # None
  <2>1. /\ turn' = "errand" /\ talk + 2 <= MaxTalks /\ talk' = talk + 1
        /\ UNCHANGED <<loose, used>> /\ progress' = FreshProgress
    BY <1>2 DEF HandBack, Room, StartTalk
  <2>2. Talking' /\ Parked'
    BY <1>0, <2>1 DEF Talking, Parked
  <2>3. Good \subseteq Call
    BY DEF Good
  <2>4. TypeOK' /\ WheelIsReturnable'
    <3>1. progress' \in [filled: BOOLEAN, handed: Reasons \cup {None},
                         challenged: {None, "through", "code", "password"}]
      BY <2>1 DEF FreshProgress
    <3>2. turn' \in Turns /\ talk' \in 0..MaxTalks
      BY <1>0, <2>1 DEF Turns
    <3>3. park \in {None, "address", "handback", "code"}
      BY Parts
    <3> QED  BY <1>0, <1>1, <2>1, <2>3, <3>1, <3>2, <3>3 DEF TypeOK, Hands
  <2> QED  BY <1>0, <1>1, <2>2, <2>4 DEF IInv
<1>3. CASE ~(turn = "idle" /\ park # None)
  <2>1. UNCHANGED <<turn, talk, loose, used, progress>>
    BY <1>3 DEF HandBack, talks
  <2>2. Honest => Honest'
    BY <1>1, <2>1, SameRecord
  <2> QED  BY <1>0, <1>1, <2>1, <2>2, BesideTurn
<1> QED  BY <1>2, <1>3

\* The shopper takes the wheel, or the window goes.
LEMMA WindowHolds ==
    ASSUME IInv, Takeover \/ CloseWindow \/ Reap
    PROVE  IInv'
<1>0. Hands /\ calls \subseteq Good /\ used \in 0..MaxCalls
      /\ progress \in [filled: BOOLEAN, handed: Reasons \cup {None},
                       challenged: {None, "through", "code", "password"}]
  BY Parts
<1>1. UNCHANGED <<turn, talk, loose, used, progress, park>>
  BY DEF Takeover, CloseWindow, Reap, talks
<1>2. Honest => Honest'
  BY <1>1, SameRecord
<1>3. Hands' /\ calls' \subseteq Good
  <2>1. CASE Takeover
    <3>1. window \in Sessions
      BY <1>0, <2>1 DEF Takeover, Ours, Hands
    <3> QED  BY <1>0, <2>1, <3>1, RaiseHands DEF Takeover
  <2>2. CASE CloseWindow \/ Reap
    BY <1>0, <2>2, CloseHands DEF CloseWindow, Reap
  <2> QED  BY <2>1, <2>2
<1> QED  BY <1>0, <1>1, <1>2, <1>3, BesideTurn

-----------------------------------------------------------------------------
(* The theorems.                                                            *)

\* Init is a state of the invariant.
LEMMA WheelStarts ==
    ASSUME Init
    PROVE  IInv
<1>1. TypeOK
  BY WheelAssumption DEF Init, TypeOK, Turns, FreshProgress
<1>2. WheelIsReturnable /\ calls \subseteq Good
  BY DEF Init, WheelIsReturnable
<1>3. Talking
  BY DEF Init, Talking
<1>4. Parked
  BY DEF Init, Parked, Honest, None
<1> QED  BY <1>1, <1>2, <1>3, <1>4 DEF IInv

\* And every step keeps it.
LEMMA WheelSteps ==
    ASSUME IInv, [Next]_vars
    PROVE  IInv'
<1>1. CASE Tool
  BY <1>1, ToolHolds
<1>2. CASE Turn
  BY <1>2, TurnHolds
<1>3. CASE Takeover \/ CloseWindow \/ Reap
  BY <1>3, WindowHolds
<1>4. CASE HandBack
  BY <1>4, HandBackHolds
<1>5. CASE UNCHANGED vars
  <2>1. UNCHANGED <<hands, turn, talk, loose, used, calls, progress, park>>
    BY <1>5 DEF vars, talks
  <2>2. Hands' /\ (Honest => Honest')
    BY <2>1, Parts, SameHands, SameRecord
  <2> QED  BY <2>1, <2>2, Parts, BesideTurn
<1> QED  BY <1>1, <1>2, <1>3, <1>4, <1>5 DEF Next

\* The invariant of every reachable state.
THEOREM WheelStands == Spec => []IInv
<1>1. Init => IInv
  BY WheelStarts
<1>2. IInv /\ [Next]_vars => IInv'
  BY WheelSteps
<1> QED  BY <1>1, <1>2, PTL DEF Spec

\* Types, whoever moves: session-state.ts, web-progress.ts, web-pick-park.ts.
THEOREM TypesHold == Spec => []TypeOK
<1>1. IInv => TypeOK
  BY DEF IInv
<1> QED  BY <1>1, WheelStands, PTL

\* However the reasons to stop, the shopper's own takeover, launches, closings
\* and hand-backs interleave, a window is at its shopper's wheel exactly while
\* there is a pause to hand back (handoff-controller.ts).
THEOREM WheelReturns == Spec => []WheelIsReturnable
<1>1. IInv => WheelIsReturnable
  BY DEF IInv
<1> QED  BY <1>1, WheelStands, PTL

\* However many calls a clock cut loose, none lands more touches on a wheel
\* that has moved than the gate cleared it for (guarded-page.ts).
THEOREM ClearedIsAll == Spec => []OnlyWhatWasCleared
<1>1. IInv => OnlyWhatWasCleared
  BY GoodShape DEF IInv, OnlyWhatWasCleared
<1> QED  BY <1>1, WheelStands, PTL

\* A parked checkout stands on something still on record, whatever abandoned
\* calls write on the record meanwhile (web-pick-close.ts).
THEOREM ParkStands == Spec => []ParkIsHonest
<1>1. IInv => ParkIsHonest
  BY DEF IInv, ParkIsHonest, Parked, Honest
<1> QED  BY <1>1, WheelStands, PTL

\* With the two sends the code allows (sign-in-form.ts), no form is given the
\* password twice, however many readings and however slow the page: the reading
\* recognises only the form just sent, and two sends leave no room for a third.
THEOREM PasswordOnce ==
    ASSUME MaxSends <= 2
    PROVE  Spec => []PasswordOncePerForm
<1>1. IInv => PasswordOncePerForm
  BY DEF IInv, PasswordOncePerForm, Good, Aimed
<1> QED  BY <1>1, WheelStands, PTL
=============================================================================
