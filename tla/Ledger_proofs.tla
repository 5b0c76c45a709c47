--------------------------- MODULE Ledger_proofs ---------------------------
(***************************************************************************)
(* Theorems about Ledger, for any events, clients, nesting and faults.     *)
(*                                                                         *)
(* WInv is the writer's bookkeeping: what each open run() may return to,   *)
(* and what the buffer holds. Sent says that a frame anybody holds is a    *)
(* committed row; it needs WInv at the one step that publishes. Linked    *)
(* says how a client's stream, its page, what it folded and what the hub   *)
(* skipped fit together: whatever is not past a frame on the wire is       *)
(* folded, skipped or before it on the wire. Nothing is assumed of the     *)
(* backfill's limit or of the length of the ledger.                        *)
(***************************************************************************)
EXTENDS Ledger, SequenceTheorems, FiniteSetTheorems, TLAPS

\* The length of the committed log.
Base == IF marks = <<>> THEN Len(table) ELSE marks[1].rows

\* What the marks of open run()s say: each begins where its caller stood or later.
MarksNested ==
    /\ \A i \in 1..Len(marks) :
        /\ marks[1].rows <= marks[i].rows
        /\ marks[i].rows <= Len(table)
        /\ marks[i].frames = marks[i].rows - marks[1].rows
    /\ \A i, j \in 1..Len(marks) : i <= j => marks[i].rows <= marks[j].rows
    /\ marks = <<>> => buffered = <<>>

\* The buffer is the open transaction's rows, by seq.
Buffer ==
    /\ Len(buffered) = Len(table) - Base
    /\ \A i \in 1..Len(buffered) :
        /\ buffered[i].id = Base + i
        /\ buffered[i].ev = table[Base + i]

\* The writer's bookkeeping.
WInv == TypeOK /\ MarksNested /\ Buffer

-----------------------------------------------------------------------------
\* Facts about sequences, in the form the steps below cite.
LEMMA SeqFacts ==
    ASSUME NEW S, NEW s \in Seq(S)
    PROVE  /\ Len(s) \in Nat
           /\ DOMAIN s = 1..Len(s)
           /\ \A i \in 1..Len(s) : s[i] \in S
           /\ s = <<>> <=> Len(s) = 0
  BY EmptySeq, LenProperties, ElementOfSeq

\* A prefix of a sequence.
LEMMA SubSeqFacts ==
    ASSUME NEW S, NEW s \in Seq(S), NEW n \in Nat, n <= Len(s)
    PROVE  /\ SubSeq(s, 1, n) \in Seq(S)
           /\ Len(SubSeq(s, 1, n)) = n
           /\ \A i \in 1..n : SubSeq(s, 1, n)[i] = s[i]
OBVIOUS

\* A sequence and one element more.
LEMMA AppendFacts ==
    ASSUME NEW S, NEW s \in Seq(S), NEW e \in S
    PROVE  /\ Append(s, e) \in Seq(S)
           /\ Len(Append(s, e)) = Len(s) + 1
           /\ \A i \in 1..Len(s) : Append(s, e)[i] = s[i]
           /\ Append(s, e)[Len(s) + 1] = e
           /\ Append(s, e) # <<>>
OBVIOUS

\* Two sequences, one behind the other.
LEMMA ConcatFacts ==
    ASSUME NEW S, NEW s \in Seq(S), NEW t \in Seq(S)
    PROVE  /\ s \o t \in Seq(S)
           /\ Len(s \o t) = Len(s) + Len(t)
           /\ \A i \in 1..Len(s) : (s \o t)[i] = s[i]
           /\ \A i \in 1..Len(t) : (s \o t)[Len(s) + i] = t[i]
OBVIOUS

\* A sequence without its first element.
LEMMA TailFacts ==
    ASSUME NEW S, NEW s \in Seq(S), s # <<>>
    PROVE  /\ Tail(s) \in Seq(S)
           /\ Len(Tail(s)) = Len(s) - 1
           /\ Len(s) >= 1
           /\ Head(s) = s[1]
           /\ \A i \in 1..Len(Tail(s)) : Tail(s)[i] = s[i + 1]
  BY EmptySeq, LenProperties, HeadTailProperties

\* A sequence without its last element.
LEMMA FrontFacts ==
    ASSUME NEW S, NEW s \in Seq(S), s # <<>>
    PROVE  /\ Front(s) \in Seq(S)
           /\ Len(Front(s)) = Len(s) - 1
           /\ Len(s) >= 1
           /\ Last(s) = s[Len(s)]
           /\ Last(s) \in S
           /\ \A i \in 1..Len(Front(s)) : Front(s)[i] = s[i]
  <1>1. Len(s) \in Nat /\ Len(s) >= 1
    BY SeqFacts
  <1>2. s[Len(s)] \in S
    BY <1>1, SeqFacts
  <1>3. Len(s) - 1 \in Nat /\ Len(s) - 1 <= Len(s)
    BY <1>1
  <1>4. /\ SubSeq(s, 1, Len(s) - 1) \in Seq(S)
        /\ Len(SubSeq(s, 1, Len(s) - 1)) = Len(s) - 1
        /\ \A i \in 1..(Len(s) - 1) : SubSeq(s, 1, Len(s) - 1)[i] = s[i]
    BY <1>3, SubSeqFacts
  <1> QED
    BY <1>1, <1>2, <1>4 DEF Front, Last

\* The committed log is the first Base rows of the table.
LEMMA CommittedIs ==
    ASSUME TypeOK, MarksNested
    PROVE  /\ Base \in Nat
           /\ Base <= Len(table)
           /\ Committed \in Seq(Events)
           /\ Len(Committed) = Base
           /\ \A i \in 1..Base : Committed[i] = table[i]
  <1>0. table \in Seq(Events) /\ Len(table) \in Nat
    BY SeqFacts DEF TypeOK
  <1>1. CASE marks = <<>>
    BY <1>0, <1>1 DEF Base, Committed
  <1>2. CASE marks # <<>>
    <2>0. 1 \in 1..Len(marks)
      BY <1>2, SeqFacts DEF TypeOK
    <2>1. marks[1].rows \in Nat /\ marks[1].rows <= Len(table)
      <3>1. marks[1] \in [rows: Nat, frames: Nat]
        BY <2>0, SeqFacts DEF TypeOK
      <3> QED
        BY <2>0, <3>1 DEF MarksNested
    <2> QED
      BY <1>0, <1>2, <2>1, SubSeqFacts DEF Base, Committed
  <1> QED
    BY <1>1, <1>2

\* A function on 1..n is a sequence of length n.
LEMMA SeqIsFcn ==
    ASSUME NEW S, NEW n \in Nat, NEW f \in [1..n -> S]
    PROVE  f \in Seq(S) /\ Len(f) = n
OBVIOUS

\* What is left of a sequence behind its first k elements.
LEMMA SuffixFacts ==
    ASSUME NEW S, NEW s \in Seq(S), NEW k \in Nat, k <= Len(s)
    PROVE  /\ SubSeq(s, 1 + k, Len(s)) \in Seq(S)
           /\ Len(SubSeq(s, 1 + k, Len(s))) = Len(s) - k
           /\ \A i \in 1..(Len(s) - k) : SubSeq(s, 1 + k, Len(s))[i] = s[k + i]
OBVIOUS

\* What pushTo keeps of some frames is a suffix of them.
LEMMA FreshFacts ==
    ASSUME NEW frames \in Seq(Frame), NEW n \in Nat
    PROVE  \E k \in Nat :
             /\ k <= Len(frames)
             /\ k = Cardinality({i \in DOMAIN frames : frames[i].id <= n})
             /\ Fresh(frames, n) \in Seq(Frame)
             /\ Len(Fresh(frames, n)) = Len(frames) - k
             /\ \A i \in 1..(Len(frames) - k) : Fresh(frames, n)[i] = frames[k + i]
  <1> DEFINE D == {i \in DOMAIN frames : frames[i].id <= n}
             k == Cardinality(D)
  <1>1. Len(frames) \in Nat /\ DOMAIN frames = 1..Len(frames)
    BY SeqFacts
  <1>2. IsFiniteSet(1..Len(frames)) /\ Cardinality(1..Len(frames)) = Len(frames)
    <2>1. Cardinality(1..Len(frames)) = IF 1 > Len(frames) THEN 0 ELSE Len(frames) - 1 + 1
      BY <1>1, FS_Interval
    <2> QED
      BY <1>1, <2>1, FS_Interval
  <1>3. D \subseteq 1..Len(frames)
    BY <1>1
  <1>4. k \in Nat /\ k <= Len(frames)
    BY <1>2, <1>3, FS_Subset, FS_CardinalityType
  <1> HIDE DEF k
  <1>5. /\ SubSeq(frames, 1 + k, Len(frames)) \in Seq(Frame)
        /\ Len(SubSeq(frames, 1 + k, Len(frames))) = Len(frames) - k
        /\ \A i \in 1..(Len(frames) - k) :
              SubSeq(frames, 1 + k, Len(frames))[i] = frames[k + i]
    BY <1>4, SuffixFacts
  <1>6. Fresh(frames, n) = SubSeq(frames, 1 + k, Len(frames))
    BY DEF Fresh, k
  <1> QED
    BY <1>4, <1>5, <1>6 DEF k

-----------------------------------------------------------------------------
\* The committed log stays.
Kept == Base' = Base /\ \A i \in 1..Base : table'[i] = table[i]

\* A run() begins: its mark is where table and buffer stand.
LEMMA BeginKeeps ==
    ASSUME WInv, Begin
    PROVE  WInv' /\ Kept
  <1> DEFINE m == [rows |-> Len(table), frames |-> Len(buffered)]
  <1> USE DEF WInv
  <1>1. /\ Base \in Nat /\ Base <= Len(table)
        /\ Len(table) \in Nat /\ Len(buffered) \in Nat /\ Len(marks) \in Nat
    BY CommittedIs, SeqFacts DEF TypeOK
  <1>2. /\ marks' \in Seq([rows: Nat, frames: Nat])
        /\ Len(marks') = Len(marks) + 1
        /\ \A i \in 1..Len(marks) : marks'[i] = marks[i]
        /\ marks'[Len(marks) + 1] = m
        /\ marks' # <<>>
    <2>1. marks \in Seq([rows: Nat, frames: Nat]) /\ m \in [rows: Nat, frames: Nat]
      BY <1>1 DEF TypeOK
    <2>2. marks' = Append(marks, m)
      BY DEF Begin
    <2> DEFINE Marks == [rows: Nat, frames: Nat]
    <2>3. marks \in Seq(Marks) /\ m \in Marks
      BY <2>1
    <2> HIDE DEF m, Marks, WInv
    <2>4. /\ Append(marks, m) \in Seq(Marks)
          /\ Len(Append(marks, m)) = Len(marks) + 1
          /\ \A i \in 1..Len(marks) : Append(marks, m)[i] = marks[i]
          /\ Append(marks, m)[Len(marks) + 1] = m
          /\ Append(marks, m) # <<>>
      BY <2>3, AppendFacts
    <2>5. /\ marks' \in Seq(Marks)
          /\ Len(marks') = Len(marks) + 1
          /\ \A i \in 1..Len(marks) : marks'[i] = marks[i]
          /\ marks'[Len(marks) + 1] = m
          /\ marks' # <<>>
      BY <2>2, <2>4, Zenon
    <2> QED
      BY <2>5 DEF Marks
  <1>3. UNCHANGED <<table, buffered, sub, wire, page, got, skipped, faults>>
    BY DEF Begin, stream
  <1>4. TypeOK'
    BY <1>2, <1>3 DEF TypeOK
  <1>5. marks'[1].rows = Base
    <2>1. CASE marks = <<>>
      BY <1>2, <2>1, SeqFacts DEF TypeOK, Base
    <2>2. CASE marks # <<>>
      <3>1. 1 \in 1..Len(marks)
        BY <2>2, SeqFacts DEF TypeOK
      <3> QED
        BY <1>2, <2>2, <3>1 DEF Base
    <2> QED
      BY <2>1, <2>2
  <1>6. Kept
    BY <1>2, <1>3, <1>5 DEF Kept, Base
  <1>7. Buffer'
    BY <1>3, <1>6 DEF Buffer, Kept
  <1>8. \A i \in 1..Len(marks) : marks[i] \in [rows: Nat, frames: Nat]
    BY SeqFacts DEF TypeOK
  <1>9. MarksNested'
    <2>1. \A i \in 1..Len(marks) : marks # <<>>
      BY SeqFacts DEF TypeOK
    <2>2. Len(buffered) = Len(table) - Base
      BY DEF Buffer
    <2>3. ASSUME NEW i \in 1..Len(marks')
          PROVE  /\ marks'[1].rows <= marks'[i].rows
                 /\ marks'[i].rows <= Len(table')
                 /\ marks'[i].frames = marks'[i].rows - marks'[1].rows
      <3>1. CASE i \in 1..Len(marks)
        BY <1>2, <1>3, <1>5, <2>1, <3>1 DEF MarksNested, Base
      <3>2. CASE i = Len(marks) + 1
        BY <1>1, <1>2, <1>3, <1>5, <2>2, <3>2
      <3> QED
        BY <1>1, <1>2, <3>1, <3>2
    <2>4. ASSUME NEW i \in 1..Len(marks'), NEW j \in 1..Len(marks'), i <= j
          PROVE  marks'[i].rows <= marks'[j].rows
      <3>1. CASE j \in 1..Len(marks)
        <4>1. i \in 1..Len(marks)
          BY <1>1, <2>4, <3>1
        <4> QED
          BY <1>2, <2>4, <3>1, <4>1 DEF MarksNested
      <3>2. CASE j = Len(marks) + 1
        BY <1>2, <1>3, <2>3, <3>2
      <3> QED
        BY <1>1, <1>2, <3>1, <3>2
    <2> QED
      BY <1>2, <2>3, <2>4 DEF MarksNested
  <1> QED
    BY <1>4, <1>6, <1>7, <1>9

\* An event is appended: the row and its frame carry the same seq.
LEMMA AppendKeeps ==
    ASSUME WInv, NEW e \in Events, AppendEvent(e)
    PROVE  WInv' /\ Kept
  <1> DEFINE f == [id |-> Len(table) + 1, ev |-> e]
  <1> USE DEF WInv
  <1>1. /\ Base \in Nat /\ Base <= Len(table)
        /\ Len(table) \in Nat /\ Len(buffered) \in Nat /\ Len(marks) \in Nat
    BY CommittedIs, SeqFacts DEF TypeOK
  <1>2. /\ table' \in Seq(Events)
        /\ Len(table') = Len(table) + 1
        /\ \A i \in 1..Len(table) : table'[i] = table[i]
        /\ table'[Len(table) + 1] = e
    <2>1. table' = Append(table, e) /\ table \in Seq(Events)
      BY DEF AppendEvent, TypeOK
    <2> QED
      BY <2>1, AppendFacts
  <1>3. /\ buffered' \in Seq(Frame)
        /\ Len(buffered') = Len(buffered) + 1
        /\ \A i \in 1..Len(buffered) : buffered'[i] = buffered[i]
        /\ buffered'[Len(buffered) + 1] = f
    <2>1. buffered' = Append(buffered, f) /\ buffered \in Seq(Frame)
      BY DEF AppendEvent, TypeOK
    <2>2. f \in Frame
      BY <1>1 DEF Frame
    <2> QED
      BY <2>1, <2>2, AppendFacts
  <1>4. marks # <<>> /\ UNCHANGED <<marks, sub, wire, page, got, skipped, faults>>
    BY DEF AppendEvent, stream
  <1>5. TypeOK'
    BY <1>2, <1>3, <1>4 DEF TypeOK
  <1>6. Kept
    BY <1>1, <1>2, <1>4 DEF Kept, Base
  <1>7. Buffer'
    <2>1. Len(buffered) = Len(table) - Base
      BY DEF Buffer
    <2>2. ASSUME NEW i \in 1..Len(buffered')
          PROVE  buffered'[i].id = Base + i /\ buffered'[i].ev = table'[Base + i]
      <3>1. CASE i \in 1..Len(buffered)
        <4>1. Base + i \in 1..Len(table)
          BY <1>1, <2>1, <3>1
        <4> QED
          BY <1>2, <1>3, <3>1, <4>1 DEF Buffer
      <3>2. CASE i = Len(buffered) + 1
        <4>1. Base + i = Len(table) + 1
          BY <1>1, <2>1, <3>2
        <4> QED
          BY <1>2, <1>3, <3>2, <4>1
      <3> QED
        BY <1>1, <1>3, <3>1, <3>2
    <2> QED
      BY <1>1, <1>2, <1>3, <1>6, <2>1, <2>2 DEF Buffer, Kept
  <1>8. \A i \in 1..Len(marks) : marks[i] \in [rows: Nat, frames: Nat]
    BY SeqFacts DEF TypeOK
  <1>9. MarksNested'
    BY <1>1, <1>2, <1>4, <1>8 DEF MarksNested
  <1> QED
    BY <1>5, <1>6, <1>7, <1>9

\* What the mark of an open run() says.
LEMMA MarkFacts ==
    ASSUME WInv, marks # <<>>
    PROVE  /\ Len(marks) \in Nat /\ Len(marks) >= 1
           /\ \A i \in 1..Len(marks) : marks[i] \in [rows: Nat, frames: Nat]
           /\ Base = marks[1].rows
           /\ Last(marks) = marks[Len(marks)]
           /\ Last(marks).rows \in Base..Len(table)
           /\ Last(marks).frames = Last(marks).rows - Base
           /\ Last(marks).frames \in 0..Len(buffered)
           /\ Front(marks) \in Seq([rows: Nat, frames: Nat])
           /\ Len(Front(marks)) = Len(marks) - 1
           /\ \A i \in 1..(Len(marks) - 1) : Front(marks)[i] = marks[i]
  <1> USE DEF WInv
  <1>1. /\ Base \in Nat /\ Base <= Len(table)
        /\ Len(table) \in Nat /\ Len(buffered) \in Nat /\ Len(marks) \in Nat
        /\ \A i \in 1..Len(marks) : marks[i] \in [rows: Nat, frames: Nat]
    BY CommittedIs, SeqFacts DEF TypeOK
  <1>2. /\ Front(marks) \in Seq([rows: Nat, frames: Nat])
        /\ Len(Front(marks)) = Len(marks) - 1
        /\ Len(marks) >= 1
        /\ Last(marks) = marks[Len(marks)]
        /\ \A i \in 1..Len(Front(marks)) : Front(marks)[i] = marks[i]
    BY FrontFacts DEF TypeOK
  <1>3. Base = marks[1].rows
    BY DEF Base
  <1>4. Len(marks) \in 1..Len(marks)
    BY <1>1, <1>2
  <1>5. /\ Base <= Last(marks).rows
        /\ Last(marks).rows <= Len(table)
        /\ Last(marks).frames = Last(marks).rows - Base
        /\ Last(marks).rows \in Nat
    BY <1>1, <1>2, <1>3, <1>4 DEF MarksNested
  <1>6. Len(buffered) = Len(table) - Base
    BY DEF Buffer
  <1>7. /\ Last(marks).rows \in Base..Len(table)
        /\ Last(marks).frames \in 0..Len(buffered)
    BY <1>1, <1>5, <1>6
  <1>8. \A i \in 1..(Len(marks) - 1) : Front(marks)[i] = marks[i]
    BY <1>2
  <1> QED
    BY <1>1, <1>2, <1>3, <1>5, <1>7, <1>8

\* A run() throws: rows and frames go back together.
LEMMA FailKeeps ==
    ASSUME WInv, Fail
    PROVE  WInv' /\ Kept
  <1> USE DEF WInv
  <1> DEFINE r == Last(marks).rows
             k == Last(marks).frames
  <1>1. marks # <<>> /\ marks' = Front(marks)
        /\ table' = SubSeq(table, 1, r)
        /\ buffered' = SubSeq(buffered, 1, k)
        /\ UNCHANGED <<sub, wire, page, got, skipped, faults>>
    BY DEF Fail, stream
  <1>2. /\ Base \in Nat /\ Base <= Len(table)
        /\ Len(table) \in Nat /\ Len(buffered) \in Nat
        /\ Len(buffered) = Len(table) - Base
    BY CommittedIs, SeqFacts DEF TypeOK, Buffer
  <1>3. r \in Nat /\ r >= Base /\ r <= Len(table) /\ k = r - Base /\ k \in Nat
        /\ k <= Len(buffered)
    BY <1>1, <1>2, MarkFacts
  <1> HIDE DEF r, k
  <1>4. /\ table' \in Seq(Events)
        /\ Len(table') = r
        /\ \A i \in 1..r : table'[i] = table[i]
    BY <1>1, <1>3, SubSeqFacts DEF TypeOK
  <1>5. /\ buffered' \in Seq(Frame)
        /\ Len(buffered') = k
        /\ \A i \in 1..k : buffered'[i] = buffered[i]
    BY <1>1, <1>3, SubSeqFacts DEF TypeOK
  <1>6. /\ Len(marks) \in Nat /\ Len(marks) >= 1
        /\ marks' \in Seq([rows: Nat, frames: Nat])
        /\ Len(marks') = Len(marks) - 1
        /\ \A i \in 1..Len(marks') : marks'[i] = marks[i]
        /\ \A i \in 1..Len(marks) : marks[i] \in [rows: Nat, frames: Nat]
        /\ r = marks[Len(marks)].rows
        /\ Base = marks[1].rows
        /\ marks' = <<>> <=> Len(marks) = 1
    <2>1. /\ Len(marks) \in Nat /\ Len(marks) >= 1
          /\ marks' \in Seq([rows: Nat, frames: Nat])
          /\ Len(marks') = Len(marks) - 1
      BY <1>1, MarkFacts
    <2>2. marks' = <<>> <=> Len(marks') = 0
      BY <2>1, SeqFacts
    <2>3. /\ \A i \in 1..Len(marks') : marks'[i] = marks[i]
          /\ \A i \in 1..Len(marks) : marks[i] \in [rows: Nat, frames: Nat]
      BY <1>1, MarkFacts
    <2>4. r = marks[Len(marks)].rows /\ Base = marks[1].rows
      BY <1>1, MarkFacts DEF r
    <2> QED
      BY <2>1, <2>2, <2>3, <2>4
  <1>7. TypeOK'
    BY <1>1, <1>4, <1>5, <1>6 DEF TypeOK
  <1>8. Base' = Base
    <2>1. CASE Len(marks) = 1
      BY <1>4, <1>6, <2>1 DEF Base
    <2>2. CASE Len(marks) # 1
      <3>1. 1 \in 1..Len(marks') /\ marks' # <<>>
        BY <1>6, <2>2
      <3>2. marks'[1] = marks[1]
        BY <1>6, <3>1
      <3> QED
        BY <1>1, <3>1, <3>2 DEF Base
    <2> QED
      BY <2>1, <2>2
  <1>9. Kept
    BY <1>2, <1>3, <1>4, <1>8 DEF Kept
  <1>10. Buffer'
    <2>1. ASSUME NEW i \in 1..k
          PROVE  buffered'[i].id = Base + i /\ buffered'[i].ev = table'[Base + i]
      <3>1. Base + i \in 1..r /\ i \in 1..Len(buffered)
        BY <1>2, <1>3
      <3> QED
        BY <1>4, <1>5, <3>1 DEF Buffer
    <2> QED
      BY <1>3, <1>4, <1>5, <1>8, <2>1 DEF Buffer
  <1>11. MarksNested'
    <2>1. \A i \in 1..Len(marks') :
            /\ i \in 1..Len(marks) /\ 1 \in 1..Len(marks')
            /\ i <= Len(marks) /\ Len(marks) \in 1..Len(marks)
      BY <1>6
    <2>2. \A i \in 1..Len(marks') :
            /\ marks'[1].rows <= marks'[i].rows
            /\ marks'[i].rows <= Len(table')
            /\ marks'[i].frames = marks'[i].rows - marks'[1].rows
      BY <1>4, <1>6, <2>1 DEF MarksNested
    <2>3. \A i, j \in 1..Len(marks') : i <= j => marks'[i].rows <= marks'[j].rows
      BY <1>6, <2>1 DEF MarksNested
    <2>4. marks' = <<>> => buffered' = <<>>
      <3> SUFFICES ASSUME marks' = <<>> PROVE buffered' = <<>>
        OBVIOUS
      <3>0. Len(marks) = 1
        BY <1>6
      <3>1. k = 0
        <4>1. r = Base
          BY <1>6, <3>0
        <4> QED
          BY <1>2, <1>3, <4>1
      <3> QED
        BY <1>5, <3>1, SeqFacts
    <2> QED
      BY <2>2, <2>3, <2>4 DEF MarksNested
  <1> QED
    BY <1>7, <1>9, <1>10, <1>11

\* What publishing sends one client: a suffix of the frames, if it is connected.
LEMMA PublishFacts ==
    ASSUME TypeOK, Publish(buffered), NEW c \in Clients
    PROVE  /\ sub[c].on \in BOOLEAN /\ sub[c].lastSent \in Nat
           /\ sub' \in [Clients -> [on: BOOLEAN, lastSent: Nat]]
           /\ wire' \in [Clients -> Seq(Frame)]
           /\ UNCHANGED <<page, got, skipped>>
           /\ sub'[c].on = sub[c].on
           /\ ~sub[c].on => wire'[c] = wire[c] /\ sub'[c] = sub[c]
           /\ sub[c].on =>
                /\ wire'[c] = wire[c] \o Fresh(buffered, sub[c].lastSent)
                /\ sub'[c].lastSent = SentUpTo(buffered, sub[c].lastSent)
  <1>1. \A d \in Clients :
          /\ sub[d] \in [on: BOOLEAN, lastSent: Nat]
          /\ wire[d] \in Seq(Frame)
          /\ Fresh(buffered, sub[d].lastSent) \in Seq(Frame)
          /\ SentUpTo(buffered, sub[d].lastSent) \in Nat
    <2> TAKE d \in Clients
    <2>1. sub[d] \in [on: BOOLEAN, lastSent: Nat] /\ wire[d] \in Seq(Frame)
          /\ buffered \in Seq(Frame)
      BY DEF TypeOK
    <2> DEFINE n == sub[d].lastSent
               F == Fresh(buffered, n)
    <2>2. n \in Nat
      BY <2>1
    <2>3. F \in Seq(Frame)
      BY <2>1, <2>2, FreshFacts
    <2>4. SentUpTo(buffered, n) \in Nat
      <3>1. CASE F = <<>>
        BY <2>2, <3>1 DEF SentUpTo
      <3>2. CASE F # <<>>
        <4>1. Len(F) \in 1..Len(F)
          BY <2>3, <3>2, SeqFacts
        <4>2. F[Len(F)] \in Frame
          BY <2>3, <4>1, SeqFacts
        <4> QED
          BY <3>2, <4>2 DEF SentUpTo, Frame
      <3> QED
        BY <3>1, <3>2
    <2> QED
      BY <2>1, <2>3, <2>4
  <1>2. \A d \in Clients :
          wire'[d] = IF sub[d].on THEN wire[d] \o Fresh(buffered, sub[d].lastSent)
                     ELSE wire[d]
    BY DEF Publish
  <1>3. \A d \in Clients :
          sub'[d] = IF sub[d].on
                    THEN [sub[d] EXCEPT !.lastSent =
                             SentUpTo(buffered, sub[d].lastSent)]
                    ELSE sub[d]
    BY DEF Publish
  <1>4. \A d \in Clients : wire'[d] \in Seq(Frame)
    <2> TAKE d \in Clients
    <2>1. wire[d] \o Fresh(buffered, sub[d].lastSent) \in Seq(Frame)
      BY <1>1, ConcatFacts
    <2> QED
      BY <1>1, <1>2, <2>1
  <1>5. \A d \in Clients :
          /\ sub'[d] \in [on: BOOLEAN, lastSent: Nat]
          /\ sub'[d].on = sub[d].on
          /\ sub[d].on => sub'[d].lastSent = SentUpTo(buffered, sub[d].lastSent)
    BY <1>1, <1>3
  <1>6. wire' \in [Clients -> Seq(Frame)]
    BY <1>4 DEF Publish
  <1>7. sub' \in [Clients -> [on: BOOLEAN, lastSent: Nat]]
    BY <1>5 DEF Publish
  <1>8. UNCHANGED <<page, got, skipped>>
    BY DEF Publish
  <1> QED
    BY <1>1, <1>2, <1>3, <1>5, <1>6, <1>7, <1>8

\* The outermost run() returns: it commits its rows.
LEMMA OuterFinishKeeps ==
    ASSUME WInv, Finish, Len(marks) = 1
    PROVE  /\ WInv'
           /\ table' = table /\ marks' = <<>> /\ Base' = Len(table)
           /\ Publish(buffered) /\ UNCHANGED faults
  <1> USE DEF WInv
  <1>1. /\ marks # <<>> /\ marks' = Front(marks) /\ buffered' = <<>>
        /\ Publish(buffered) /\ UNCHANGED <<table, faults>>
    BY DEF Finish
  <1>2. marks' \in Seq([rows: Nat, frames: Nat]) /\ Len(marks') = 0
    BY <1>1, MarkFacts
  <1>3. marks' = <<>>
    BY <1>2, SeqFacts
  <1>4. Len(table) \in Nat /\ Len(buffered') = 0
    BY <1>1, SeqFacts DEF TypeOK
  <1>5. Base' = Len(table)
    BY <1>1, <1>3 DEF Base
  <1>6. TypeOK'
    <2>1. /\ page' \in [Clients -> Seq(Frame)]
          /\ got' \in [Clients -> Seq(Frame)]
          /\ skipped' \in [Clients -> SUBSET Nat]
      BY <1>1 DEF TypeOK, Publish
    <2>2. /\ sub' \in [Clients -> [on: BOOLEAN, lastSent: Nat]]
          /\ wire' \in [Clients -> Seq(Frame)]
      <3>1. CASE Clients = {}
        BY <1>1, <3>1 DEF Publish
      <3>2. CASE Clients # {}
        BY <1>1, <3>2, PublishFacts
      <3> QED
        BY <3>1, <3>2
    <2> QED
      BY <1>1, <1>2, <2>1, <2>2 DEF TypeOK
  <1>7. Buffer'
    BY <1>1, <1>4, <1>5 DEF Buffer
  <1>8. MarksNested'
    BY <1>1, <1>2, <1>3 DEF MarksNested
  <1> QED
    BY <1>1, <1>3, <1>5, <1>6, <1>7, <1>8

\* A nested run() returns: its rows and frames become its caller's.
LEMMA InnerFinishKeeps ==
    ASSUME WInv, Finish, Len(marks) # 1
    PROVE  WInv' /\ Kept /\ UNCHANGED stream
  <1> USE DEF WInv
  <1>1. /\ marks # <<>> /\ marks' = Front(marks)
        /\ UNCHANGED <<table, buffered, sub, wire, page, got, skipped, faults>>
    BY DEF Finish, stream
  <1>2. /\ Len(marks) \in Nat /\ Len(marks) > 1
        /\ marks' \in Seq([rows: Nat, frames: Nat])
        /\ Len(marks') = Len(marks) - 1
        /\ \A i \in 1..Len(marks') : marks'[i] = marks[i]
    <2>1. /\ Len(marks) \in Nat /\ Len(marks) >= 1
          /\ marks' \in Seq([rows: Nat, frames: Nat])
          /\ Len(marks') = Len(marks) - 1
      BY <1>1, MarkFacts
    <2>2. \A i \in 1..(Len(marks) - 1) : marks'[i] = marks[i]
      BY <1>1, MarkFacts
    <2> QED
      BY <2>1, <2>2
  <1>3. marks' # <<>>
    BY <1>2, SeqFacts
  <1>4. marks'[1] = marks[1]
    BY <1>2
  <1>5. Base' = Base
    BY <1>1, <1>3, <1>4 DEF Base
  <1>6. Kept
    BY <1>1, <1>5 DEF Kept
  <1>7. TypeOK'
    BY <1>1, <1>2 DEF TypeOK
  <1>8. Buffer'
    BY <1>1, <1>5 DEF Buffer
  <1>9. MarksNested'
    <2>1. \A i \in 1..Len(marks') : i \in 1..Len(marks)
      BY <1>2
    <2> QED
      BY <1>1, <1>2, <1>3, <1>4, <2>1 DEF MarksNested
  <1> QED
    BY <1>1, <1>6, <1>7, <1>8, <1>9 DEF stream

\* The process dies: the open transaction is gone, what was committed is not.
LEMMA CrashKeeps ==
    ASSUME WInv, Crash
    PROVE  WInv' /\ Kept /\ UNCHANGED <<wire, page, got, skipped>>
  <1> USE DEF WInv
  <1>1. /\ faults < MaxFaults /\ faults' = faults + 1
        /\ table' = Committed /\ marks' = <<>> /\ buffered' = <<>>
        /\ sub' = [c \in Clients |-> NoSub]
        /\ UNCHANGED <<wire, page, got, skipped>>
    BY DEF Crash
  <1>2. /\ Base \in Nat /\ Committed \in Seq(Events) /\ Len(Committed) = Base
        /\ \A i \in 1..Base : Committed[i] = table[i]
    BY CommittedIs
  <1>3. Base' = Base
    BY <1>1, <1>2 DEF Base
  <1>4. Len(marks') = 0 /\ Len(buffered') = 0
    BY <1>1
  <1>5. TypeOK'
    <2>1. faults' \in 0..MaxFaults
      BY <1>1, LedgerBounds DEF TypeOK
    <2> QED
      BY <1>1, <1>2, <2>1 DEF TypeOK, NoSub
  <1>6. Buffer'
    BY <1>1, <1>2, <1>3, <1>4 DEF Buffer
  <1>7. MarksNested'
    BY <1>1, <1>4 DEF MarksNested
  <1>8. Kept
    BY <1>1, <1>2, <1>3 DEF Kept
  <1> QED
    BY <1>1, <1>5, <1>6, <1>7, <1>8

-----------------------------------------------------------------------------
\* A frame that says what a committed row says.
RowOf(f) == f.id \in 1..Base /\ f.ev = table[f.id]

\* Nobody was sent anything but committed rows.
Sent ==
    \A c \in Clients :
        /\ \A i \in 1..Len(wire[c]) : RowOf(wire[c][i])
        /\ \A i \in 1..Len(page[c]) : RowOf(page[c][i])
        /\ \A i \in 1..Len(got[c]) : RowOf(got[c][i])

\* Frames that say committed rows, one list behind the other.
LEMMA ConcatRows ==
    ASSUME NEW s \in Seq(Frame), NEW t \in Seq(Frame),
           \A i \in 1..Len(s) : RowOf(s[i]),
           \A i \in 1..Len(t) : RowOf(t[i])
    PROVE  s \o t \in Seq(Frame) /\ \A i \in 1..Len(s \o t) : RowOf((s \o t)[i])
  <1>1. /\ s \o t \in Seq(Frame)
        /\ Len(s \o t) = Len(s) + Len(t)
        /\ \A i \in 1..Len(s) : (s \o t)[i] = s[i]
        /\ \A i \in 1..Len(t) : (s \o t)[Len(s) + i] = t[i]
    BY ConcatFacts
  <1>2. Len(s) \in Nat /\ Len(t) \in Nat
    BY SeqFacts
  <1>3. ASSUME NEW i \in 1..Len(s \o t)
        PROVE  RowOf((s \o t)[i])
    <2>1. CASE i \in 1..Len(s)
      BY <1>1, <2>1
    <2>2. CASE i > Len(s)
      <3>1. i - Len(s) \in 1..Len(t) /\ i = Len(s) + (i - Len(s))
        BY <1>1, <1>2, <2>2
      <3> QED
        BY <1>1, <3>1
    <2> QED
      BY <1>1, <1>2, <2>1, <2>2
  <1> QED
    BY <1>1, <1>3

\* Sent is FramesAreCommitted, in terms of the table.
LEMMA SentIsFramesAreCommitted ==
    ASSUME WInv, Sent
    PROVE  FramesAreCommitted
  <1>1. /\ Len(Committed) = Base
        /\ \A i \in 1..Base : Committed[i] = table[i]
    BY CommittedIs DEF WInv
  <1>2. \A c \in Clients :
          /\ DOMAIN wire[c] = 1..Len(wire[c])
          /\ DOMAIN page[c] = 1..Len(page[c])
          /\ DOMAIN got[c] = 1..Len(got[c])
    BY SeqFacts DEF WInv, TypeOK
  <1>3. \A f : RowOf(f) => IsRow(f)
    BY <1>1 DEF RowOf, IsRow
  <1> QED
    BY <1>2, <1>3 DEF Sent, FramesAreCommitted

\* Buffer is BufferIsTheTransaction, in terms of the table.
LEMMA BufferIsBuffer ==
    ASSUME WInv
    PROVE  BufferIsTheTransaction
  <1>1. Len(Committed) = Base
    BY CommittedIs DEF WInv
  <1>2. /\ DOMAIN buffered = 1..Len(buffered)
        /\ \A i \in 1..Len(buffered) : buffered[i] \in [id: Nat, ev: Events]
    BY SeqFacts DEF WInv, TypeOK, Frame
  <1>3. ASSUME NEW i \in 1..Len(buffered)
        PROVE  buffered[i] = [id |-> Base + i, ev |-> table[Base + i]]
    BY <1>2 DEF WInv, Buffer
  <1> QED
    BY <1>1, <1>2, <1>3 DEF WInv, Buffer, BufferIsTheTransaction

\* A row that was committed stays what it was.
Grown == Base' \in Nat /\ Base <= Base' /\ \A i \in 1..Base : table'[i] = table[i]

\* A log that stays the same has grown by nothing.
LEMMA KeptIsGrown ==
    ASSUME WInv, Kept
    PROVE  Grown
  BY CommittedIs DEF WInv, Kept, Grown

\* A frame that said a committed row says it still.
LEMMA RowStays ==
    ASSUME WInv, Grown, NEW f, RowOf(f)
    PROVE  f.id \in 1..Base' /\ f.ev = table'[f.id]
  <1>1. Base \in Nat
    BY CommittedIs DEF WInv
  <1> QED
    BY <1>1 DEF Grown, RowOf

\* What was sent before a step of the writer is committed after it.
LEMMA SentStays ==
    ASSUME WInv, Sent, Grown, UNCHANGED <<wire, page, got>>
    PROVE  Sent'
  <1> SUFFICES ASSUME NEW c \in Clients
               PROVE  /\ \A i \in 1..Len(wire[c]) : RowOf(wire[c][i])'
                      /\ \A i \in 1..Len(page[c]) : RowOf(page[c][i])'
                      /\ \A i \in 1..Len(got[c]) : RowOf(got[c][i])'
    BY DEF Sent
  <1>1. \A i \in 1..Len(wire[c]) : RowOf(wire[c][i])'
    BY RowStays DEF Sent, RowOf
  <1>2. \A i \in 1..Len(page[c]) : RowOf(page[c][i])'
    BY RowStays DEF Sent, RowOf
  <1>3. \A i \in 1..Len(got[c]) : RowOf(got[c][i])'
    BY RowStays DEF Sent, RowOf
  <1> QED
    BY <1>1, <1>2, <1>3

\* A client's cursor is a committed seq, or none.
LEMMA LastIdFacts ==
    ASSUME WInv, Sent, NEW c \in Clients
    PROVE  /\ LastId(c) \in 0..Base
           /\ LastId(c) \in Nat
           /\ Len(got[c]) > 0 => LastId(c) = got[c][Len(got[c])].id
           /\ Len(got[c]) = 0 => LastId(c) = 0
  <1>1. Base \in Nat /\ got[c] \in Seq(Frame)
    BY CommittedIs DEF WInv, TypeOK
  <1>2. Len(got[c]) \in Nat /\ (got[c] = <<>> <=> Len(got[c]) = 0)
    BY <1>1, SeqFacts
  <1>3. CASE Len(got[c]) = 0
    BY <1>1, <1>2, <1>3 DEF LastId
  <1>4. CASE Len(got[c]) > 0
    <2>1. Len(got[c]) \in 1..Len(got[c])
      BY <1>2, <1>4
    <2>2. RowOf(got[c][Len(got[c])])
      BY <2>1 DEF Sent
    <2>3. LastId(c) = got[c][Len(got[c])].id
      BY <1>2, <1>4 DEF LastId
    <2> QED
      BY <1>1, <1>4, <2>2, <2>3 DEF RowOf
  <1> QED
    BY <1>2, <1>3, <1>4

\* A page of the ledger: the rows from n + 1 on.
LEMMA FramesAfterFacts ==
    ASSUME WInv, NEW n \in Nat, n <= Len(table), NEW limit \in Nat
    PROVE  \E m \in Nat :
             /\ m = (IF n + limit < Len(table) THEN n + limit ELSE Len(table)) - n
             /\ FramesAfter(n, limit) \in Seq(Frame)
             /\ Len(FramesAfter(n, limit)) = m
             /\ n + m <= Len(table)
             /\ \A i \in 1..m : /\ FramesAfter(n, limit)[i].id = n + i
                                 /\ FramesAfter(n, limit)[i].ev = table[n + i]
  <1> DEFINE last == IF n + limit < Len(table) THEN n + limit ELSE Len(table)
             m == last - n
  <1>1. Len(table) \in Nat /\ \A i \in 1..Len(table) : table[i] \in Events
    BY SeqFacts DEF WInv, TypeOK
  <1>2. m \in Nat /\ n + m <= Len(table)
    BY <1>1
  <1>3. FramesAfter(n, limit) = [i \in 1..m |-> [id |-> n + i, ev |-> table[n + i]]]
    BY DEF FramesAfter
  <1> HIDE DEF m
  <1>4. FramesAfter(n, limit) \in [1..m -> Frame]
    <2>1. \A i \in 1..m : [id |-> n + i, ev |-> table[n + i]] \in Frame
      <3> TAKE i \in 1..m
      <3>1. n + i \in 1..Len(table)
        BY <1>1, <1>2
      <3> QED
        BY <1>1, <3>1 DEF Frame
    <2> QED
      BY <1>3, <2>1
  <1>5. FramesAfter(n, limit) \in Seq(Frame) /\ Len(FramesAfter(n, limit)) = m
    BY <1>2, <1>4, SeqIsFcn
  <1>6. \A i \in 1..m : /\ FramesAfter(n, limit)[i].id = n + i
                        /\ FramesAfter(n, limit)[i].ev = table[n + i]
    BY <1>3
  <1> QED
    BY <1>2, <1>5, <1>6 DEF m

\* A step of one client leaves the ledger alone and hands it committed rows only.
LEMMA ReaderKeeps ==
    ASSUME WInv, Sent, UNCHANGED ledger, faults' \in 0..MaxFaults, NEW c \in Clients,
           NEW s \in [on: BOOLEAN, lastSent: Nat], NEW w \in Seq(Frame),
           NEW p \in Seq(Frame), NEW g \in Seq(Frame),
           \A i \in 1..Len(w) : RowOf(w[i]),
           \A i \in 1..Len(p) : RowOf(p[i]),
           \A i \in 1..Len(g) : RowOf(g[i]),
           sub' = [sub EXCEPT ![c] = s], wire' = [wire EXCEPT ![c] = w],
           page' = [page EXCEPT ![c] = p], got' = [got EXCEPT ![c] = g],
           skipped' \in [Clients -> SUBSET Nat]
    PROVE  WInv' /\ Sent' /\ Kept
  <1>1. UNCHANGED <<table, marks, buffered>>
    BY DEF ledger
  <1>2. Base' = Base /\ Kept
    BY <1>1 DEF Base, Kept
  <1>3. TypeOK'
    BY <1>1 DEF WInv, TypeOK
  <1>4. MarksNested' /\ Buffer'
    BY <1>1, <1>2 DEF WInv, MarksNested, Buffer
  <1>5. Sent'
    <2> SUFFICES ASSUME NEW d \in Clients
                 PROVE  /\ \A i \in 1..Len(wire'[d]) : RowOf(wire[d][i])'
                        /\ \A i \in 1..Len(page'[d]) : RowOf(page[d][i])'
                        /\ \A i \in 1..Len(got'[d]) : RowOf(got[d][i])'
      BY DEF Sent
    <2>1. CASE d = c
      <3>1. wire'[d] = w /\ page'[d] = p /\ got'[d] = g
        BY <2>1 DEF WInv, TypeOK
      <3> QED
        BY <1>1, <1>2, <3>1 DEF RowOf
    <2>2. CASE d # c
      <3>1. wire'[d] = wire[d] /\ page'[d] = page[d] /\ got'[d] = got[d]
        BY <2>2 DEF WInv, TypeOK
      <3> QED
        BY <1>1, <1>2, <3>1 DEF RowOf, Sent
    <2> QED
      BY <2>1, <2>2
  <1> QED
    BY <1>2, <1>3, <1>4, <1>5 DEF WInv

\* What a client's step starts from.
LEMMA ClientFacts ==
    ASSUME WInv, Sent, NEW c \in Clients
    PROVE  /\ sub[c] \in [on: BOOLEAN, lastSent: Nat]
           /\ wire[c] \in Seq(Frame) /\ page[c] \in Seq(Frame) /\ got[c] \in Seq(Frame)
           /\ Len(wire[c]) \in Nat /\ Len(page[c]) \in Nat /\ Len(got[c]) \in Nat
           /\ \A i \in 1..Len(wire[c]) : RowOf(wire[c][i])
           /\ \A i \in 1..Len(page[c]) : RowOf(page[c][i])
           /\ \A i \in 1..Len(got[c]) : RowOf(got[c][i])
           /\ sub = [sub EXCEPT ![c] = sub[c]]
           /\ wire = [wire EXCEPT ![c] = wire[c]]
           /\ page = [page EXCEPT ![c] = page[c]]
           /\ got = [got EXCEPT ![c] = got[c]]
           /\ skipped \in [Clients -> SUBSET Nat]
           /\ faults \in 0..MaxFaults
  <1>1. /\ wire[c] \in Seq(Frame) /\ page[c] \in Seq(Frame) /\ got[c] \in Seq(Frame)
        /\ sub[c] \in [on: BOOLEAN, lastSent: Nat]
        /\ skipped \in [Clients -> SUBSET Nat]
        /\ faults \in 0..MaxFaults
    BY DEF WInv, TypeOK
  <1>2. Len(wire[c]) \in Nat /\ Len(page[c]) \in Nat /\ Len(got[c]) \in Nat
    BY <1>1, SeqFacts
  <1>3. /\ sub = [sub EXCEPT ![c] = sub[c]]
        /\ wire = [wire EXCEPT ![c] = wire[c]]
        /\ page = [page EXCEPT ![c] = page[c]]
        /\ got = [got EXCEPT ![c] = got[c]]
    BY DEF WInv, TypeOK
  <1> QED
    BY <1>1, <1>2, <1>3 DEF Sent

\* Between two run()s, a page of the ledger is committed rows.
LEMMA PageIsRows ==
    ASSUME WInv, Sent, marks = <<>>, NEW c \in Clients, NEW limit \in Nat
    PROVE  /\ FramesAfter(LastId(c), limit) \in Seq(Frame)
           /\ Len(FramesAfter(LastId(c), limit)) \in Nat
           /\ LastId(c) + Len(FramesAfter(LastId(c), limit)) <= Base
           /\ \/ LastId(c) + Len(FramesAfter(LastId(c), limit)) = Base
              \/ Len(FramesAfter(LastId(c), limit)) = limit
           /\ \A i \in 1..Len(FramesAfter(LastId(c), limit)) :
                /\ RowOf(FramesAfter(LastId(c), limit)[i])
                /\ FramesAfter(LastId(c), limit)[i].id = LastId(c) + i
  <1> DEFINE n == LastId(c)
             F == FramesAfter(n, limit)
  <1>1. Base = Len(table) /\ Base \in Nat
    BY CommittedIs DEF WInv, Base
  <1>2. n \in Nat /\ n <= Len(table)
    BY <1>1, LastIdFacts
  <1> HIDE DEF n
  <1>3. PICK m \in Nat :
          /\ m = (IF n + limit < Len(table) THEN n + limit ELSE Len(table)) - n
          /\ F \in Seq(Frame)
          /\ Len(F) = m
          /\ n + m <= Len(table)
          /\ \A i \in 1..m : F[i].id = n + i /\ F[i].ev = table[n + i]
    BY <1>2, FramesAfterFacts
  <1> HIDE DEF F
  <1>4. \A i \in 1..m : n + i \in 1..Base
    BY <1>1, <1>2, <1>3
  <1>5. \A i \in 1..Len(F) : RowOf(F[i]) /\ F[i].id = n + i
    BY <1>3, <1>4 DEF RowOf
  <1>6. n + m = Base \/ m = limit
    BY <1>1, <1>2, <1>3
  <1>7. n + Len(F) <= Base
    BY <1>1, <1>3
  <1> QED
    BY <1>3, <1>5, <1>6, <1>7 DEF n, F

\* A reconnect sends committed rows.
LEMMA ConnectKeeps ==
    ASSUME WInv, Sent, NEW c \in Clients, Connect(c)
    PROVE  WInv' /\ Sent' /\ Kept
  <1> DEFINE w == FramesAfter(LastId(c), BackfillLimit)
             s == [on |-> TRUE, lastSent |-> LastId(c) + Len(w)]
             k == {n \in skipped[c] : n <= LastId(c)}
                    \union (LastId(c) + BackfillLimit + 1 .. Len(table))
  <1>1. /\ w \in Seq(Frame) /\ Len(w) \in Nat
        /\ \A i \in 1..Len(w) : RowOf(w[i])
    <2>1. marks = <<>> /\ BackfillLimit \in Nat
      BY LedgerBounds DEF Connect
    <2> QED
      BY <2>1, PageIsRows
  <1>2. /\ UNCHANGED <<ledger, page, got, faults>>
        /\ wire' = [wire EXCEPT ![c] = w]
        /\ sub' = [sub EXCEPT ![c] = s]
        /\ skipped' = [skipped EXCEPT ![c] = k]
    BY DEF Connect, Skip, OutOfReach
  <1> HIDE DEF w
  <1>3. s \in [on: BOOLEAN, lastSent: Nat] /\ k \subseteq Nat
    <2>1. LastId(c) \in Nat /\ BackfillLimit \in Nat /\ Len(table) \in Nat
          /\ skipped[c] \subseteq Nat /\ skipped \in [Clients -> SUBSET Nat]
      BY LastIdFacts, LedgerBounds, ClientFacts, SeqFacts DEF WInv, TypeOK
    <2> QED
      BY <1>1, <2>1
  <1> HIDE DEF s, k
  <1>4. skipped' \in [Clients -> SUBSET Nat]
    BY <1>2, <1>3, ClientFacts
  <1>5. page' = [page EXCEPT ![c] = page[c]] /\ got' = [got EXCEPT ![c] = got[c]]
        /\ faults' \in 0..MaxFaults
    BY <1>2, ClientFacts
  <1> QED
    BY <1>1, <1>2, <1>3, <1>4, <1>5, ClientFacts, ReaderKeeps

\* A lost connection sends nothing.
LEMMA DropKeeps ==
    ASSUME WInv, Sent, NEW c \in Clients, Drop(c)
    PROVE  WInv' /\ Sent' /\ Kept
  <1>1. /\ faults < MaxFaults /\ faults' = faults + 1
        /\ UNCHANGED <<ledger, page, got, skipped>>
        /\ wire' = [wire EXCEPT ![c] = <<>>]
        /\ sub' = [sub EXCEPT ![c] = NoSub]
    BY DEF Drop
  <1>2. NoSub \in [on: BOOLEAN, lastSent: Nat]
    BY DEF NoSub
  <1>3. <<>> \in Seq(Frame) /\ Len(<<>>) = 0
    OBVIOUS
  <1>4. faults' \in 0..MaxFaults
    BY <1>1, LedgerBounds, ClientFacts
  <1>5. page' = [page EXCEPT ![c] = page[c]] /\ got' = [got EXCEPT ![c] = got[c]]
        /\ skipped' \in [Clients -> SUBSET Nat]
    BY <1>1, ClientFacts
  <1>6. \A i \in 1..0 : RowOf(<<>>[i])
    OBVIOUS
  <1> QED
    BY <1>1, <1>2, <1>3, <1>4, <1>5, <1>6, ClientFacts, ReaderKeeps

\* A poll answers with committed rows.
LEMMA PollKeeps ==
    ASSUME WInv, Sent, NEW c \in Clients, Poll(c)
    PROVE  WInv' /\ Sent' /\ Kept
  <1> DEFINE p == FramesAfter(LastId(c), PageLimit)
  <1>1. p \in Seq(Frame) /\ \A i \in 1..Len(p) : RowOf(p[i])
    <2>1. marks = <<>> /\ PageLimit \in Nat
      BY LedgerBounds DEF Poll
    <2> QED
      BY <2>1, PageIsRows
  <1>2. UNCHANGED <<ledger, sub, wire, got, skipped, faults>> /\ page' = [page EXCEPT ![c] = p]
    BY DEF Poll
  <1> HIDE DEF p
  <1>3. /\ sub' = [sub EXCEPT ![c] = sub[c]]
        /\ wire' = [wire EXCEPT ![c] = wire[c]]
        /\ got' = [got EXCEPT ![c] = got[c]]
        /\ skipped' \in [Clients -> SUBSET Nat]
        /\ faults' \in 0..MaxFaults
    BY <1>2, ClientFacts
  <1>4. /\ sub[c] \in [on: BOOLEAN, lastSent: Nat]
        /\ wire[c] \in Seq(Frame) /\ got[c] \in Seq(Frame)
        /\ \A i \in 1..Len(wire[c]) : RowOf(wire[c][i])
        /\ \A i \in 1..Len(got[c]) : RowOf(got[c][i])
    BY ClientFacts
  <1> QED
    BY <1>1, <1>2, <1>3, <1>4, ReaderKeeps

\* What a client folds off its stream is a committed row.
LEMMA ReceiveKeeps ==
    ASSUME WInv, Sent, NEW c \in Clients, Receive(c)
    PROVE  WInv' /\ Sent' /\ Kept
  <1> DEFINE h == Head(wire[c])
             w == Tail(wire[c])
             g == IF h.id <= LastId(c) THEN got[c] ELSE Append(got[c], h)
  <1>1. wire[c] # <<>> /\ UNCHANGED <<ledger, sub, page, skipped, faults>>
        /\ wire' = [wire EXCEPT ![c] = w]
    BY DEF Receive
  <1>2. /\ w \in Seq(Frame) /\ Len(w) = Len(wire[c]) - 1 /\ Len(wire[c]) >= 1
        /\ Len(wire[c]) \in Nat
        /\ h = wire[c][1]
        /\ \A i \in 1..Len(w) : w[i] = wire[c][i + 1]
    BY <1>1, ClientFacts, TailFacts
  <1>3. h \in Frame /\ RowOf(h)
    <2>1. 1 \in 1..Len(wire[c])
      BY <1>2
    <2>2. wire[c][1] \in Frame /\ RowOf(wire[c][1])
      BY <2>1, ClientFacts, SeqFacts
    <2> QED
      BY <1>2, <2>2
  <1>4. \A i \in 1..Len(w) : RowOf(w[i])
    <2>1. \A i \in 1..Len(w) : i + 1 \in 1..Len(wire[c])
      BY <1>2
    <2> QED
      BY <1>2, <2>1, ClientFacts
  <1>5. got' = [got EXCEPT ![c] = g]
    <2>1. CASE h.id <= LastId(c)
      BY <2>1, ClientFacts DEF Receive
    <2>2. CASE ~(h.id <= LastId(c))
      BY <2>2 DEF Receive
    <2> QED
      BY <2>1, <2>2
  <1> HIDE DEF h, w
  <1>6. g \in Seq(Frame) /\ \A i \in 1..Len(g) : RowOf(g[i])
    <2>1. CASE h.id <= LastId(c)
      BY <2>1, ClientFacts
    <2>2. CASE ~(h.id <= LastId(c))
      <3>1. g = Append(got[c], h)
        BY <2>2
      <3>2. /\ got[c] \in Seq(Frame) /\ Len(got[c]) \in Nat
            /\ \A i \in 1..Len(got[c]) : RowOf(got[c][i])
        BY ClientFacts
      <3>3. /\ Append(got[c], h) \in Seq(Frame)
            /\ Len(Append(got[c], h)) = Len(got[c]) + 1
            /\ \A i \in 1..Len(got[c]) : Append(got[c], h)[i] = got[c][i]
            /\ Append(got[c], h)[Len(got[c]) + 1] = h
        BY <1>3, <3>2, AppendFacts
      <3>4. ASSUME NEW i \in 1..(Len(got[c]) + 1)
            PROVE  RowOf(Append(got[c], h)[i])
        <4>1. CASE i \in 1..Len(got[c])
          BY <3>2, <3>3, <4>1
        <4>2. CASE i = Len(got[c]) + 1
          BY <1>3, <3>3, <4>2
        <4> QED
          BY <3>2, <4>1, <4>2
      <3> QED
        BY <3>1, <3>3, <3>4
    <2> QED
      BY <2>1, <2>2
  <1> HIDE DEF g
  <1>7. /\ sub' = [sub EXCEPT ![c] = sub[c]]
        /\ page' = [page EXCEPT ![c] = page[c]]
        /\ skipped' \in [Clients -> SUBSET Nat]
        /\ faults' \in 0..MaxFaults
    BY <1>1, ClientFacts
  <1>8. /\ sub[c] \in [on: BOOLEAN, lastSent: Nat]
        /\ page[c] \in Seq(Frame)
        /\ \A i \in 1..Len(page[c]) : RowOf(page[c][i])
    BY ClientFacts
  <1>9. w \in Seq(Frame) /\ UNCHANGED ledger /\ wire' = [wire EXCEPT ![c] = w]
    BY <1>1, <1>2
  <1> QED
    BY <1>4, <1>5, <1>6, <1>7, <1>8, <1>9, ReaderKeeps

\* What a client folds off a page is committed rows.
LEMMA ReceivePageKeeps ==
    ASSUME WInv, Sent, NEW c \in Clients, ReceivePage(c)
    PROVE  WInv' /\ Sent' /\ Kept
  <1> DEFINE F == Fresh(page[c], LastId(c))
             g == got[c] \o F
  <1>1. UNCHANGED <<ledger, sub, wire, skipped, faults>>
        /\ page' = [page EXCEPT ![c] = <<>>]
        /\ got' = [got EXCEPT ![c] = g]
    BY DEF ReceivePage
  <1>2. PICK k \in Nat :
          /\ k <= Len(page[c])
          /\ F \in Seq(Frame)
          /\ Len(F) = Len(page[c]) - k
          /\ \A i \in 1..(Len(page[c]) - k) : F[i] = page[c][k + i]
    <2>1. page[c] \in Seq(Frame) /\ LastId(c) \in Nat
      BY ClientFacts, LastIdFacts
    <2> QED
      BY <2>1, FreshFacts
  <1> HIDE DEF F
  <1>3. \A i \in 1..Len(F) : RowOf(F[i])
    <2>1. Len(page[c]) \in Nat /\ \A i \in 1..Len(page[c]) : RowOf(page[c][i])
      BY ClientFacts
    <2>2. \A i \in 1..Len(F) : k + i \in 1..Len(page[c])
      BY <1>2, <2>1
    <2> QED
      BY <1>2, <2>1, <2>2
  <1>4. /\ g \in Seq(Frame)
        /\ \A i \in 1..Len(g) : RowOf(g[i])
    BY <1>2, <1>3, ClientFacts, ConcatRows
  <1> HIDE DEF g
  <1>5. /\ sub' = [sub EXCEPT ![c] = sub[c]]
        /\ wire' = [wire EXCEPT ![c] = wire[c]]
        /\ skipped' \in [Clients -> SUBSET Nat]
        /\ faults' \in 0..MaxFaults
    BY <1>1, ClientFacts
  <1>6. <<>> \in Seq(Frame) /\ Len(<<>>) = 0 /\ \A i \in 1..0 : RowOf(<<>>[i])
    OBVIOUS
  <1> QED
    BY <1>1, <1>4, <1>5, <1>6, ClientFacts, ReaderKeeps

\* The frames a commit publishes are the rows it commits.
LEMMA OuterFinishSent ==
    ASSUME WInv, Sent, Finish, Len(marks) = 1
    PROVE  Sent' /\ Grown
  <1>1. /\ table' = table /\ Base' = Len(table) /\ Publish(buffered)
        /\ UNCHANGED <<page, got, skipped>>
    BY OuterFinishKeeps DEF Publish
  <1>2. Base \in Nat /\ Base <= Len(table) /\ Len(table) \in Nat
    BY CommittedIs, SeqFacts DEF WInv, TypeOK
  <1>3. Grown
    BY <1>1, <1>2 DEF Grown
  <1> DEFINE Row(f) == f.id \in 1..Len(table) /\ f.ev = table[f.id]
  <1>4. \A f : RowOf(f) => Row(f)
    BY <1>2 DEF RowOf
  <1>5. /\ Len(buffered) \in Nat
        /\ \A i \in 1..Len(buffered) : Row(buffered[i])
    <2>1. Len(buffered) = Len(table) - Base
      BY DEF WInv, Buffer
    <2>2. \A i \in 1..Len(buffered) : Base + i \in 1..Len(table)
      BY <1>2, <2>1
    <2> QED
      BY <1>2, <2>1, <2>2 DEF WInv, Buffer
  <1>6. ASSUME NEW c \in Clients, NEW i \in 1..Len(wire'[c])
        PROVE  Row(wire'[c][i])
    <2>1. wire[c] \in Seq(Frame) /\ sub[c].lastSent \in Nat /\ buffered \in Seq(Frame)
          /\ Len(wire[c]) \in Nat
          /\ \A j \in 1..Len(wire[c]) : RowOf(wire[c][j])
      BY ClientFacts DEF WInv, TypeOK
    <2>2. CASE ~sub[c].on
      <3>1. wire'[c] = wire[c]
        BY <1>1, <2>2, PublishFacts DEF WInv
      <3> QED
        BY <1>4, <2>1, <3>1
    <2>3. CASE sub[c].on
      <3> DEFINE F == Fresh(buffered, sub[c].lastSent)
      <3>1. wire'[c] = wire[c] \o F
        BY <1>1, <2>3, PublishFacts DEF WInv
      <3>2. PICK k \in Nat :
              /\ k <= Len(buffered)
              /\ F \in Seq(Frame)
              /\ Len(F) = Len(buffered) - k
              /\ \A j \in 1..(Len(buffered) - k) : F[j] = buffered[k + j]
        BY <2>1, FreshFacts
      <3> HIDE DEF F
      <3>3. /\ Len(wire'[c]) = Len(wire[c]) + Len(F)
            /\ \A j \in 1..Len(wire[c]) : wire'[c][j] = wire[c][j]
            /\ \A j \in 1..Len(F) : wire'[c][Len(wire[c]) + j] = F[j]
        <4>1. /\ Len(wire[c] \o F) = Len(wire[c]) + Len(F)
              /\ \A j \in 1..Len(wire[c]) : (wire[c] \o F)[j] = wire[c][j]
              /\ \A j \in 1..Len(F) : (wire[c] \o F)[Len(wire[c]) + j] = F[j]
          <5>1. wire[c] \in Seq(Frame) /\ F \in Seq(Frame)
            BY <2>1, <3>2
          <5> QED
            BY <5>1, ConcatFacts
        <4> QED
          BY <3>1, <4>1
      <3>4. CASE i <= Len(wire[c])
        <4>1. i \in 1..Len(wire[c])
          BY <2>1, <3>4
        <4> QED
          BY <1>4, <2>1, <3>3, <4>1
      <3>5. CASE i > Len(wire[c])
        <4> DEFINE j == i - Len(wire[c])
        <4>1. j \in 1..Len(F) /\ i = Len(wire[c]) + j
          BY <1>5, <2>1, <3>2, <3>3, <3>5
        <4>2. k + j \in 1..Len(buffered)
          BY <1>5, <3>2, <4>1
        <4>3. wire'[c][i] = buffered[k + j]
          BY <3>2, <3>3, <4>1
        <4> QED
          BY <1>5, <4>2, <4>3
      <3> QED
        BY <2>1, <3>3, <3>4, <3>5, <1>5, <3>2
    <2> QED
      BY <2>2, <2>3
  <1>7. Sent'
    <2> SUFFICES ASSUME NEW c \in Clients
                 PROVE  /\ \A i \in 1..Len(wire'[c]) : RowOf(wire[c][i])'
                        /\ \A i \in 1..Len(page'[c]) : RowOf(page[c][i])'
                        /\ \A i \in 1..Len(got'[c]) : RowOf(got[c][i])'
      BY DEF Sent
    <2>1. \A i \in 1..Len(wire'[c]) : RowOf(wire[c][i])'
      BY <1>1, <1>6 DEF RowOf
    <2>2. \A i \in 1..Len(page'[c]) : RowOf(page[c][i])'
      BY <1>1, <1>4 DEF RowOf, Sent
    <2>3. \A i \in 1..Len(got'[c]) : RowOf(got[c][i])'
      BY <1>1, <1>4 DEF RowOf, Sent
    <2> QED
      BY <2>1, <2>2, <2>3
  <1> QED
    BY <1>3, <1>7

-----------------------------------------------------------------------------
\* The inductive invariant of the ledger alone.
LInv == WInv /\ Sent

\* An empty ledger with nobody reading.
LEMMA InitLInv ==
    ASSUME Init
    PROVE  LInv
  <1>1. /\ table = <<>> /\ marks = <<>> /\ buffered = <<>> /\ faults = 0
        /\ sub = [c \in Clients |-> NoSub]
        /\ wire = [c \in Clients |-> <<>>]
        /\ page = [c \in Clients |-> <<>>]
        /\ got = [c \in Clients |-> <<>>]
        /\ skipped = [c \in Clients |-> {}]
    BY DEF Init
  <1>2. TypeOK
    BY <1>1, LedgerBounds DEF TypeOK, NoSub
  <1>3. Base = 0 /\ Len(table) = 0 /\ Len(buffered) = 0 /\ Len(marks) = 0
    BY <1>1 DEF Base
  <1>4. MarksNested /\ Buffer
    BY <1>1, <1>3 DEF MarksNested, Buffer
  <1>5. \A c \in Clients : Len(wire[c]) = 0 /\ Len(page[c]) = 0 /\ Len(got[c]) = 0
    BY <1>1
  <1>6. Sent
    BY <1>5 DEF Sent
  <1> QED
    BY <1>2, <1>4, <1>6 DEF LInv, WInv

\* Every step keeps the bookkeeping and loses no committed row.
LEMMA StepLInv ==
    ASSUME LInv, [Next]_vars
    PROVE  LInv' /\ Grown
  <1> USE DEF LInv
  <1>1. CASE Begin
    <2>1. WInv' /\ Kept
      BY <1>1, BeginKeeps
    <2> QED
      BY <1>1, <2>1, KeptIsGrown, SentStays DEF Begin, stream
  <1>2. ASSUME NEW e \in Events, AppendEvent(e)
        PROVE  LInv' /\ Grown
    <2>1. WInv' /\ Kept
      BY <1>2, AppendKeeps
    <2> QED
      BY <1>2, <2>1, KeptIsGrown, SentStays DEF AppendEvent, stream
  <1>3. CASE Finish
    <2>1. CASE Len(marks) = 1
      BY <1>3, <2>1, OuterFinishKeeps, OuterFinishSent
    <2>2. CASE Len(marks) # 1
      <3>1. WInv' /\ Kept /\ UNCHANGED <<wire, page, got, skipped>>
        BY <1>3, <2>2, InnerFinishKeeps DEF stream
      <3> QED
        BY <3>1, KeptIsGrown, SentStays
    <2> QED
      BY <2>1, <2>2
  <1>4. CASE Fail
    <2>1. WInv' /\ Kept
      BY <1>4, FailKeeps
    <2> QED
      BY <1>4, <2>1, KeptIsGrown, SentStays DEF Fail, stream
  <1>5. CASE Crash
    BY <1>5, CrashKeeps, KeptIsGrown, SentStays
  <1>6. ASSUME NEW c \in Clients, Read(c)
        PROVE  LInv' /\ Grown
    <2>1. WInv' /\ Sent' /\ Kept
      BY <1>6, ConnectKeeps, DropKeeps, PollKeeps, ReceiveKeeps, ReceivePageKeeps
      DEF Read
    <2> QED
      BY <2>1, KeptIsGrown
  <1>7. CASE UNCHANGED vars
    <2>1. UNCHANGED <<table, marks, buffered, sub, wire, page, got, skipped, faults>>
      BY <1>7 DEF vars, ledger, stream
    <2>2. Base' = Base /\ Kept
      BY <2>1 DEF Base, Kept
    <2>3. WInv'
      BY <2>1, <2>2 DEF WInv, TypeOK, MarksNested, Buffer
    <2> QED
      BY <2>1, <2>2, <2>3, KeptIsGrown, SentStays
  <1> QED
    BY <1>1, <1>2, <1>3, <1>4, <1>5, <1>6, <1>7 DEF Next, Write

\* The bookkeeping of the ledger stands in every reachable state.
THEOREM LedgerBookkeeping == Spec => []LInv
  <1>1. Init => LInv
    BY InitLInv
  <1>2. LInv /\ [Next]_vars => LInv'
    BY StepLInv
  <1> QED
    BY <1>1, <1>2, PTL DEF Spec

\* Every variable of the ledger and its stream keeps its type.
THEOREM LedgerTypes == Spec => []TypeOK
  <1>1. LInv => TypeOK
    BY DEF LInv, WInv
  <1> QED
    BY <1>1, LedgerBookkeeping, PTL

\* A frame on a wire, on a page or folded is a committed event: LedgerTransaction
\* publishes only what the outermost run() committed.
THEOREM FramesStand == Spec => []FramesAreCommitted
  <1>1. LInv => FramesAreCommitted
    BY SentIsFramesAreCommitted DEF LInv
  <1> QED
    BY <1>1, LedgerBookkeeping, PTL

\* The buffered frames are the open transaction's rows and no other, whatever
\* savepoints were rolled back: LedgerTransaction.run truncates both together.
THEOREM BufferStands == Spec => []BufferIsTheTransaction
  <1>1. LInv => BufferIsTheTransaction
    BY BufferIsBuffer DEF LInv
  <1> QED
    BY <1>1, LedgerBookkeeping, PTL

-----------------------------------------------------------------------------
\* The last id of some frames: LastId, of what a client folded.
Tip(g) == IF g = <<>> THEN 0 ELSE g[Len(g)].id

\* The frames come in the order of their ids.
Rising(g) == \A i, j \in 1..Len(g) : i < j => g[i].id < g[j].id

\* Some frame has this id.
Has(g, n) == \E i \in 1..Len(g) : g[i].id = n

\* The page starts at or before the cursor and has no hole.
PageFits(p, l) == \E j \in 0..l : \A i \in 1..Len(p) : p[i].id = j + i

\* Whatever is not past n is folded, skipped or on its way.
Within(n, l, k, w) == \A m \in 1..n : m <= l \/ m \in k \/ Has(w, m)

\* What a client's view rests on: its subscriber s, wire w, page p, folded
\* frames g, skipped ids k, and the committed length b.
Link(s, w, p, g, k, b) ==
    /\ Rising(g)
    /\ \A n \in 1..Tip(g) : Has(g, n) \/ n \in k
    /\ PageFits(p, Tip(g))
    /\ Rising(w)
    /\ \A i \in 1..Len(w) : Within(w[i].id, Tip(g), k, w)
    /\ s.on =>
        /\ s.lastSent \in 0..b
        /\ \A i \in 1..Len(w) : w[i].id <= s.lastSent
        /\ Within(s.lastSent, Tip(g), k, w)
        /\ s.lastSent + 1 .. b \subseteq k

\* Every client's view is whole, but for what was skipped.
Linked ==
    \A c \in Clients : Link(sub[c], wire[c], page[c], got[c], skipped[c], Base)

\* The last id is the greatest.
LEMMA TipFacts ==
    ASSUME NEW g \in Seq(Frame), Rising(g)
    PROVE  /\ Tip(g) \in Nat
           /\ \A i \in 1..Len(g) : g[i].id <= Tip(g) /\ g[i].id \in Nat
  <1>1. Len(g) \in Nat /\ (g = <<>> <=> Len(g) = 0)
        /\ \A i \in 1..Len(g) : g[i].id \in Nat
    <2>1. \A i \in 1..Len(g) : g[i] \in Frame
      BY SeqFacts
    <2>2. \A f \in Frame : f.id \in Nat
      BY DEF Frame
    <2> QED
      BY <2>1, <2>2, SeqFacts
  <1>2. CASE Len(g) = 0
    BY <1>1, <1>2 DEF Tip
  <1>3. CASE Len(g) > 0
    <2>1. Len(g) \in 1..Len(g) /\ Tip(g) = g[Len(g)].id
      BY <1>1, <1>3 DEF Tip
    <2>2. \A i \in 1..Len(g) : i < Len(g) \/ i = Len(g)
      BY <1>1
    <2> QED
      BY <1>1, <2>1, <2>2 DEF Rising
  <1> QED
    BY <1>1, <1>2, <1>3

\* One frame more, behind the last.
LEMMA FoldOne ==
    ASSUME NEW g \in Seq(Frame), Rising(g), NEW h \in Frame, h.id > Tip(g)
    PROVE  /\ Append(g, h) \in Seq(Frame)
           /\ Rising(Append(g, h))
           /\ Tip(Append(g, h)) = h.id
           /\ \A n : Has(Append(g, h), n) <=> Has(g, n) \/ n = h.id
  <1> DEFINE a == Append(g, h)
  <1>1. Len(g) \in Nat /\ h.id \in Nat
    BY SeqFacts DEF Frame
  <1>2. /\ a \in Seq(Frame) /\ Len(a) = Len(g) + 1 /\ a # <<>>
        /\ \A i \in 1..Len(g) : a[i] = g[i]
        /\ a[Len(g) + 1] = h
    <2>1. g \in Seq(Frame) /\ h \in Frame
      OBVIOUS
    <2>2. /\ Append(g, h) \in Seq(Frame)
          /\ Len(Append(g, h)) = Len(g) + 1
          /\ \A i \in 1..Len(g) : Append(g, h)[i] = g[i]
          /\ Append(g, h)[Len(g) + 1] = h
          /\ Append(g, h) # <<>>
      BY <2>1, AppendFacts
    <2> QED
      BY <2>2
  <1> HIDE DEF a
  <1>3. Tip(a) = h.id
    BY <1>2 DEF Tip
  <1>4. \A i \in 1..Len(a) : i \in 1..Len(g) \/ i = Len(g) + 1
    BY <1>1, <1>2
  <1>5. Rising(a)
    <2> SUFFICES ASSUME NEW i \in 1..Len(a), NEW j \in 1..Len(a), i < j
                 PROVE  a[i].id < a[j].id
      BY DEF Rising
    <2>1. i \in 1..Len(g)
      BY <1>1, <1>2
    <2>2. CASE j \in 1..Len(g)
      BY <1>2, <2>1, <2>2 DEF Rising
    <2>3. CASE j = Len(g) + 1
      BY <1>1, <1>2, <2>1, <2>3, TipFacts
    <2> QED
      BY <1>4, <2>2, <2>3
  <1>6. ASSUME NEW n
        PROVE  Has(a, n) <=> Has(g, n) \/ n = h.id
    <2>1. \A i \in 1..Len(g) : i \in 1..Len(a)
      BY <1>1, <1>2
    <2>2. Len(g) + 1 \in 1..Len(a)
      BY <1>1, <1>2
    <2> QED
      BY <1>2, <1>4, <2>1, <2>2 DEF Has
  <1> QED
    BY <1>2, <1>3, <1>5, <1>6 DEF a

\* Frames that follow the last without a hole.
LEMMA FoldRun ==
    ASSUME NEW g \in Seq(Frame), Rising(g), NEW f \in Seq(Frame),
           \A i \in 1..Len(f) : f[i].id = Tip(g) + i
    PROVE  /\ g \o f \in Seq(Frame)
           /\ Rising(g \o f)
           /\ Tip(g \o f) = Tip(g) + Len(f)
           /\ \A n : Has(g, n) => Has(g \o f, n)
           /\ \A n \in Tip(g) + 1 .. Tip(g) + Len(f) : Has(g \o f, n)
  <1> DEFINE a == g \o f
             l == Tip(g)
  <1>1. Len(g) \in Nat /\ Len(f) \in Nat /\ l \in Nat
    BY SeqFacts, TipFacts
  <1>2. /\ a \in Seq(Frame) /\ Len(a) = Len(g) + Len(f)
        /\ \A i \in 1..Len(g) : a[i] = g[i]
        /\ \A i \in 1..Len(f) : a[Len(g) + i] = f[i]
    BY ConcatFacts
  <1>3. \A i \in 1..Len(g) : g[i].id <= l /\ g[i].id \in Nat
    BY TipFacts
  <1> HIDE DEF a
  <1>4. ASSUME NEW i \in 1..Len(a)
        PROVE  \/ i \in 1..Len(g) /\ a[i] = g[i] /\ a[i].id <= l
               \/ i > Len(g) /\ a[i].id = l + (i - Len(g)) /\ i - Len(g) \in 1..Len(f)
    <2>1. CASE i <= Len(g)
      <3>1. i \in 1..Len(g)
        BY <1>1, <2>1
      <3> QED
        BY <1>2, <1>3, <3>1
    <2>2. CASE i > Len(g)
      <3> DEFINE j == i - Len(g)
      <3>1. j \in 1..Len(f) /\ Len(g) + j = i
        BY <1>1, <1>2, <2>2
      <3> HIDE DEF j
      <3>2. a[i] = f[j] /\ f[j].id = l + j
        BY <1>2, <3>1
      <3> QED
        BY <2>2, <3>1, <3>2 DEF j
    <2> QED
      BY <1>1, <2>1, <2>2
  <1> HIDE DEF l
  <1>5. Rising(a)
    <2> SUFFICES ASSUME NEW i \in 1..Len(a), NEW j \in 1..Len(a), i < j
                 PROVE  a[i].id < a[j].id
      BY DEF Rising
    <2>1. CASE j \in 1..Len(g)
      <3>1. i \in 1..Len(g)
        BY <1>1, <2>1
      <3>2. g[i].id < g[j].id
        BY <2>1, <3>1 DEF Rising
      <3> QED
        BY <1>2, <2>1, <3>1, <3>2
    <2>2. CASE ~(j \in 1..Len(g))
      <3>1. a[j].id = l + (j - Len(g)) /\ j > Len(g)
        BY <1>4, <2>2
      <3>2. CASE i \in 1..Len(g)
        <4>1. a[i].id <= l /\ a[i].id \in Nat
          BY <1>2, <1>3, <3>2
        <4> QED
          BY <1>1, <3>1, <4>1
      <3>3. CASE ~(i \in 1..Len(g))
        <4>1. a[i].id = l + (i - Len(g))
          BY <1>4, <3>3
        <4> QED
          BY <1>1, <3>1, <4>1
      <3> QED
        BY <3>2, <3>3
    <2> QED
      BY <2>1, <2>2
  <1>6. Tip(a) = l + Len(f)
    <2>1. CASE Len(f) = 0
      <3>1. Len(a) = Len(g) /\ (a = <<>> <=> g = <<>>)
        BY <1>1, <1>2, <2>1, SeqFacts
      <3>2. g # <<>> => Len(g) \in 1..Len(g)
        BY <1>1, SeqFacts
      <3>3. Tip(a) = Tip(g)
        BY <1>2, <3>1, <3>2 DEF Tip
      <3> QED
        BY <1>1, <2>1, <3>3 DEF l
    <2>2. CASE Len(f) # 0
      <3>1. Len(a) \in 1..Len(a) /\ Len(a) > Len(g) /\ a # <<>>
        BY <1>1, <1>2, <2>2, SeqFacts
      <3>2. a[Len(a)].id = l + (Len(a) - Len(g))
        BY <1>1, <1>4, <3>1
      <3> QED
        BY <1>1, <1>2, <3>1, <3>2 DEF Tip
    <2> QED
      BY <2>1, <2>2
  <1>7. ASSUME NEW n, Has(g, n)
        PROVE  Has(a, n)
    <2>1. \A i \in 1..Len(g) : i \in 1..Len(a)
      BY <1>1, <1>2
    <2> QED
      BY <1>2, <1>7, <2>1 DEF Has
  <1>8. ASSUME NEW n \in l + 1 .. l + Len(f)
        PROVE  Has(a, n)
    <2> DEFINE j == n - l
    <2>1. j \in 1..Len(f) /\ l + j = n
      BY <1>1
    <2> HIDE DEF j
    <2>2. Len(g) + j \in 1..Len(a)
      BY <1>1, <1>2, <2>1
    <2>3. a[Len(g) + j] = f[j] /\ f[j].id = l + j
      BY <1>2, <2>1 DEF l
    <2> QED
      BY <2>1, <2>2, <2>3 DEF Has
  <1> QED
    BY <1>2, <1>5, <1>6, <1>7, <1>8 DEF a, l

\* Where the cursor moves up, what was within reach still is.
LEMMA WithinStays ==
    ASSUME NEW n \in Nat, NEW l \in Nat, NEW m \in Nat, NEW k, NEW w, l <= m,
           Within(n, l, k, w)
    PROVE  Within(n, m, k, w)
  BY DEF Within

\* Of consecutive frames that start at or before the cursor, the fresh ones are
\* consecutive and start right behind it.
LEMMA FreshOfRun ==
    ASSUME NEW frames \in Seq(Frame), NEW k \in Nat, NEW n \in Nat, k <= n,
           \A i \in 1..Len(frames) : frames[i].id = k + i
    PROVE  /\ Fresh(frames, n) \in Seq(Frame)
           /\ Len(Fresh(frames, n)) \in Nat
           /\ Len(Fresh(frames, n)) =
                 (IF n - k < Len(frames) THEN Len(frames) - (n - k) ELSE 0)
           /\ \A i \in 1..Len(Fresh(frames, n)) :
                 Fresh(frames, n)[i] = frames[(n - k) + i]
           /\ \A i \in 1..Len(Fresh(frames, n)) : Fresh(frames, n)[i].id = n + i
  <1> DEFINE F == Fresh(frames, n)
             m == IF n - k < Len(frames) THEN n - k ELSE Len(frames)
  <1>1. /\ Len(frames) \in Nat /\ DOMAIN frames = 1..Len(frames)
        /\ \A i \in 1..Len(frames) : frames[i].id = k + i
    BY SeqFacts
  <1>2. /\ m \in Nat /\ m <= Len(frames)
        /\ n - k < Len(frames) => m = n - k
        /\ ~(n - k < Len(frames)) => m = Len(frames)
    BY <1>1
  <1>3. {i \in DOMAIN frames : frames[i].id <= n} = 1..m
    <2>1. ASSUME NEW i \in 1..Len(frames)
          PROVE  frames[i].id <= n <=> i <= m
      <3>1. frames[i].id = k + i
        BY <1>1
      <3> QED
        BY <1>1, <3>1
    <2> QED
      BY <1>1, <1>2, <2>1
  <1> HIDE DEF m
  <1>4. Cardinality(1..m) = m
    <2>1. m \in Int /\ 1 \in Int
      BY <1>2
    <2>2. Cardinality(1..m) = IF 1 > m THEN 0 ELSE m - 1 + 1
      BY <2>1, FS_Interval
    <2> QED
      BY <1>2, <2>2
  <1>5. PICK j \in Nat :
          /\ j <= Len(frames)
          /\ j = Cardinality({i \in DOMAIN frames : frames[i].id <= n})
          /\ F \in Seq(Frame)
          /\ Len(F) = Len(frames) - j
          /\ \A i \in 1..(Len(frames) - j) : F[i] = frames[j + i]
    BY FreshFacts
  <1> HIDE DEF F
  <1>6. j = m
    BY <1>3, <1>4, <1>5
  <1>7. Len(frames) \in Nat /\ Len(F) = Len(frames) - m
    BY <1>1, <1>5, <1>6
  <1>8. /\ Len(F) \in Nat
        /\ Len(F) = IF n - k < Len(frames) THEN Len(frames) - (n - k) ELSE 0
    BY <1>2, <1>7
  <1>9. ASSUME NEW i \in 1..Len(F)
        PROVE  F[i] = frames[(n - k) + i] /\ F[i].id = n + i
    <2>1. m = n - k /\ m + i \in 1..Len(frames)
      BY <1>2, <1>7, <1>8
    <2>2. F[i] = frames[m + i]
      BY <1>5, <1>6
    <2>3. frames[m + i].id = k + (m + i)
      BY <1>1, <2>1
    <2>4. k + (m + i) = n + i
      BY <1>2, <1>8, <2>1
    <2> QED
      BY <2>1, <2>2, <2>3, <2>4
  <1> QED
    BY <1>5, <1>8, <1>9 DEF F

\* A message of the stream is folded, or its id was before: what it jumps over
\* was skipped.
LEMMA FoldMessage ==
    ASSUME NEW s, NEW w \in Seq(Frame), NEW p, NEW g \in Seq(Frame), NEW k, NEW b,
           w # <<>>, Link(s, w, p, g, k, b), NEW a \in Seq(Frame),
           a = IF Head(w).id <= Tip(g) THEN g ELSE Append(g, Head(w))
    PROVE  /\ Link(s, Tail(w), p, a, k, b)
           /\ Head(w).id > Tip(g) => Tip(g) + 1 .. Head(w).id - 1 \subseteq k
  <1> DEFINE h == Head(w)
             v == Tail(w)
             l == Tip(g)
  <1>1. /\ v \in Seq(Frame) /\ Len(v) = Len(w) - 1 /\ Len(w) >= 1
        /\ h = w[1]
        /\ \A i \in 1..Len(v) : v[i] = w[i + 1]
    BY TailFacts
  <1>2. /\ Len(w) \in Nat /\ Len(v) \in Nat /\ 1 \in 1..Len(w)
        /\ \A i \in 1..Len(v) : i + 1 \in 1..Len(w)
        /\ \A i \in 1..Len(w) : i = 1 \/ (i - 1 \in 1..Len(v) /\ w[i] = v[i - 1])
    <2>1. Len(w) \in Nat
      BY SeqFacts
    <2>2. ASSUME NEW i \in 1..Len(w), i # 1
          PROVE  i - 1 \in 1..Len(v) /\ w[i] = v[i - 1]
      <3>1. i - 1 \in 1..Len(v) /\ (i - 1) + 1 = i
        BY <1>1, <2>1, <2>2
      <3> QED
        BY <1>1, <3>1
    <2> QED
      BY <1>1, <2>1, <2>2
  <1>3. /\ Rising(g) /\ Rising(w) /\ l \in Nat
        /\ \A n \in 1..l : Has(g, n) \/ n \in k
        /\ PageFits(p, l)
        /\ \A i \in 1..Len(w) : Within(w[i].id, l, k, w)
    BY TipFacts DEF Link
  <1>4. h \in Frame /\ h.id \in Nat
    <2>1. w[1] \in Frame
      BY <1>2, SeqFacts
    <2> QED
      BY <1>1, <2>1 DEF Frame
  <1>5. \A i \in 1..Len(w) : w[i].id \in Nat
    <2>1. \A i \in 1..Len(w) : w[i] \in Frame
      BY SeqFacts
    <2> QED
      BY <2>1 DEF Frame
  <1> HIDE DEF h, v, l
  <1>6. \A n : Has(w, n) => n = h.id \/ Has(v, n)
    BY <1>1, <1>2 DEF Has
  <1>7. ASSUME NEW n \in 1..h.id
        PROVE  n <= l \/ n \in k \/ n = h.id
    <2>1. Within(h.id, l, k, w)
      BY <1>1, <1>2, <1>3
    <2>2. CASE Has(w, n)
      <3>1. PICK i \in 1..Len(w) : w[i].id = n
        BY <2>2 DEF Has
      <3>2. CASE i = 1
        BY <1>1, <3>1, <3>2
      <3>3. CASE i # 1
        <4>1. w[1].id < w[i].id
          BY <1>2, <1>3, <3>3 DEF Rising
        <4> QED
          BY <1>1, <1>4, <3>1, <4>1
      <3> QED
        BY <3>2, <3>3
    <2> QED
      BY <2>1, <2>2 DEF Within
  <1>8. /\ Rising(a) /\ Tip(a) \in Nat /\ l <= Tip(a) /\ h.id <= Tip(a)
        /\ \A n \in 1..Tip(a) : Has(a, n) \/ n \in k
    <2>1. CASE h.id <= l
      <3>1. a = g
        BY <2>1 DEF h, l
      <3> QED
        BY <1>3, <2>1, <3>1 DEF l
    <2>2. CASE h.id > l
      <3>1. a = Append(g, h)
        BY <1>3, <1>4, <2>2 DEF h, l
      <3>2. /\ Rising(a) /\ Tip(a) = h.id
            /\ \A n : Has(a, n) <=> Has(g, n) \/ n = h.id
        BY <1>3, <1>4, <2>2, <3>1, FoldOne DEF l
      <3>3. ASSUME NEW n \in 1..h.id
            PROVE  Has(a, n) \/ n \in k
        <4>1. n <= l => n \in 1..l
          BY <1>3
        <4> QED
          BY <1>3, <1>7, <3>2, <4>1
      <3> QED
        BY <1>3, <1>4, <2>2, <3>2, <3>3
    <2> QED
      BY <1>3, <1>4, <2>1, <2>2
  <1>9. PageFits(p, Tip(a))
    <2>1. PICK j \in 0..l : \A i \in 1..Len(p) : p[i].id = j + i
      BY <1>3 DEF PageFits
    <2>2. j \in 0..Tip(a)
      BY <1>3, <1>8
    <2> QED
      BY <2>1, <2>2 DEF PageFits
  <1>10. Rising(v)
    <2> SUFFICES ASSUME NEW i \in 1..Len(v), NEW j \in 1..Len(v), i < j
                 PROVE  v[i].id < v[j].id
      BY DEF Rising
    <2>1. i + 1 \in 1..Len(w) /\ j + 1 \in 1..Len(w) /\ i + 1 < j + 1
      BY <1>2
    <2>2. w[i + 1].id < w[j + 1].id
      BY <1>3, <2>1 DEF Rising
    <2> QED
      BY <1>1, <2>2
  <1>11. ASSUME NEW n \in Nat, Within(n, l, k, w)
         PROVE  Within(n, Tip(a), k, v)
    <2> SUFFICES ASSUME NEW m \in 1..n
                 PROVE  m <= Tip(a) \/ m \in k \/ Has(v, m)
      BY DEF Within
    <2>1. m <= l \/ m \in k \/ Has(w, m)
      BY <1>11 DEF Within
    <2>2. m <= l => m <= Tip(a)
      BY <1>3, <1>8
    <2>3. m = h.id => m <= Tip(a)
      BY <1>8
    <2> QED
      BY <1>6, <2>1, <2>2, <2>3
  <1>12. \A i \in 1..Len(v) : Within(v[i].id, Tip(a), k, v)
    <2> TAKE i \in 1..Len(v)
    <2>1. i + 1 \in 1..Len(w) /\ v[i] = w[i + 1]
      BY <1>1, <1>2
    <2>2. w[i + 1].id \in Nat /\ Within(w[i + 1].id, l, k, w)
      BY <1>3, <1>5, <2>1
    <2> QED
      BY <1>11, <2>1, <2>2
  <1>13. s.on =>
           /\ s.lastSent \in 0..b
           /\ \A i \in 1..Len(v) : v[i].id <= s.lastSent
           /\ Within(s.lastSent, Tip(a), k, v)
           /\ s.lastSent + 1 .. b \subseteq k
    <2> SUFFICES ASSUME s.on
                 PROVE  /\ s.lastSent \in 0..b
                        /\ \A i \in 1..Len(v) : v[i].id <= s.lastSent
                        /\ Within(s.lastSent, Tip(a), k, v)
                        /\ s.lastSent + 1 .. b \subseteq k
      OBVIOUS
    <2>1. /\ s.lastSent \in 0..b
          /\ \A i \in 1..Len(w) : w[i].id <= s.lastSent
          /\ Within(s.lastSent, l, k, w)
          /\ s.lastSent + 1 .. b \subseteq k
      BY DEF Link, l
    <2>2. s.lastSent \in Nat
      BY <2>1
    <2> QED
      BY <1>1, <1>2, <1>11, <2>1, <2>2
  <1>14. Link(s, v, p, a, k, b)
    BY <1>8, <1>9, <1>10, <1>12, <1>13 DEF Link
  <1>15. ASSUME h.id > l, NEW n \in l + 1 .. h.id - 1
         PROVE  n \in k
    BY <1>3, <1>4, <1>7, <1>15
  <1> QED
    BY <1>14, <1>15 DEF h, v, l

\* A page's fresh frames follow the cursor.
LEMMA FreshPage ==
    ASSUME NEW p \in Seq(Frame), NEW g \in Seq(Frame), Rising(g), PageFits(p, Tip(g))
    PROVE  /\ Tip(g) \in Nat
           /\ Fresh(p, Tip(g)) \in Seq(Frame)
           /\ \A i \in 1..Len(Fresh(p, Tip(g))) : Fresh(p, Tip(g))[i].id = Tip(g) + i
  <1> DEFINE l == Tip(g)
  <1>1. l \in Nat
    BY TipFacts
  <1>2. PICK j \in 0..l : \A i \in 1..Len(p) : p[i].id = j + i
    BY DEF PageFits
  <1>3. j \in Nat /\ j <= l
    BY <1>1, <1>2
  <1> HIDE DEF l
  <1>4. Fresh(p, l) \in Seq(Frame)
        /\ \A i \in 1..Len(Fresh(p, l)) : Fresh(p, l)[i].id = l + i
    BY <1>1, <1>2, <1>3, FreshOfRun
  <1> QED
    BY <1>1, <1>4 DEF l

\* So the wire's frames that are behind the new cursor will be dropped, and the
\* others still follow.
LEMMA FoldPage ==
    ASSUME NEW s, NEW w \in Seq(Frame), NEW p \in Seq(Frame), NEW g \in Seq(Frame),
           NEW k, NEW b, Link(s, w, p, g, k, b)
    PROVE  Link(s, w, <<>>, g \o Fresh(p, Tip(g)), k, b)
  <1> DEFINE l == Tip(g)
             F == Fresh(p, l)
             a == g \o F
  <1>1. /\ Rising(g) /\ Rising(w)
        /\ \A n \in 1..l : Has(g, n) \/ n \in k
        /\ PageFits(p, l)
        /\ \A i \in 1..Len(w) : Within(w[i].id, l, k, w)
    BY DEF Link
  <1>2. l \in Nat
    BY <1>1, TipFacts
  <1>3. F \in Seq(Frame) /\ \A i \in 1..Len(F) : F[i].id = l + i
    BY <1>1, FreshPage
  <1>4. Len(F) \in Nat
    BY <1>3, SeqFacts
  <1> HIDE DEF F
  <1>5. /\ a \in Seq(Frame) /\ Rising(a) /\ Tip(a) = l + Len(F)
        /\ \A n : Has(g, n) => Has(a, n)
        /\ \A n \in l + 1 .. l + Len(F) : Has(a, n)
    BY <1>1, <1>3, FoldRun
  <1> HIDE DEF a
  <1>6. ASSUME NEW n \in 1..Tip(a)
        PROVE  Has(a, n) \/ n \in k
    <2>1. n \in 1..l \/ n \in l + 1 .. l + Len(F)
      <3> HIDE DEF l
      <3> QED
        BY <1>2, <1>4, <1>5
    <2> QED
      BY <1>1, <1>5, <2>1
  <1>7. l <= Tip(a) /\ Tip(a) \in Nat
    <2> HIDE DEF l
    <2> QED
      BY <1>2, <1>4, <1>5
  <1>8. PageFits(<<>>, Tip(a))
    <2>1. Len(<<>>) = 0 /\ 0 \in 0..Tip(a)
      BY <1>7
    <2> QED
      BY <2>1 DEF PageFits
  <1> HIDE DEF l
  <1>9. \A i \in 1..Len(w) : Within(w[i].id, Tip(a), k, w)
    <2> TAKE i \in 1..Len(w)
    <2>1. w[i] \in Frame
      BY SeqFacts
    <2>2. w[i].id \in Nat
      BY <2>1 DEF Frame
    <2> QED
      BY <1>1, <1>2, <1>7, <2>2, WithinStays
  <1>10. s.on => /\ s.lastSent \in 0..b
                 /\ \A i \in 1..Len(w) : w[i].id <= s.lastSent
                 /\ Within(s.lastSent, Tip(a), k, w)
                 /\ s.lastSent + 1 .. b \subseteq k
    <2> SUFFICES ASSUME s.on
                 PROVE  /\ s.lastSent \in 0..b
                        /\ \A i \in 1..Len(w) : w[i].id <= s.lastSent
                        /\ Within(s.lastSent, Tip(a), k, w)
                        /\ s.lastSent + 1 .. b \subseteq k
      OBVIOUS
    <2>1. /\ s.lastSent \in 0..b
          /\ \A i \in 1..Len(w) : w[i].id <= s.lastSent
          /\ Within(s.lastSent, l, k, w)
          /\ s.lastSent + 1 .. b \subseteq k
      BY DEF Link, l
    <2>2. s.lastSent \in Nat
      BY <2>1
    <2>3. Within(s.lastSent, Tip(a), k, w)
      BY <1>2, <1>7, <2>1, <2>2, WithinStays
    <2> QED
      BY <2>1, <2>3
  <1>11. Link(s, w, <<>>, a, k, b)
    BY <1>1, <1>5, <1>6, <1>8, <1>9, <1>10 DEF Link
  <1> QED
    BY <1>11 DEF l, F, a

\* The client's cursor is the last id it folded.
LEMMA CursorIsTip ==
    ASSUME LInv, NEW c \in Clients
    PROVE  LastId(c) = Tip(got[c]) /\ LastId(c) \in 0..Base /\ LastId(c) \in Nat
           /\ Base \in Nat
  BY LastIdFacts, CommittedIs DEF LInv, WInv, LastId, Tip

\* A client's step disturbs no other client's view.
LEMMA ReaderLinks ==
    ASSUME LInv, Linked, Kept, NEW c \in Clients,
           NEW s, NEW w, NEW p, NEW g,
           sub' = [sub EXCEPT ![c] = s], wire' = [wire EXCEPT ![c] = w],
           page' = [page EXCEPT ![c] = p], got' = [got EXCEPT ![c] = g],
           \A d \in Clients : d # c => skipped'[d] = skipped[d],
           Link(s, w, p, g, skipped'[c], Base)
    PROVE  Linked'
  <1> SUFFICES ASSUME NEW d \in Clients
               PROVE  Link(sub'[d], wire'[d], page'[d], got'[d], skipped'[d], Base')
    BY DEF Linked
  <1>1. Base' = Base
    BY DEF Kept
  <1>2. CASE d = c
    <2>1. sub'[d] = s /\ wire'[d] = w /\ page'[d] = p /\ got'[d] = g
      BY <1>2 DEF LInv, WInv, TypeOK
    <2> QED
      BY <1>1, <1>2, <2>1
  <1>3. CASE d # c
    <2>1. /\ sub'[d] = sub[d] /\ wire'[d] = wire[d]
          /\ page'[d] = page[d] /\ got'[d] = got[d]
      BY <1>3 DEF LInv, WInv, TypeOK
    <2> QED
      BY <1>1, <1>3, <2>1 DEF Linked
  <1> QED
    BY <1>2, <1>3

\* What a client's step leaves alone, as ReaderLinks wants it.
LEMMA SameOfClient ==
    ASSUME LInv, NEW c \in Clients
    PROVE  /\ sub = [sub EXCEPT ![c] = sub[c]]
           /\ wire = [wire EXCEPT ![c] = wire[c]]
           /\ page = [page EXCEPT ![c] = page[c]]
           /\ got = [got EXCEPT ![c] = got[c]]
  BY DEF LInv, WInv, TypeOK

\* A reconnect is handed everything behind the cursor that a backfill reaches,
\* and the rest is skipped.
LEMMA ConnectLinks ==
    ASSUME LInv, Linked, Kept, NEW c \in Clients, Connect(c)
    PROVE  Linked'
  <1> DEFINE l == LastId(c)
             w == FramesAfter(l, BackfillLimit)
             s == [on |-> TRUE, lastSent |-> l + Len(w)]
             k == {n \in skipped[c] : n <= l} \union (l + BackfillLimit + 1 .. Len(table))
  <1>1. /\ marks = <<>> /\ UNCHANGED <<page, got>>
        /\ wire' = [wire EXCEPT ![c] = w]
        /\ sub' = [sub EXCEPT ![c] = s]
        /\ skipped' = [skipped EXCEPT ![c] = k]
    BY DEF Connect, Skip, OutOfReach
  <1>2. /\ l = Tip(got[c]) /\ l \in Nat /\ Base \in Nat /\ Base = Len(table)
        /\ BackfillLimit \in Nat
    BY <1>1, CursorIsTip, LedgerBounds DEF Base
  <1>3. /\ Len(w) \in Nat /\ l + Len(w) <= Base
        /\ l + Len(w) = Base \/ Len(w) = BackfillLimit
        /\ \A i \in 1..Len(w) : w[i].id = l + i
    BY <1>1, <1>2, PageIsRows DEF LInv
  <1>4. Link(sub[c], wire[c], page[c], got[c], skipped[c], Base)
    BY DEF Linked
  <1>5. /\ Rising(got[c]) /\ PageFits(page[c], l)
        /\ \A n \in 1..l : Has(got[c], n) \/ n \in skipped[c]
    BY <1>2, <1>4 DEF Link
  <1>6. s.on /\ s.lastSent = l + Len(w)
    OBVIOUS
  <1> HIDE DEF w, s
  <1>7. \A n \in 1..l : Has(got[c], n) \/ n \in k
    <2> TAKE n \in 1..l
    <2>1. n <= l
      BY <1>2
    <2> QED
      BY <1>5, <2>1
  <1>8. s.lastSent + 1 .. Base \subseteq k
    <2>1. CASE l + Len(w) = Base
      BY <1>2, <1>3, <1>6, <2>1
    <2>2. CASE Len(w) = BackfillLimit
      BY <1>2, <1>3, <1>6, <2>2
    <2> QED
      BY <1>3, <2>1, <2>2
  <1> HIDE DEF k, l
  <1>9. ASSUME NEW n \in Nat, n <= l + Len(w)
        PROVE  Within(n, l, k, w)
    <2> SUFFICES ASSUME NEW m \in 1..n
                 PROVE  m <= l \/ Has(w, m)
      BY DEF Within
    <2>1. CASE m > l
      <3>1. m - l \in 1..Len(w) /\ l + (m - l) = m
        BY <1>2, <1>3, <1>9, <2>1
      <3> QED
        BY <1>3, <3>1 DEF Has
    <2> QED
      BY <1>2, <2>1
  <1>10. ASSUME NEW i \in 1..Len(w)
         PROVE  w[i].id \in Nat /\ w[i].id <= s.lastSent /\ Within(w[i].id, l, k, w)
    <2>1. w[i].id = l + i /\ l + i <= l + Len(w) /\ l + i \in Nat
      BY <1>2, <1>3
    <2> QED
      BY <1>6, <1>9, <2>1
  <1>11. Rising(w)
    <2> SUFFICES ASSUME NEW i \in 1..Len(w), NEW j \in 1..Len(w), i < j
                 PROVE  w[i].id < w[j].id
      BY DEF Rising
    <2>1. w[i].id = l + i /\ w[j].id = l + j
      BY <1>3
    <2> QED
      BY <1>2, <2>1
  <1>12. s.lastSent \in 0..Base /\ Within(s.lastSent, l, k, w)
    <2>1. s.lastSent \in 0..Base /\ s.lastSent \in Nat /\ s.lastSent <= l + Len(w)
      BY <1>2, <1>3, <1>6
    <2> QED
      BY <1>9, <2>1
  <1>13. Link(s, w, page[c], got[c], k, Base)
    <2>1. Tip(got[c]) = l
      BY <1>2
    <2> QED
      BY <1>5, <1>7, <1>8, <1>10, <1>11, <1>12, <2>1 DEF Link
  <1>14. /\ page' = [page EXCEPT ![c] = page[c]]
         /\ got' = [got EXCEPT ![c] = got[c]]
         /\ skipped'[c] = k
         /\ \A d \in Clients : d # c => skipped'[d] = skipped[d]
    BY <1>1, SameOfClient DEF LInv, WInv, TypeOK
  <1>15. wire' = [wire EXCEPT ![c] = w] /\ sub' = [sub EXCEPT ![c] = s]
    BY <1>1
  <1>16. Link(s, w, page[c], got[c], skipped'[c], Base)
    BY <1>13, <1>14
  <1> QED
    BY <1>14, <1>15, <1>16, ReaderLinks

\* A lost connection leaves what was folded, and no subscriber.
LEMMA DropLinks ==
    ASSUME LInv, Linked, Kept, NEW c \in Clients, Drop(c)
    PROVE  Linked'
  <1>1. /\ UNCHANGED <<page, got, skipped>>
        /\ wire' = [wire EXCEPT ![c] = <<>>]
        /\ sub' = [sub EXCEPT ![c] = NoSub]
    BY DEF Drop
  <1>2. Link(NoSub, <<>>, page[c], got[c], skipped[c], Base)
    <2>1. Link(sub[c], wire[c], page[c], got[c], skipped[c], Base)
      BY DEF Linked
    <2>2. Len(<<>>) = 0 /\ ~NoSub.on
      BY DEF NoSub
    <2> QED
      BY <2>1, <2>2 DEF Link, Rising
  <1>3. /\ page' = [page EXCEPT ![c] = page[c]]
        /\ got' = [got EXCEPT ![c] = got[c]]
        /\ skipped'[c] = skipped[c]
        /\ \A d \in Clients : d # c => skipped'[d] = skipped[d]
    BY <1>1, SameOfClient
  <1> QED
    BY <1>1, <1>2, <1>3, ReaderLinks

\* A page starts right behind the cursor.
LEMMA PollLinks ==
    ASSUME LInv, Linked, Kept, NEW c \in Clients, Poll(c)
    PROVE  Linked'
  <1> DEFINE p == FramesAfter(LastId(c), PageLimit)
  <1>1. /\ marks = <<>> /\ UNCHANGED <<sub, wire, got, skipped>>
        /\ page' = [page EXCEPT ![c] = p]
    BY DEF Poll
  <1>2. \A i \in 1..Len(p) : p[i].id = LastId(c) + i
    BY <1>1, LedgerBounds, PageIsRows DEF LInv
  <1>3. LastId(c) = Tip(got[c]) /\ LastId(c) \in 0..LastId(c)
    BY CursorIsTip
  <1> HIDE DEF p
  <1>4. Link(sub[c], wire[c], p, got[c], skipped[c], Base)
    <2>1. Link(sub[c], wire[c], page[c], got[c], skipped[c], Base)
      BY DEF Linked
    <2>2. PageFits(p, Tip(got[c]))
      BY <1>2, <1>3 DEF PageFits
    <2> QED
      BY <2>1, <2>2 DEF Link
  <1>5. /\ sub' = [sub EXCEPT ![c] = sub[c]]
        /\ wire' = [wire EXCEPT ![c] = wire[c]]
        /\ got' = [got EXCEPT ![c] = got[c]]
        /\ skipped'[c] = skipped[c]
        /\ \A d \in Clients : d # c => skipped'[d] = skipped[d]
        /\ page' = [page EXCEPT ![c] = p]
    BY <1>1, SameOfClient
  <1>6. Link(sub[c], wire[c], p, got[c], skipped'[c], Base)
    BY <1>4, <1>5
  <1> QED
    BY <1>5, <1>6, ReaderLinks

\* What a client holds after a message.
LEMMA MessageFacts ==
    ASSUME LInv, NEW c \in Clients, Receive(c), NEW a,
           a = IF Head(wire[c]).id <= Tip(got[c]) THEN got[c]
               ELSE Append(got[c], Head(wire[c]))
    PROVE  /\ a \in Seq(Frame) /\ got' = [got EXCEPT ![c] = a]
           /\ Head(wire[c]) \in Frame /\ RowOf(Head(wire[c]))
           /\ wire[c] # <<>> /\ wire[c] \in Seq(Frame) /\ got[c] \in Seq(Frame)
  <1>1. /\ wire[c] # <<>> /\ wire[c] \in Seq(Frame) /\ got[c] \in Seq(Frame)
        /\ \A i \in 1..Len(wire[c]) : RowOf(wire[c][i])
    BY ClientFacts DEF Receive, LInv
  <1>2. Head(wire[c]) \in Frame /\ RowOf(Head(wire[c]))
    <2>1. Head(wire[c]) = wire[c][1] /\ Len(wire[c]) >= 1
      BY <1>1, TailFacts
    <2>2. 1 \in 1..Len(wire[c])
      BY <1>1, <2>1, SeqFacts
    <2>3. wire[c][1] \in Frame
      BY <1>1, <2>2, SeqFacts
    <2> QED
      BY <1>1, <2>1, <2>2, <2>3
  <1>3. Append(got[c], Head(wire[c])) \in Seq(Frame)
    BY <1>1, <1>2, AppendFacts
  <1>4. got' = [got EXCEPT ![c] = a]
    BY CursorIsTip, SameOfClient DEF Receive
  <1> QED
    BY <1>1, <1>2, <1>3, <1>4

\* A message keeps the view whole.
LEMMA ReceiveLinks ==
    ASSUME LInv, Linked, Kept, NEW c \in Clients, Receive(c)
    PROVE  Linked'
  <1> DEFINE w == Tail(wire[c])
             a == IF Head(wire[c]).id <= Tip(got[c]) THEN got[c]
                  ELSE Append(got[c], Head(wire[c]))
  <1>1. UNCHANGED <<sub, page, skipped>> /\ wire' = [wire EXCEPT ![c] = w]
    BY DEF Receive
  <1>2. /\ a \in Seq(Frame) /\ got' = [got EXCEPT ![c] = a]
        /\ wire[c] # <<>> /\ wire[c] \in Seq(Frame) /\ got[c] \in Seq(Frame)
    BY MessageFacts
  <1>3. Link(sub[c], wire[c], page[c], got[c], skipped[c], Base)
    BY DEF Linked
  <1>4. Link(sub[c], w, page[c], a, skipped[c], Base)
    BY <1>2, <1>3, FoldMessage
  <1>5. /\ sub' = [sub EXCEPT ![c] = sub[c]]
        /\ page' = [page EXCEPT ![c] = page[c]]
        /\ skipped'[c] = skipped[c]
        /\ \A d \in Clients : d # c => skipped'[d] = skipped[d]
    BY <1>1, SameOfClient
  <1> HIDE DEF w, a
  <1> QED
    BY <1>1, <1>2, <1>4, <1>5, ReaderLinks

\* Whatever the stream folded while the page was on its way is skipped, and what
\* is folded is the next.
LEMMA ReceivePageLinks ==
    ASSUME LInv, Linked, Kept, NEW c \in Clients, ReceivePage(c)
    PROVE  Linked'
  <1> DEFINE a == got[c] \o Fresh(page[c], Tip(got[c]))
  <1>1. /\ UNCHANGED <<sub, wire, skipped>>
        /\ page' = [page EXCEPT ![c] = <<>>]
        /\ got' = [got EXCEPT ![c] = a]
    BY CursorIsTip DEF ReceivePage
  <1>2. wire[c] \in Seq(Frame) /\ page[c] \in Seq(Frame) /\ got[c] \in Seq(Frame)
    BY ClientFacts DEF LInv
  <1>3. Link(sub[c], wire[c], page[c], got[c], skipped[c], Base)
    BY DEF Linked
  <1>4. Link(sub[c], wire[c], <<>>, a, skipped[c], Base)
    BY <1>2, <1>3, FoldPage
  <1>5. /\ sub' = [sub EXCEPT ![c] = sub[c]]
        /\ wire' = [wire EXCEPT ![c] = wire[c]]
        /\ skipped'[c] = skipped[c]
        /\ \A d \in Clients : d # c => skipped'[d] = skipped[d]
    BY <1>1, SameOfClient
  <1> HIDE DEF a
  <1> QED
    BY <1>1, <1>4, <1>5, ReaderLinks

\* Of frames that are all new, all are fresh.
LEMMA FreshOfNew ==
    ASSUME NEW frames \in Seq(Frame), NEW n \in Nat,
           \A i \in 1..Len(frames) : frames[i].id \in Nat /\ frames[i].id > n
    PROVE  Fresh(frames, n) = frames
  <1>1. Len(frames) \in Nat /\ DOMAIN frames = 1..Len(frames)
    BY SeqFacts
  <1>2. {i \in DOMAIN frames : frames[i].id <= n} = {}
    <2> SUFFICES ASSUME NEW i \in 1..Len(frames), frames[i].id <= n
                 PROVE  FALSE
      BY <1>1
    <2> QED
      OBVIOUS
  <1>3. Cardinality({}) = 0
    BY FS_EmptySet
  <1>4. Fresh(frames, n) = SubSeq(frames, 1 + 0, Len(frames))
    BY <1>2, <1>3 DEF Fresh
  <1>5. /\ SubSeq(frames, 1 + 0, Len(frames)) \in Seq(Frame)
        /\ Len(SubSeq(frames, 1 + 0, Len(frames))) = Len(frames) - 0
        /\ \A i \in 1..(Len(frames) - 0) :
              SubSeq(frames, 1 + 0, Len(frames))[i] = frames[0 + i]
    <2>1. 0 \in Nat /\ 0 <= Len(frames)
      BY <1>1
    <2> QED
      BY <2>1, SuffixFacts
  <1> DEFINE t == SubSeq(frames, 1 + 0, Len(frames))
  <1>6. Len(t) = Len(frames) /\ \A i \in 1..Len(t) : t[i] = frames[i]
    BY <1>1, <1>5
  <1>7. t = frames
    <2>1. t \in Seq(Frame)
      BY <1>5
    <2> HIDE DEF t
    <2> QED
      BY <1>6, <2>1, SeqEqual
  <1> QED
    BY <1>4, <1>7

\* A commit's frames go behind what is on the wire.
LEMMA PublishLink ==
    ASSUME NEW s, NEW w \in Seq(Frame), NEW f \in Seq(Frame), NEW p,
           NEW g \in Seq(Frame), NEW k, NEW b \in Nat, Link(s, w, p, g, k, b), s.on,
           \A i \in 1..Len(f) : f[i].id = b + i,
           NEW t, t.on,
           Len(f) = 0 => t.lastSent = s.lastSent,
           Len(f) > 0 => t.lastSent = b + Len(f)
    PROVE  Link(t, w \o f, p, g, k, b + Len(f))
  <1> DEFINE v == w \o f
             l == Tip(g)
             e == b + Len(f)
  <1>1. Len(w) \in Nat /\ Len(f) \in Nat /\ e \in Nat
    BY SeqFacts
  <1>2. /\ Len(v) = Len(w) + Len(f)
        /\ \A i \in 1..Len(w) : v[i] = w[i]
        /\ \A i \in 1..Len(f) : v[Len(w) + i] = f[i]
    BY ConcatFacts
  <1> HIDE DEF v
  <1>3. /\ Rising(g) /\ PageFits(p, l) /\ Rising(w)
        /\ \A n \in 1..l : Has(g, n) \/ n \in k
        /\ \A i \in 1..Len(w) : Within(w[i].id, l, k, w)
        /\ s.lastSent \in 0..b
        /\ \A i \in 1..Len(w) : w[i].id <= s.lastSent
        /\ Within(s.lastSent, l, k, w)
        /\ s.lastSent + 1 .. b \subseteq k
    BY DEF Link
  <1>4. \A i \in 1..Len(w) : w[i].id \in Nat /\ w[i].id <= b
    <2>1. \A i \in 1..Len(w) : w[i] \in Frame
      BY SeqFacts
    <2>2. \A x \in Frame : x.id \in Nat
      BY DEF Frame
    <2> QED
      BY <1>3, <2>1, <2>2
  <1>5. ASSUME NEW i \in 1..Len(v)
        PROVE  \/ i \in 1..Len(w) /\ v[i].id = w[i].id
               \/ i > Len(w) /\ v[i].id = b + (i - Len(w)) /\ i - Len(w) \in 1..Len(f)
    <2>1. CASE i <= Len(w)
      <3>1. i \in 1..Len(w)
        BY <1>1, <2>1
      <3> QED
        BY <1>2, <3>1
    <2>2. CASE i > Len(w)
      <3> DEFINE j == i - Len(w)
      <3>1. j \in 1..Len(f) /\ Len(w) + j = i
        BY <1>1, <1>2, <2>2
      <3> HIDE DEF j
      <3>2. v[i] = f[j] /\ f[j].id = b + j
        BY <1>2, <3>1
      <3> QED
        BY <2>2, <3>1, <3>2 DEF j
    <2> QED
      BY <1>1, <2>1, <2>2
  <1>6. Rising(v)
    <2> SUFFICES ASSUME NEW i \in 1..Len(v), NEW j \in 1..Len(v), i < j
                 PROVE  v[i].id < v[j].id
      BY DEF Rising
    <2>1. CASE j \in 1..Len(w)
      <3>1. i \in 1..Len(w)
        BY <1>1, <2>1
      <3>2. w[i].id < w[j].id
        BY <1>3, <2>1, <3>1 DEF Rising
      <3> QED
        BY <1>2, <2>1, <3>1, <3>2
    <2>2. CASE ~(j \in 1..Len(w))
      <3>1. v[j].id = b + (j - Len(w)) /\ j > Len(w)
        BY <1>5, <2>2
      <3>2. CASE i \in 1..Len(w)
        <4>1. v[i].id <= b /\ v[i].id \in Nat
          BY <1>2, <1>4, <3>2
        <4> QED
          BY <1>1, <3>1, <4>1
      <3>3. CASE ~(i \in 1..Len(w))
        <4>1. v[i].id = b + (i - Len(w))
          BY <1>5, <3>3
        <4> QED
          BY <1>1, <3>1, <4>1
      <3> QED
        BY <3>2, <3>3
    <2> QED
      BY <2>1, <2>2
  <1>7. \A n : Has(w, n) => Has(v, n)
    <2>1. \A i \in 1..Len(w) : i \in 1..Len(v)
      BY <1>1, <1>2
    <2> QED
      BY <1>2, <2>1 DEF Has
  <1>8. ASSUME NEW n \in b + 1 .. e
        PROVE  Has(v, n)
    <2> DEFINE j == n - b
    <2>1. j \in 1..Len(f) /\ b + j = n
      BY <1>1
    <2> HIDE DEF j
    <2>2. Len(w) + j \in 1..Len(v)
      BY <1>1, <1>2, <2>1
    <2>3. v[Len(w) + j] = f[j] /\ f[j].id = b + j
      BY <1>2, <2>1
    <2> QED
      BY <2>1, <2>2, <2>3 DEF Has
  <1> HIDE DEF l
  <1>9. ASSUME NEW n \in Nat, n <= e
        PROVE  Within(n, l, k, v)
    <2> SUFFICES ASSUME NEW m \in 1..n
                 PROVE  m <= l \/ m \in k \/ Has(v, m)
      BY DEF Within
    <2>1. CASE m <= s.lastSent
      <3>1. m \in 1..s.lastSent
        BY <1>3, <2>1
      <3> QED
        BY <1>3, <1>7, <3>1 DEF Within
    <2>2. CASE m > s.lastSent /\ m <= b
      BY <1>3, <2>2
    <2>3. CASE m > b
      <3>1. m \in b + 1 .. e
        BY <1>1, <1>9, <2>3
      <3> QED
        BY <1>8, <3>1
    <2> QED
      BY <1>3, <2>1, <2>2, <2>3
  <1>10. \A i \in 1..Len(v) : v[i].id \in Nat /\ v[i].id <= e
    <2> TAKE i \in 1..Len(v)
    <2>1. CASE i \in 1..Len(w)
      BY <1>1, <1>2, <1>4, <2>1
    <2>2. CASE ~(i \in 1..Len(w))
      <3>1. v[i].id = b + (i - Len(w)) /\ i - Len(w) \in 1..Len(f)
        BY <1>5, <2>2
      <3> QED
        BY <1>1, <3>1
    <2> QED
      BY <2>1, <2>2
  <1>11. /\ t.lastSent \in 0..e
         /\ \A i \in 1..Len(v) : v[i].id <= t.lastSent
         /\ t.lastSent + 1 .. e \subseteq k
    <2>1. CASE Len(f) = 0
      <3>1. \A i \in 1..Len(v) : i \in 1..Len(w)
        BY <1>1, <1>2, <2>1
      <3>2. e = b /\ t.lastSent = s.lastSent
        BY <2>1
      <3> HIDE DEF e
      <3> QED
        BY <1>2, <1>3, <3>1, <3>2
    <2>2. CASE Len(f) > 0
      BY <1>1, <1>10, <2>2
    <2> QED
      BY <1>1, <2>1, <2>2
  <1> HIDE DEF e
  <1>12. t.lastSent \in Nat /\ t.lastSent <= e
    BY <1>1, <1>11
  <1>13. Link(t, v, p, g, k, e)
    BY <1>3, <1>6, <1>9, <1>10, <1>11, <1>12 DEF Link, l
  <1> QED
    BY <1>13 DEF v, e

\* A commit sends every connected client all of its frames.
LEMMA OuterFinishLinks ==
    ASSUME LInv, Linked, Finish, Len(marks) = 1
    PROVE  Linked'
  <1>1. /\ Publish(buffered) /\ Base' = Len(table)
    BY OuterFinishKeeps DEF LInv
  <1>2. /\ Base \in Nat /\ Len(table) \in Nat /\ Len(buffered) \in Nat
        /\ buffered \in Seq(Frame)
        /\ Base' = Base + Len(buffered)
        /\ \A i \in 1..Len(buffered) : buffered[i].id = Base + i
    <2>1. /\ Base \in Nat /\ Len(table) \in Nat /\ Len(buffered) \in Nat
          /\ buffered \in Seq(Frame)
      BY CommittedIs, SeqFacts DEF LInv, WInv, TypeOK
    <2>2. Len(buffered) = Len(table) - Base
      BY DEF LInv, WInv, Buffer
    <2> QED
      BY <1>1, <2>1, <2>2 DEF LInv, WInv, Buffer
  <1> SUFFICES ASSUME NEW c \in Clients
               PROVE  Link(sub'[c], wire'[c], page'[c], got'[c], skipped'[c], Base')
    BY DEF Linked
  <1>3. Link(sub[c], wire[c], page[c], got[c], skipped[c], Base)
    BY DEF Linked
  <1>4. page' = page /\ got' = got /\ skipped' = skipped /\ sub'[c].on = sub[c].on
    BY <1>1, PublishFacts DEF LInv, WInv, Publish
  <1>5. CASE ~sub[c].on
    <2>1. wire'[c] = wire[c] /\ sub'[c] = sub[c]
      BY <1>1, <1>5, PublishFacts DEF LInv, WInv
    <2> QED
      BY <1>3, <1>4, <1>5, <2>1 DEF Link
  <1>6. CASE sub[c].on
    <2> DEFINE n == sub[c].lastSent
    <2>1. n \in 0..Base
      BY <1>3, <1>6 DEF Link
    <2>2. \A i \in 1..Len(buffered) : buffered[i].id \in Nat /\ buffered[i].id > n
      BY <1>2, <2>1
    <2>3. Fresh(buffered, n) = buffered
      <3>1. n \in Nat
        BY <1>2, <2>1
      <3> HIDE DEF n
      <3> QED
        BY <1>2, <2>2, <3>1, FreshOfNew
    <2>4. /\ wire'[c] = wire[c] \o buffered
          /\ sub'[c].lastSent = SentUpTo(buffered, n)
      BY <1>1, <1>6, <2>3, PublishFacts DEF LInv, WInv
    <2>5. Len(buffered) = 0 => sub'[c].lastSent = n
      <3>1. Len(buffered) = 0 => buffered = <<>>
        BY <1>2, SeqFacts
      <3> QED
        BY <2>3, <2>4, <3>1 DEF SentUpTo
    <2>6. Len(buffered) > 0 => sub'[c].lastSent = Base + Len(buffered)
      <3> SUFFICES ASSUME Len(buffered) > 0
                   PROVE  sub'[c].lastSent = Base + Len(buffered)
        OBVIOUS
      <3>1. buffered # <<>> /\ Len(buffered) \in 1..Len(buffered)
        BY <1>2, SeqFacts
      <3>2. sub'[c].lastSent = buffered[Len(buffered)].id
        BY <2>3, <2>4, <3>1 DEF SentUpTo
      <3> QED
        BY <1>2, <3>1, <3>2
    <2>7. wire[c] \in Seq(Frame) /\ got[c] \in Seq(Frame)
      BY ClientFacts DEF LInv
    <2>8. Link(sub'[c], wire[c] \o buffered, page[c], got[c], skipped[c],
               Base + Len(buffered))
      BY <1>2, <1>3, <1>4, <1>6, <2>5, <2>6, <2>7, PublishLink
    <2> QED
      BY <1>2, <1>4, <2>4, <2>8
  <1> QED
    BY <1>5, <1>6

\* Steps of the writer that publish nothing, and a step that does nothing.
LEMMA QuietLinks ==
    ASSUME Linked, Kept, UNCHANGED <<sub, wire, page, got, skipped>>
    PROVE  Linked'
  BY DEF Linked, Kept

\* A new process has no subscribers.
LEMMA CrashLinks ==
    ASSUME LInv, Linked, Kept, Crash
    PROVE  Linked'
  <1> SUFFICES ASSUME NEW c \in Clients
               PROVE  Link(sub'[c], wire'[c], page'[c], got'[c], skipped'[c], Base')
    BY DEF Linked
  <1>1. /\ wire' = wire /\ page' = page /\ got' = got /\ skipped' = skipped
        /\ ~sub'[c].on
    BY DEF Crash, NoSub
  <1>2. Link(sub[c], wire[c], page[c], got[c], skipped[c], Base)
    BY DEF Linked
  <1> QED
    BY <1>1, <1>2 DEF Link

\* The inductive invariant of ledger and stream.
FInv == LInv /\ Linked

\* Nobody has read anything of an empty ledger.
LEMMA InitFInv ==
    ASSUME Init
    PROVE  FInv
  <1>1. LInv
    BY InitLInv
  <1>2. ASSUME NEW c \in Clients
        PROVE  Link(sub[c], wire[c], page[c], got[c], skipped[c], Base)
    <2>1. /\ sub[c] = NoSub /\ wire[c] = <<>> /\ page[c] = <<>> /\ got[c] = <<>>
          /\ skipped[c] = {}
      BY DEF Init
    <2>2. Len(<<>>) = 0 /\ ~NoSub.on /\ Tip(<<>>) = 0 /\ 0 \in 0..0
      BY DEF NoSub, Tip
    <2> QED
      BY <2>1, <2>2 DEF Link, Rising, PageFits
  <1> QED
    BY <1>1, <1>2 DEF FInv, Linked

\* Every step keeps every client's view whole.
LEMMA StepFInv ==
    ASSUME FInv, [Next]_vars
    PROVE  FInv'
  <1> USE DEF FInv
  <1>1. LInv'
    BY StepLInv
  <1> SUFFICES Linked'
    BY <1>1
  <1>2. CASE Begin
    BY <1>2, BeginKeeps, QuietLinks DEF LInv, Begin, stream
  <1>3. ASSUME NEW e \in Events, AppendEvent(e)
        PROVE  Linked'
    BY <1>3, AppendKeeps, QuietLinks DEF LInv, AppendEvent, stream
  <1>4. CASE Finish
    <2>1. CASE Len(marks) = 1
      BY <1>4, <2>1, OuterFinishLinks
    <2>2. CASE Len(marks) # 1
      BY <1>4, <2>2, InnerFinishKeeps, QuietLinks DEF LInv, stream
    <2> QED
      BY <2>1, <2>2
  <1>5. CASE Fail
    BY <1>5, FailKeeps, QuietLinks DEF LInv, Fail, stream
  <1>6. CASE Crash
    BY <1>6, CrashKeeps, CrashLinks DEF LInv
  <1>7. ASSUME NEW c \in Clients, Read(c)
        PROVE  Linked'
    <2>1. CASE Connect(c)
      BY <2>1, ConnectKeeps, ConnectLinks DEF LInv
    <2>2. CASE Drop(c)
      BY <2>2, DropKeeps, DropLinks DEF LInv
    <2>3. CASE Poll(c)
      BY <2>3, PollKeeps, PollLinks DEF LInv
    <2>4. CASE Receive(c)
      BY <2>4, ReceiveKeeps, ReceiveLinks DEF LInv
    <2>5. CASE ReceivePage(c)
      BY <2>5, ReceivePageKeeps, ReceivePageLinks DEF LInv
    <2> QED
      BY <1>7, <2>1, <2>2, <2>3, <2>4, <2>5 DEF Read
  <1>8. CASE UNCHANGED vars
    BY <1>8, QuietLinks DEF vars, ledger, stream, Kept, Base
  <1> QED
    BY <1>1, <1>2, <1>3, <1>4, <1>5, <1>6, <1>7, <1>8 DEF Next, Write

\* Every client's view is whole in every reachable state, but for what the
\* backfill of a reconnect did not reach (LedgerStreamHub.attach), whatever its
\* limit and however long the ledger.
THEOREM StreamBookkeeping == Spec => []FInv
  <1>1. Init => FInv
    BY InitFInv
  <1>2. FInv /\ [Next]_vars => FInv'
    BY StepFInv
  <1> QED
    BY <1>1, <1>2, PTL DEF Spec

\* A whole view has no gap.
LEMMA FInvMeansNoGap ==
    ASSUME FInv
    PROVE  NoGap
  <1> SUFFICES ASSUME NEW c \in Clients
               PROVE  /\ \A i, j \in DOMAIN got[c] :
                            i < j => got[c][i].id < got[c][j].id
                      /\ 1..LastId(c) \subseteq Folded(c) \union skipped[c]
    BY DEF NoGap
  <1>1. DOMAIN got[c] = 1..Len(got[c])
    BY SeqFacts DEF FInv, LInv, WInv, TypeOK
  <1>2. Link(sub[c], wire[c], page[c], got[c], skipped[c], Base)
    BY DEF FInv, Linked
  <1>3. LastId(c) = Tip(got[c])
    BY CursorIsTip DEF FInv
  <1>4. \A i, j \in DOMAIN got[c] : i < j => got[c][i].id < got[c][j].id
    BY <1>1, <1>2 DEF Link, Rising
  <1>5. \A n \in 1..LastId(c) : n \in Folded(c) \/ n \in skipped[c]
    BY <1>1, <1>2, <1>3 DEF Link, Has, Folded
  <1> QED
    BY <1>4, <1>5

\* A whole view is up to date with the stream.
LEMMA FInvMeansNothingWithheld ==
    ASSUME FInv
    PROVE  NothingWithheld
  BY DEF FInv, Linked, Link, NothingWithheld, Base

\* A client folds the ledger in order, no event twice, and up to its cursor
\* without a hole but for what a backfill did not reach, over drops, crashes,
\* reconnects and polls that overlap a stream, for every limit of the backfill.
THEOREM StreamIsWhole == Spec => []NoGap
  <1>1. FInv => NoGap
    BY FInvMeansNoGap
  <1> QED
    BY <1>1, StreamBookkeeping, PTL

\* A connected client was sent everything committed, but for what the backfill of
\* its last connection did not reach.
THEOREM StreamIsUpToDate == Spec => []NothingWithheld
  <1>1. FInv => NothingWithheld
    BY FInvMeansNothingWithheld
  <1> QED
    BY <1>1, StreamBookkeeping, PTL

-----------------------------------------------------------------------------
\* What CommittedIs says, as one formula.
CommittedLen ==
    /\ Committed \in Seq(Events) /\ Len(Committed) = Base /\ Base \in Nat
    /\ \A i \in 1..Base : Committed[i] = table[i]

\* The committed log after a step.
LEMMA CommittedNext == TypeOK' /\ MarksNested' => CommittedLen'
  <1>1. TypeOK /\ MarksNested => CommittedLen
    BY CommittedIs DEF CommittedLen
  <1> QED
    BY <1>1, PTL

\* The committed log stays or grows.
LEMMA LogGrows ==
    ASSUME LInv, LInv', Grown
    PROVE  /\ Committed' \in Seq(Events)
           /\ Committed' = Committed \/ IsStrictPrefix(Committed, Committed')
  <1>1. /\ Committed \in Seq(Events) /\ Len(Committed) = Base /\ Base \in Nat
        /\ \A i \in 1..Base : Committed[i] = table[i]
    BY CommittedIs DEF LInv, WInv
  <1>2. /\ Committed' \in Seq(Events) /\ Len(Committed') = Base' /\ Base' \in Nat
        /\ \A i \in 1..Base' : Committed'[i] = table'[i]
    <2>1. TypeOK' /\ MarksNested'
      BY DEF LInv, WInv
    <2>2. CommittedLen'
      BY <2>1, CommittedNext
    <2> QED
      BY <2>2 DEF CommittedLen
  <1> DEFINE t == SubSeq(Committed', 1, Len(Committed))
             u == SubSeq(Committed, 1, Len(Committed))
  <1>3. Len(Committed) \in Nat /\ Len(Committed) <= Len(Committed')
    BY <1>1, <1>2 DEF Grown
  <1>4. /\ t \in Seq(Events) /\ Len(t) = Len(Committed)
        /\ \A i \in 1..Len(Committed) : t[i] = Committed'[i]
    BY <1>2, <1>3, SubSeqFacts
  <1>5. /\ u \in Seq(Events) /\ Len(u) = Len(Committed)
        /\ \A i \in 1..Len(Committed) : u[i] = Committed[i]
    BY <1>1, <1>3, SubSeqFacts
  <1>6. \A i \in 1..Len(Committed) : Committed'[i] = Committed[i]
    BY <1>1, <1>2 DEF Grown
  <1> HIDE DEF t, u
  <1>7. u = t
    <2>1. Len(u) = Len(t) /\ \A i \in 1..Len(u) : u[i] = t[i]
      BY <1>4, <1>5, <1>6
    <2> QED
      BY <1>4, <1>5, <2>1, SeqEqual
  <1>8. IsPrefix(Committed, Committed')
    BY <1>3, <1>7 DEF IsPrefix, t, u
  <1> QED
    BY <1>2, <1>8 DEF IsStrictPrefix

\* The reader's place in the feed is the client's cursor.
LEMMA PlaceIsCursor ==
    ASSUME NEW c \in Clients
    PROVE  Feed!Place(c) = LastId(c)
  BY DEF Feed!Place, LastId

\* A writer's step, or a crash, grows the log or leaves it.
LEMMA WriteFeeds ==
    ASSUME LInv, [Next]_vars, UNCHANGED <<got, skipped>>
    PROVE  [Feed!Next]_Feed!vars
  <1>1. /\ Committed' \in Seq(Events)
        /\ Committed' = Committed \/ IsStrictPrefix(Committed, Committed')
    BY StepLInv, LogGrows
  <1>2. IsStrictPrefix(Committed, Committed') =>
          Feed!IsStrictPrefix(Committed, Committed')
    BY DEF IsStrictPrefix, IsPrefix, Feed!IsStrictPrefix, Feed!IsPrefix
  <1> QED
    BY <1>1, <1>2 DEF Feed!Next, Feed!vars, Feed!Commit

\* A reconnect is a reader who joins.
LEMMA ConnectFeeds ==
    ASSUME NEW c \in Clients, Connect(c)
    PROVE  Feed!Join(c)
  <1>1. /\ marks = <<>> /\ UNCHANGED <<table, marks, got>>
        /\ skipped' = [skipped EXCEPT ![c] =
             {n \in @ : n <= LastId(c)} \union (LastId(c) + BackfillLimit + 1 .. Len(table))]
    BY DEF Connect, Skip, OutOfReach, ledger
  <1>2. Committed = table /\ Committed' = Committed
    BY <1>1 DEF Committed
  <1> QED
    BY <1>1, <1>2, PlaceIsCursor DEF Feed!Join

\* A run of frames that are committed rows is what the feed shows.
LEMMA RunIsShown ==
    ASSUME LInv, NEW f \in Seq(Frame), NEW a \in Nat,
           \A i \in 1..Len(f) : f[i].id = a + i - 1 /\ RowOf(f[i]),
           NEW b, b = a + Len(f) - 1
    PROVE  f = [i \in 1..(b - a + 1) |-> [id |-> a + i - 1, ev |-> Committed[a + i - 1]]]
  <1>1. Len(f) \in Nat /\ f \in [1..Len(f) -> Frame] /\ b - a + 1 = Len(f)
    <2>1. Len(f) \in Nat /\ DOMAIN f = 1..Len(f) /\ f \in [1..Len(f) -> Frame]
      BY SeqFacts, LenProperties
    <2> QED
      BY <2>1
  <1>2. Base \in Nat /\ \A i \in 1..Base : Committed[i] = table[i]
    BY CommittedIs DEF LInv, WInv
  <1>3. ASSUME NEW i \in 1..Len(f)
        PROVE  f[i] = [id |-> a + i - 1, ev |-> Committed[a + i - 1]]
    <2>1. f[i] \in Frame
      BY <1>1
    <2>2. f[i] = [id |-> f[i].id, ev |-> f[i].ev]
      BY <2>1 DEF Frame
    <2>3. f[i].ev = table[f[i].id] /\ f[i].id \in 1..Base /\ f[i].id = a + i - 1
      BY DEF RowOf
    <2>4. f[i].ev = Committed[a + i - 1]
      BY <1>2, <2>3
    <2> HIDE DEF Frame
    <2> QED
      BY <2>2, <2>3, <2>4
  <1> QED
    BY <1>1, <1>3

\* A message is shown to the reader, or was.
LEMMA ReceiveFeeds ==
    ASSUME FInv, NEW c \in Clients, Receive(c)
    PROVE  Feed!Show(c) \/ UNCHANGED Feed!vars
  <1> DEFINE h == Head(wire[c])
             l == LastId(c)
             a == IF h.id <= Tip(got[c]) THEN got[c] ELSE Append(got[c], h)
  <1>1. UNCHANGED <<table, marks, skipped>>
    BY DEF Receive, ledger
  <1>2. Committed' = Committed
    BY <1>1 DEF Committed
  <1>3. /\ a \in Seq(Frame) /\ got' = [got EXCEPT ![c] = a]
        /\ wire[c] # <<>> /\ wire[c] \in Seq(Frame) /\ got[c] \in Seq(Frame)
        /\ h \in Frame /\ RowOf(h)
    BY MessageFacts DEF FInv
  <1>4. l = Tip(got[c]) /\ l \in Nat /\ Base \in Nat /\ Len(Committed) = Base
    BY CursorIsTip, CommittedIs DEF FInv, LInv, WInv
  <1>5. Link(sub[c], wire[c], page[c], got[c], skipped[c], Base)
    BY DEF FInv, Linked
  <1>6. h.id > l => l + 1 .. h.id - 1 \subseteq skipped[c]
    BY <1>3, <1>4, <1>5, FoldMessage
  <1>7. h.id \in Nat /\ h.id \in 1..Base
    BY <1>3, <1>4 DEF RowOf
  <1> HIDE DEF h, l
  <1>8. CASE h.id <= l
    <2>1. a = got[c]
      BY <1>4, <1>8
    <2>2. UNCHANGED got
      BY <1>3, <2>1, SameOfClient DEF FInv
    <2> QED
      BY <1>1, <1>2, <2>2 DEF Feed!vars
  <1>9. CASE h.id > l
    <2> DEFINE f == <<h>>
               n == h.id
    <2>1. a = got[c] \o f
      <3>1. a = Append(got[c], h)
        BY <1>4, <1>7, <1>9
      <3>2. Append(got[c], h) = got[c] \o <<h>>
        BY <1>3
      <3> QED
        BY <3>1, <3>2
    <2>2. f \in Seq(Frame) /\ Len(f) = 1 /\ f[1] = h
      BY <1>3
    <2>3. f = [i \in 1..(n - n + 1) |-> [id |-> n + i - 1, ev |-> Committed[n + i - 1]]]
      <3>1. \A i \in 1..Len(f) : f[i].id = n + i - 1 /\ RowOf(f[i])
        BY <1>3, <1>7, <2>2
      <3>2. n = n + Len(f) - 1 /\ n \in Nat
        BY <1>7, <2>2
      <3> HIDE DEF f, n
      <3> QED
        BY <2>2, <3>1, <3>2, RunIsShown DEF FInv
    <2>4. n \in l + 1 .. Len(Committed) /\ n \in n .. Len(Committed)
      BY <1>4, <1>7, <1>9
    <2>5. l + 1 .. n - 1 \subseteq skipped[c]
      BY <1>6, <1>9
    <2>6. got' = [got EXCEPT ![c] = @ \o f]
      BY <1>3, <2>1
    <2>7. l = Feed!Place(c)
      BY PlaceIsCursor DEF l
    <2> HIDE DEF f, n, a
    <2>8. Feed!Show(c)
      BY <1>1, <1>2, <2>3, <2>4, <2>5, <2>6, <2>7 DEF Feed!Show
    <2> QED
      BY <2>8
  <1> QED
    BY <1>4, <1>7, <1>8, <1>9

\* What is fresh on a page is shown to the reader, if anything is.
LEMMA PageFeeds ==
    ASSUME FInv, NEW c \in Clients, ReceivePage(c)
    PROVE  Feed!Show(c) \/ UNCHANGED Feed!vars
  <1> DEFINE l == LastId(c)
             f == Fresh(page[c], l)
  <1>1. UNCHANGED <<table, marks, skipped>> /\ got' = [got EXCEPT ![c] = got[c] \o f]
    BY DEF ReceivePage, ledger
  <1>2. Committed' = Committed
    BY <1>1 DEF Committed
  <1>3. /\ wire[c] \in Seq(Frame) /\ page[c] \in Seq(Frame) /\ got[c] \in Seq(Frame)
        /\ \A i \in 1..Len(page[c]) : RowOf(page[c][i])
    BY ClientFacts DEF FInv, LInv
  <1>4. l = Tip(got[c]) /\ l \in Nat /\ Base \in Nat /\ Len(Committed) = Base
    BY CursorIsTip, CommittedIs DEF FInv, LInv, WInv
  <1>5. Link(sub[c], wire[c], page[c], got[c], skipped[c], Base)
    BY DEF FInv, Linked
  <1>6. f \in Seq(Frame) /\ \A i \in 1..Len(f) : f[i].id = l + i
    <2>1. f = Fresh(page[c], Tip(got[c]))
      BY <1>4
    <2>2. /\ Fresh(page[c], Tip(got[c])) \in Seq(Frame)
          /\ \A i \in 1..Len(Fresh(page[c], Tip(got[c]))) :
                Fresh(page[c], Tip(got[c]))[i].id = Tip(got[c]) + i
      BY <1>3, <1>5, FreshPage DEF Link
    <2> HIDE DEF f
    <2> QED
      BY <1>4, <2>1, <2>2
  <1>7. \A i \in 1..Len(f) : RowOf(f[i])
    <2>1. PICK k \in Nat :
            /\ k <= Len(page[c])
            /\ Len(f) = Len(page[c]) - k
            /\ \A i \in 1..(Len(page[c]) - k) : f[i] = page[c][k + i]
      BY <1>3, <1>4, FreshFacts
    <2>2. Len(page[c]) \in Nat
      BY <1>3, SeqFacts
    <2> HIDE DEF f
    <2>3. \A i \in 1..Len(f) : k + i \in 1..Len(page[c])
      BY <2>1, <2>2
    <2> QED
      BY <1>3, <2>1, <2>3
  <1>8. Len(f) \in Nat
    BY <1>6, SeqFacts
  <1> HIDE DEF f, l
  <1>9. CASE Len(f) = 0
    <2>1. f = <<>>
      BY <1>6, <1>9, SeqFacts
    <2>2. got[c] \o <<>> = got[c]
      BY <1>3
    <2>3. UNCHANGED got
      BY <1>1, <2>1, <2>2, SameOfClient DEF FInv
    <2> QED
      BY <1>1, <1>2, <2>3 DEF Feed!vars
  <1>10. CASE Len(f) > 0
    <2> DEFINE a == l + 1
               b == l + Len(f)
    <2>1. a \in Nat /\ b = a + Len(f) - 1
      BY <1>4, <1>8
    <2>2. \A i \in 1..Len(f) : f[i].id = a + i - 1 /\ RowOf(f[i])
      BY <1>4, <1>6, <1>7
    <2>3. Len(f) \in 1..Len(f) /\ f[Len(f)].id = b /\ RowOf(f[Len(f)])
      BY <1>6, <1>7, <1>8, <1>10
    <2>4. b <= Len(Committed)
      BY <1>4, <2>3 DEF RowOf
    <2>5. a \in l + 1 .. Len(Committed) /\ b \in a .. Len(Committed)
          /\ l + 1 .. a - 1 \subseteq skipped[c]
      BY <1>4, <1>8, <1>10, <2>4
    <2> HIDE DEF a, b
    <2>6. f = [i \in 1..(b - a + 1) |-> [id |-> a + i - 1, ev |-> Committed[a + i - 1]]]
      BY <1>6, <2>1, <2>2, RunIsShown DEF FInv
    <2>7. l = Feed!Place(c)
      BY PlaceIsCursor DEF l
    <2>8. got' = [got EXCEPT ![c] = @ \o f]
      BY <1>1
    <2>9. Feed!Show(c)
      BY <1>1, <1>2, <2>5, <2>6, <2>7, <2>8 DEF Feed!Show
    <2> QED
      BY <2>9
  <1> QED
    BY <1>8, <1>9, <1>10

\* An empty ledger is an empty feed.
LEMMA FeedInit ==
    ASSUME Init
    PROVE  Feed!Init
  BY DEF Init, Committed, Feed!Init

\* Every step of the ledger is a step of the feed, or none.
LEMMA FeedStep ==
    ASSUME FInv, [Next]_vars
    PROVE  [Feed!Next]_Feed!vars
  <1>1. CASE Write
    <2>1. UNCHANGED <<got, skipped>>
      BY <1>1 DEF Write, Begin, AppendEvent, Finish, Fail, Publish, stream
    <2> QED
      BY <2>1, WriteFeeds DEF FInv
  <1>2. CASE Crash
    BY <1>2, WriteFeeds DEF FInv, Crash
  <1>3. ASSUME NEW c \in Clients, Read(c)
        PROVE  [Feed!Next]_Feed!vars
    <2>1. CASE Connect(c)
      BY <2>1, ConnectFeeds DEF Feed!Next
    <2>2. CASE Drop(c) \/ Poll(c)
      BY <2>2, WriteFeeds DEF FInv, Drop, Poll
    <2>3. CASE Receive(c)
      BY <2>3, ReceiveFeeds DEF Feed!Next
    <2>4. CASE ReceivePage(c)
      BY <2>4, PageFeeds DEF Feed!Next
    <2> QED
      BY <1>3, <2>1, <2>2, <2>3, <2>4 DEF Read
  <1>4. CASE UNCHANGED vars
    BY <1>4, WriteFeeds DEF FInv, vars, stream
  <1> QED
    BY <1>1, <1>2, <1>3, <1>4 DEF Next

\* The hub, its cursors and the clients' transport implement EventFeed: the log
\* only grows, and a reader sees it in order, with no hole but one that was wider
\* than a backfill when it joined.
THEOREM ImplementsFeed == Spec => FeedSpec
  <1>1. Init => Feed!Init
    BY FeedInit
  <1>2. FInv /\ [Next]_vars => [Feed!Next]_Feed!vars
    BY FeedStep
  <1> QED
    BY <1>1, <1>2, StreamBookkeeping, PTL DEF Spec, FeedSpec, Feed!Spec
=============================================================================
