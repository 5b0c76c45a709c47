------------------------------- MODULE Basics -------------------------------
(***************************************************************************)
(* What several proofs need to know about numbers, lists and sums. The     *)
(* library's induction theorems take an operator and cannot be used, but   *)
(* induction over a set of numbers can, from the well-foundedness of <.    *)
(***************************************************************************)
EXTENDS Integers, Sequences, FiniteSets, FiniteSetsExt, FiniteSetTheorems,
        SequenceTheorems, WellFoundedInduction, TLAPS

\* A set of numbers that holds 0 and every successor holds them all.
LEMMA Induction ==
    ASSUME NEW I \in SUBSET Nat, 0 \in I, \A n \in I : n + 1 \in I
    PROVE  I = Nat
<1> SUFFICES ASSUME Nat \ I # {}  PROVE FALSE
  OBVIOUS
<1>1. PICK x \in Nat \ I : \A y \in Nat \ I : ~(<<y, x>> \in OpToRel(<, Nat))
  <2>1. Nat \ I \in SUBSET Nat
    OBVIOUS
  <2> QED  BY <2>1, NatLessThanWellFounded, WFMin
<1>2. x \in Nat /\ x \notin I
  OBVIOUS
<1>5. x # 0 /\ x - 1 \in Nat /\ x - 1 < x /\ (x - 1) + 1 = x
  BY ONLY 0 \in I, <1>2
<1>3. x - 1 \in I
  <2>1. x - 1 < x /\ x - 1 \in Nat /\ x \in Nat => <<x - 1, x>> \in OpToRel(<, Nat)
    BY DEF OpToRel
  <2> QED  BY <1>1, <1>2, <1>5, <2>1
<1> QED  BY <1>2, <1>3, <1>5

\* A set of numbers that is not empty has a least one.
LEMMA LeastExists ==
    ASSUME NEW N \in SUBSET Nat, N # {}
    PROVE  \E x \in N : \A y \in N : x <= y
<1>1. PICK x \in N : \A y \in N : ~(<<y, x>> \in OpToRel(<, Nat))
  BY NatLessThanWellFounded, WFMin
<1>2. \A y \in N : ~(y < x)
  <2>1. \A y \in N : y < x /\ y \in Nat /\ x \in Nat => <<y, x>> \in OpToRel(<, Nat)
    BY DEF OpToRel
  <2> QED  BY <1>1, <2>1
<1> QED  BY <1>2

\* The last of the positions up to n + 1 is n + 1.
LEMMA LastPosition ==
    ASSUME NEW n \in Nat, NEW s \in SUBSET (1..(n + 1))
    PROVE  /\ n + 1 \in s => Max(s) = n + 1
           /\ s \ {n + 1} \in SUBSET (1..n)
<1>1. s \ {n + 1} \in SUBSET (1..n)
  <2>1. \A x \in 1..(n + 1) : x # n + 1 => x \in 1..n
    OBVIOUS
  <2> QED  BY <2>1
<1>2. ASSUME n + 1 \in s  PROVE Max(s) = n + 1
  <2>1. /\ \A y \in s : n + 1 >= y
        /\ \A x \in s : x >= n + 1 => x = n + 1
    OBVIOUS
  <2> QED  BY <1>2, <2>1 DEF Max
<1> QED  BY <1>1, <1>2

-----------------------------------------------------------------------------
\* A list is its entries in their order.
LEMMA SeqShape ==
    ASSUME NEW S, NEW s \in Seq(S)
    PROVE  /\ Len(s) \in Nat
           /\ DOMAIN s = 1..Len(s)
           /\ \A i \in 1..Len(s) : s[i] \in S
  BY LenProperties, ElementOfSeq

\* A list without its first.
LEMMA HeadTailShape ==
    ASSUME NEW S, NEW s \in Seq(S), s # <<>>
    PROVE  /\ Head(s) \in S
           /\ Tail(s) \in Seq(S)
           /\ Len(s) > 1 => Tail(s) # <<>>
<1>1. Head(s) \in S /\ Tail(s) \in Seq(S) /\ Len(Tail(s)) = Len(s) - 1
  BY HeadTailProperties
<1>2. Len(s) \in Nat
  BY LenProperties
<1>3. Len(<<>>) = 0
  BY EmptySeq
<1>4. Tail(s) = <<>> => Len(Tail(s)) = 0
  BY <1>3, Zenon
<1> QED  BY <1>1, <1>2, <1>4

-----------------------------------------------------------------------------
(* Sums over finite sets (MapThenSumSet of the community modules): a sum is  *)
(* what its recursion says, an element may be taken out of it, and it grows  *)
(* with its set and with its summands.                                       *)

\* The sum of w over S.
SumOver(w, S) == MapThenSumSet(LAMBDA x : w[x], S)

\* The element a fold takes first.
AnyOf(s) == CHOOSE x \in s : TRUE

\* g adds up every subset of S, one element at a time.
AddsUp(w, S, g) ==
    g = [s \in SUBSET S |-> IF s = {} THEN 0 ELSE w[AnyOf(s)] + g[s \ {AnyOf(s)}]]

\* Taking the picked element leaves a finite set, one smaller.
LEMMA PickShrinks ==
    ASSUME NEW S, IsFiniteSet(S), S # {}
    PROVE  /\ AnyOf(S) \in S
           /\ IsFiniteSet(S \ {AnyOf(S)})
           /\ Cardinality(S) \in Nat \ {0}
           /\ Cardinality(S \ {AnyOf(S)}) = Cardinality(S) - 1
<1>1. AnyOf(S) \in S
  BY DEF AnyOf
<1> HIDE DEF AnyOf
<1> QED  BY <1>1, FS_RemoveElement, FS_CardinalityType, FS_EmptySet

\* The recursion has a solution on the subsets of a finite set.
LEMMA AddsUpExists ==
    ASSUME NEW w, NEW S, IsFiniteSet(S)
    PROVE  \E g : AddsUp(w, S, g)
<1> DEFINE Term(g, s) == IF s = {} THEN 0 ELSE w[AnyOf(s)] + g[s \ {AnyOf(s)}]
           Upto(g, n) == \A s \in SUBSET S : Cardinality(s) <= n => g[s] = Term(g, s)
           I == {n \in Nat : \E g : g = [s \in SUBSET S |-> g[s]] /\ Upto(g, n)}
<1>1. \A s \in SUBSET S : IsFiniteSet(s) /\ Cardinality(s) \in Nat
  BY FS_Subset, FS_CardinalityType
<1>2. 0 \in I
  <2> DEFINE g == [s \in SUBSET S |-> 0]
  <2>1. \A s \in SUBSET S : Cardinality(s) <= 0 => s = {}
    BY <1>1, FS_EmptySet
  <2>2. Upto(g, 0)
    BY <2>1
  <2> QED  BY <2>2
<1>3. ASSUME NEW n \in I  PROVE n + 1 \in I
  <2>1. PICK g : g = [s \in SUBSET S |-> g[s]] /\ Upto(g, n)
    OBVIOUS
  <2> DEFINE h == [s \in SUBSET S |-> Term(g, s)]
  <2>2. ASSUME NEW s \in SUBSET S, Cardinality(s) <= n + 1
        PROVE  h[s] = Term(h, s)
    <3>1. CASE s = {}
      BY <3>1
    <3>2. CASE s # {}
      <4>1. s \ {AnyOf(s)} \in SUBSET S /\ Cardinality(s \ {AnyOf(s)}) <= n
        BY <1>1, <2>2, <3>2, PickShrinks
      <4>2. g[s \ {AnyOf(s)}] = Term(g, s \ {AnyOf(s)})
        BY <2>1, <4>1
      <4>3. h[s \ {AnyOf(s)}] = g[s \ {AnyOf(s)}]
        BY <4>1, <4>2
      <4> QED  BY <3>2, <4>3
    <3> QED  BY <3>1, <3>2
  <2>3. Upto(h, n + 1)
    BY <2>2
  <2>4. \E f : f = [s \in SUBSET S |-> f[s]] /\ Upto(f, n + 1)
    <3>1. h = [s \in SUBSET S |-> h[s]]
      OBVIOUS
    <3> HIDE DEF h, Upto
    <3> QED  BY <2>3, <3>1
  <2>5. n + 1 \in Nat
    OBVIOUS
  <2> HIDE DEF h, Upto
  <2> QED  BY <2>4, <2>5
<1>4. I = Nat
  <2> HIDE DEF I
  <2>1. I \in SUBSET Nat
    BY DEF I
  <2> QED  BY <1>2, <1>3, <2>1, Induction
<1>5. Cardinality(S) \in I
  BY <1>1, <1>4
<1>6. PICK g : g = [s \in SUBSET S |-> g[s]] /\ Upto(g, Cardinality(S))
  BY <1>5
<1>7. ASSUME NEW s \in SUBSET S  PROVE g[s] = Term(g, s)
  BY <1>1, <1>6, FS_Subset
<1> QED  BY <1>6, <1>7 DEF AddsUp

\* Two solutions agree wherever both add up the same summands.
LEMMA AddsUpOnce ==
    ASSUME NEW S, NEW T, NEW v, NEW w, NEW g, NEW h,
           AddsUp(v, S, g), AddsUp(w, T, h),
           IsFiniteSet(S), S \subseteq T, \A x \in S : v[x] = w[x]
    PROVE  \A s \in SUBSET S : g[s] = h[s]
<1> DEFINE I == {n \in Nat : \A s \in SUBSET S : Cardinality(s) <= n => g[s] = h[s]}
<1>1. \A s \in SUBSET S : IsFiniteSet(s) /\ Cardinality(s) \in Nat
  BY FS_Subset, FS_CardinalityType
<1>2. \A s \in SUBSET S :
        /\ g[s] = IF s = {} THEN 0 ELSE v[AnyOf(s)] + g[s \ {AnyOf(s)}]
        /\ h[s] = IF s = {} THEN 0 ELSE w[AnyOf(s)] + h[s \ {AnyOf(s)}]
  BY DEF AddsUp
<1>3. 0 \in I
  <2>1. \A s \in SUBSET S : Cardinality(s) <= 0 => s = {}
    BY <1>1, FS_EmptySet
  <2> QED  BY <1>2, <2>1
<1>4. ASSUME NEW n \in I  PROVE n + 1 \in I
  <2>1. ASSUME NEW s \in SUBSET S, Cardinality(s) <= n + 1, s # {}
        PROVE  g[s] = h[s]
    <3>1. /\ s \ {AnyOf(s)} \in SUBSET S /\ Cardinality(s \ {AnyOf(s)}) <= n
          /\ AnyOf(s) \in S
      BY <1>1, <2>1, PickShrinks
    <3>2. g[s \ {AnyOf(s)}] = h[s \ {AnyOf(s)}]
      BY <3>1
    <3> QED  BY <1>2, <2>1, <3>1, <3>2
  <2> QED  BY <1>2, <2>1
<1>5. I = Nat
  <2> HIDE DEF I
  <2>1. I \in SUBSET Nat
    BY DEF I
  <2> QED  BY <1>3, <1>4, <2>1, Induction
<1> QED  BY <1>1, <1>5

\* The sum is the value of any such solution.
LEMMA SumIsTheSolution ==
    ASSUME NEW w, NEW S, IsFiniteSet(S)
    PROVE  \E g : AddsUp(w, S, g) /\ SumOver(w, S) = g[S]
<1>1. SumOver(w, S) = (CHOOSE g : AddsUp(w, S, g))[S]
  BY DEF SumOver, MapThenSumSet, MapThenFoldSet, AddsUp, AnyOf
<1>2. AddsUp(w, S, CHOOSE g : AddsUp(w, S, g))
  BY AddsUpExists
<1> QED  BY <1>1, <1>2

-----------------------------------------------------------------------------
\* Nothing adds up to nothing.
LEMMA SumEmpty == ASSUME NEW w PROVE SumOver(w, {}) = 0
<1>1. IsFiniteSet({})
  BY FS_EmptySet
<1>2. PICK g : AddsUp(w, {}, g) /\ SumOver(w, {}) = g[{}]
  BY <1>1, SumIsTheSolution
<1> QED  BY <1>2 DEF AddsUp

\* A sum looks at its set's elements only.
LEMMA SumSame ==
    ASSUME NEW S, NEW v, NEW w, IsFiniteSet(S), \A x \in S : v[x] = w[x]
    PROVE  SumOver(v, S) = SumOver(w, S)
<1>1. PICK g : AddsUp(v, S, g) /\ SumOver(v, S) = g[S]
  BY SumIsTheSolution
<1>2. PICK h : AddsUp(w, S, h) /\ SumOver(w, S) = h[S]
  BY SumIsTheSolution
<1>3. \A s \in SUBSET S : g[s] = h[s]
  BY <1>1, <1>2, AddsUpOnce
<1> QED  BY <1>1, <1>2, <1>3

\* The sum of a set with elements, by the element picked first.
LEMMA SumUnfolds ==
    ASSUME NEW w, NEW S, IsFiniteSet(S), S # {}
    PROVE  SumOver(w, S) = w[AnyOf(S)] + SumOver(w, S \ {AnyOf(S)})
<1> DEFINE R == S \ {AnyOf(S)}
<1>1. PICK g : AddsUp(w, S, g) /\ SumOver(w, S) = g[S]
  BY SumIsTheSolution
<1>2. IsFiniteSet(R) /\ R \subseteq S
  BY PickShrinks
<1>3. PICK h : AddsUp(w, R, h) /\ SumOver(w, R) = h[R]
  BY <1>2, SumIsTheSolution
<1>4. \A s \in SUBSET R : h[s] = g[s]
  <2>1. AddsUp(w, S, g) /\ AddsUp(w, R, h) /\ \A x \in R : w[x] = w[x]
    BY <1>1, <1>3
  <2> HIDE DEF R
  <2> QED  BY <1>2, <2>1, AddsUpOnce
<1>5. g[S] = w[AnyOf(S)] + g[R]
  <2>1. \A s \in SUBSET S :
          g[s] = IF s = {} THEN 0 ELSE w[AnyOf(s)] + g[s \ {AnyOf(s)}]
    BY <1>1 DEF AddsUp
  <2>2. S \in SUBSET S
    OBVIOUS
  <2> QED  BY <2>1, <2>2
<1> QED  BY <1>1, <1>3, <1>4, <1>5

\* Sums of numbers are numbers.
LEMMA SumType ==
    ASSUME NEW S, NEW w, IsFiniteSet(S), \A x \in S : w[x] \in Nat
    PROVE  SumOver(w, S) \in Nat
<1> DEFINE I == {n \in Nat : \A T \in SUBSET S :
                    Cardinality(T) <= n => SumOver(w, T) \in Nat}
<1>1. \A T \in SUBSET S : IsFiniteSet(T) /\ Cardinality(T) \in Nat
  BY FS_Subset, FS_CardinalityType
<1>2. 0 \in I
  BY <1>1, FS_EmptySet, SumEmpty
<1>3. ASSUME NEW n \in I  PROVE n + 1 \in I
  <2>1. ASSUME NEW T \in SUBSET S, Cardinality(T) <= n + 1, T # {}
        PROVE  SumOver(w, T) \in Nat
    <3>1. /\ T \ {AnyOf(T)} \in SUBSET S /\ Cardinality(T \ {AnyOf(T)}) <= n
          /\ AnyOf(T) \in S
      BY <1>1, <2>1, PickShrinks
    <3>2. SumOver(w, T \ {AnyOf(T)}) \in Nat
      BY <3>1
    <3> QED  BY <1>1, <2>1, <3>1, <3>2, SumUnfolds
  <2>2. SumOver(w, {}) \in Nat /\ n + 1 \in Nat
    BY SumEmpty
  <2> QED  BY ONLY <2>1, <2>2
<1>4. I = Nat
  <2> HIDE DEF I
  <2>1. I \in SUBSET Nat
    BY DEF I
  <2> QED  BY <1>2, <1>3, <2>1, Induction
<1> QED  BY <1>1, <1>4

\* Any element may be taken out of a sum, not only the one picked first.
LEMMA SumRemove ==
    ASSUME NEW S, NEW w, NEW x \in S, IsFiniteSet(S), \A y \in S : w[y] \in Nat
    PROVE  SumOver(w, S) = w[x] + SumOver(w, S \ {x})
<1> DEFINE I == {n \in Nat : \A T \in SUBSET S, y \in S :
                    Cardinality(T) <= n /\ y \in T =>
                        SumOver(w, T) = w[y] + SumOver(w, T \ {y})}
<1>1. \A T \in SUBSET S : IsFiniteSet(T) /\ Cardinality(T) \in Nat
                          /\ SumOver(w, T) \in Nat
  BY FS_Subset, FS_CardinalityType, SumType
<1>2. 0 \in I
  BY <1>1, FS_EmptySet
<1>3. ASSUME NEW n \in I  PROVE n + 1 \in I
  <2>1. ASSUME NEW T \in SUBSET S, NEW y \in S, Cardinality(T) <= n + 1, y \in T
        PROVE  SumOver(w, T) = w[y] + SumOver(w, T \ {y})
    <3> DEFINE p == AnyOf(T)
    <3>1. /\ p \in T /\ T \ {p} \in SUBSET S /\ Cardinality(T \ {p}) <= n
          /\ IsFiniteSet(T)
      BY <1>1, <2>1, PickShrinks
    <3>2. SumOver(w, T) = w[p] + SumOver(w, T \ {p})
      BY <3>1, SumUnfolds
    <3> HIDE DEF p
    <3>3. CASE y # p
      <4>1. T \ {y} \in SUBSET S /\ Cardinality(T \ {y}) <= n
        BY <1>1, <2>1, FS_RemoveElement
      <4>2. SumOver(w, T \ {p}) = w[y] + SumOver(w, (T \ {p}) \ {y})
        BY <2>1, <3>1, <3>3
      <4>3. SumOver(w, T \ {y}) = w[p] + SumOver(w, (T \ {y}) \ {p})
        BY <3>1, <3>3, <4>1
      <4>4. (T \ {p}) \ {y} = (T \ {y}) \ {p} /\ (T \ {y}) \ {p} \in SUBSET S
        OBVIOUS
      <4>5. /\ w[p] \in Nat /\ w[y] \in Nat
            /\ SumOver(w, (T \ {y}) \ {p}) \in Nat
        BY <1>1, <3>1, <4>4
      <4> HIDE DEF I
      <4> QED  BY <3>2, <4>2, <4>3, <4>4, <4>5
    <3> QED  BY <3>2, <3>3
  <2>2. n + 1 \in Nat
    OBVIOUS
  <2> QED  BY ONLY <2>1, <2>2
<1>4. I = Nat
  <2> HIDE DEF I
  <2>1. I \in SUBSET Nat
    BY DEF I
  <2> QED  BY <1>2, <1>3, <2>1, Induction
<1> QED  BY <1>1, <1>4

\* One more element adds its summand.
LEMMA SumAdd ==
    ASSUME NEW S, NEW w, NEW e, IsFiniteSet(S), e \notin S,
           w[e] \in Nat, \A x \in S : w[x] \in Nat
    PROVE  SumOver(w, S \cup {e}) = SumOver(w, S) + w[e]
<1> DEFINE T == S \cup {e}
<1>1. IsFiniteSet(T) /\ e \in T /\ \A x \in T : w[x] \in Nat
  BY FS_AddElement
<1>2. T \ {e} = S
  OBVIOUS
<1>3. SumOver(w, S) \in Nat
  BY SumType
<1> HIDE DEF T
<1>4. SumOver(w, T) = w[e] + SumOver(w, T \ {e})
  BY <1>1, SumRemove
<1>5. SumOver(w, T) = SumOver(w, S) + w[e]
  BY <1>2, <1>3, <1>4
<1> QED  BY <1>5 DEF T

\* A smaller set of smaller summands has a smaller sum.
LEMMA SumGrows ==
    ASSUME NEW S, NEW v, NEW w, NEW T \in SUBSET S, IsFiniteSet(S),
           \A x \in S : v[x] \in Nat /\ w[x] \in Nat,
           \A x \in T : v[x] <= w[x]
    PROVE  SumOver(v, T) <= SumOver(w, S)
<1> DEFINE I == {n \in Nat : \A U \in SUBSET S : Cardinality(U) <= n =>
                    SumOver(v, U \cap T) <= SumOver(w, U)}
<1>1. \A U \in SUBSET S : /\ IsFiniteSet(U) /\ Cardinality(U) \in Nat
                          /\ SumOver(v, U) \in Nat /\ SumOver(w, U) \in Nat
  BY FS_Subset, FS_CardinalityType, SumType
<1>2. 0 \in I
  <2>1. ASSUME NEW U \in SUBSET S, Cardinality(U) <= 0
        PROVE  U = {} /\ U \cap T = {}
    BY <1>1, <2>1, FS_EmptySet
  <2> QED  BY <2>1, SumEmpty
<1>3. ASSUME NEW n \in I  PROVE n + 1 \in I
  <2>1. ASSUME NEW U \in SUBSET S, Cardinality(U) <= n + 1, U # {}
        PROVE  SumOver(v, U \cap T) <= SumOver(w, U)
    <3> DEFINE p == AnyOf(U)
    <3>1. /\ p \in U /\ U \ {p} \in SUBSET S /\ Cardinality(U \ {p}) <= n
      BY <1>1, <2>1, PickShrinks
    <3> HIDE DEF p
    <3>2. SumOver(w, U) = w[p] + SumOver(w, U \ {p})
      BY <1>1, <3>1, SumRemove
    <3>3. SumOver(v, (U \ {p}) \cap T) <= SumOver(w, U \ {p})
      BY <3>1
    <3>4. /\ SumOver(v, (U \ {p}) \cap T) \in Nat /\ SumOver(w, U \ {p}) \in Nat
          /\ v[p] \in Nat /\ w[p] \in Nat
      BY <1>1, <3>1
    <3>5. CASE p \in T
      <4>1. /\ p \in U \cap T /\ (U \cap T) \ {p} = (U \ {p}) \cap T
            /\ U \cap T \in SUBSET S
        BY <3>1, <3>5
      <4>2. SumOver(v, U \cap T) = v[p] + SumOver(v, (U \ {p}) \cap T)
        <5>1. IsFiniteSet(U \cap T) /\ \A y \in U \cap T : v[y] \in Nat
          BY <1>1, <4>1
        <5> QED  BY <4>1, <5>1, SumRemove
      <4>3. v[p] <= w[p]
        BY <3>5
      <4> HIDE DEF I
      <4> QED  BY <3>2, <3>3, <3>4, <4>2, <4>3
    <3>6. CASE p \notin T
      <4>1. (U \ {p}) \cap T = U \cap T
        BY <3>6
      <4> HIDE DEF I
      <4> QED  BY <3>2, <3>3, <3>4, <4>1
    <3> QED  BY <3>5, <3>6
  <2>2. SumOver(v, {} \cap T) <= SumOver(w, {})
    <3>1. {} \cap T = {}
      OBVIOUS
    <3> QED  BY <3>1, SumEmpty
  <2> QED  BY <2>1, <2>2
<1>4. I = Nat
  <2> HIDE DEF I
  <2>1. I \in SUBSET Nat
    BY DEF I
  <2> QED  BY <1>2, <1>3, <2>1, Induction
<1>5. S \cap T = T /\ S \in SUBSET S
  OBVIOUS
<1>6. SumOver(v, S \cap T) <= SumOver(w, S)
  <2>1. Cardinality(S) \in Nat /\ Cardinality(S) <= Cardinality(S)
    BY <1>1, <1>5
  <2> QED  BY <1>4, <1>5, <2>1
<1> QED  BY <1>5, <1>6

\* Zeros add up to zero.
LEMMA SumZero ==
    ASSUME NEW S, NEW w, IsFiniteSet(S), \A x \in S : w[x] = 0
    PROVE  SumOver(w, S) = 0
<1> DEFINE I == {n \in Nat : \A T \in SUBSET S :
                    Cardinality(T) <= n => SumOver(w, T) = 0}
<1>1. \A T \in SUBSET S : IsFiniteSet(T) /\ Cardinality(T) \in Nat
  BY FS_Subset, FS_CardinalityType
<1>2. 0 \in I
  BY <1>1, FS_EmptySet, SumEmpty
<1>3. ASSUME NEW n \in I  PROVE n + 1 \in I
  <2>1. ASSUME NEW T \in SUBSET S, Cardinality(T) <= n + 1, T # {}
        PROVE  SumOver(w, T) = 0
    <3>1. /\ T \ {AnyOf(T)} \in SUBSET S /\ Cardinality(T \ {AnyOf(T)}) <= n
          /\ AnyOf(T) \in S
      BY <1>1, <2>1, PickShrinks
    <3>2. SumOver(w, T \ {AnyOf(T)}) = 0
      BY <3>1
    <3> QED  BY <1>1, <2>1, <3>1, <3>2, SumUnfolds
  <2>2. SumOver(w, {}) = 0 /\ n + 1 \in Nat
    BY SumEmpty
  <2> QED  BY ONLY <2>1, <2>2
<1>4. I = Nat
  <2> HIDE DEF I
  <2>1. I \in SUBSET Nat
    BY DEF I
  <2> QED  BY <1>2, <1>3, <2>1, Induction
<1> QED  BY <1>1, <1>4

\* Elements that add nothing may be left out.
LEMMA SumWithoutZeros ==
    ASSUME NEW S, NEW T \in SUBSET S, NEW w, IsFiniteSet(S),
           \A x \in S : w[x] \in Nat, \A x \in S \ T : w[x] = 0
    PROVE  SumOver(w, S) = SumOver(w, T)
<1> DEFINE I == {n \in Nat : \A U \in SUBSET S : Cardinality(U) <= n =>
                    SumOver(w, U) = SumOver(w, U \cap T)}
<1>1. \A U \in SUBSET S : IsFiniteSet(U) /\ Cardinality(U) \in Nat
  BY FS_Subset, FS_CardinalityType
<1>2. 0 \in I
  <2>1. ASSUME NEW U \in SUBSET S, Cardinality(U) <= 0
        PROVE  U = {} /\ U \cap T = {}
    BY <1>1, <2>1, FS_EmptySet
  <2> QED  BY <2>1
<1>3. ASSUME NEW n \in I  PROVE n + 1 \in I
  <2>1. ASSUME NEW U \in SUBSET S, Cardinality(U) <= n + 1, U # {}
        PROVE  SumOver(w, U) = SumOver(w, U \cap T)
    <3> DEFINE p == AnyOf(U)
    <3>1. /\ p \in U /\ U \ {p} \in SUBSET S /\ Cardinality(U \ {p}) <= n
      BY <1>1, <2>1, PickShrinks
    <3> HIDE DEF p
    <3>2. SumOver(w, U) = w[p] + SumOver(w, U \ {p})
      BY <1>1, <3>1, SumRemove
    <3>3. SumOver(w, U \ {p}) = SumOver(w, (U \ {p}) \cap T)
      BY <3>1
    <3>4. SumOver(w, (U \ {p}) \cap T) \in Nat /\ w[p] \in Nat
      <4>1. (U \ {p}) \cap T \in SUBSET S
        OBVIOUS
      <4> QED  BY <1>1, <3>1, <4>1, SumType
    <3>5. CASE p \in T
      <4>1. /\ p \in U \cap T /\ (U \cap T) \ {p} = (U \ {p}) \cap T
            /\ U \cap T \in SUBSET S
        BY <3>1, <3>5
      <4>2. SumOver(w, U \cap T) = w[p] + SumOver(w, (U \ {p}) \cap T)
        <5>1. IsFiniteSet(U \cap T) /\ \A y \in U \cap T : w[y] \in Nat
          BY <1>1, <4>1
        <5> QED  BY <4>1, <5>1, SumRemove
      <4> HIDE DEF I
      <4> QED  BY <3>2, <3>3, <4>2
    <3>6. CASE p \notin T
      <4>1. (U \ {p}) \cap T = U \cap T /\ w[p] = 0
        BY <3>1, <3>6
      <4>2. SumOver(w, (U \ {p}) \cap T) = SumOver(w, U \cap T)
        BY ONLY <4>1, Zenon
      <4>3. SumOver(w, U) = 0 + SumOver(w, (U \ {p}) \cap T)
        BY ONLY <3>2, <3>3, <4>1
      <4> QED  BY ONLY <3>4, <4>2, <4>3
    <3> QED  BY <3>5, <3>6
  <2>2. {} \cap T = {} /\ n + 1 \in Nat
    OBVIOUS
  <2> QED  BY <2>1, <2>2
<1>4. I = Nat
  <2> HIDE DEF I
  <2>1. I \in SUBSET Nat
    BY DEF I
  <2> QED  BY <1>2, <1>3, <2>1, Induction
<1>5. SumOver(w, S) = SumOver(w, S \cap T)
  <2>1. S \in SUBSET S /\ Cardinality(S) \in Nat /\ Cardinality(S) <= Cardinality(S)
    BY <1>1
  <2> QED  BY <1>4, <2>1
<1>6. S \cap T = T
  OBVIOUS
<1> QED  BY <1>5, <1>6

\* Where at most one summand is positive, the largest is the whole sum.
LEMMA OneSummand ==
    ASSUME NEW S, NEW w, NEW k \in S, IsFiniteSet(S), \A x \in S : w[x] \in Nat,
           \A x \in S : w[x] <= w[k], \A x, y \in S : w[x] > 0 /\ w[y] > 0 => x = y
    PROVE  SumOver(w, S) = w[k]
<1>1. SumOver(w, S) = w[k] + SumOver(w, S \ {k})
  BY SumRemove
<1>2. \A x \in S \ {k} : w[x] = 0
  OBVIOUS
<1>3. SumOver(w, S \ {k}) = 0
  BY <1>2, FS_RemoveElement, SumZero
<1> QED  BY <1>1, <1>3

\* A set within a limit that loses elements, or gains one that fits, stays
\* within it.
LEMMA StaysWithin ==
    ASSUME NEW S, NEW e, NEW T \in SUBSET (S \cup {e}), NEW w, NEW limit \in Nat,
           IsFiniteSet(S), e \notin S, \A x \in S : w[x] \in Nat,
           SumOver(w, S) <= limit,
           e \in T => w[e] \in Nat /\ SumOver(w, S) + w[e] <= limit
    PROVE  IsFiniteSet(T) /\ SumOver(w, T) <= limit
<1>1. IsFiniteSet(S \cup {e}) /\ IsFiniteSet(T)
  BY FS_AddElement, FS_Subset
<1>2. SumOver(w, S) \in Nat
  BY SumType
<1>3. CASE e \in T
  <2>1. w[e] \in Nat /\ \A x \in S \cup {e} : w[x] \in Nat /\ w[x] <= w[x]
    BY <1>3
  <2>2. SumOver(w, S \cup {e}) = SumOver(w, S) + w[e]
    BY <2>1, SumAdd
  <2>3. SumOver(w, T) <= SumOver(w, S \cup {e})
    BY <1>1, <2>1, SumGrows
  <2>4. SumOver(w, T) \in Nat
    BY <1>1, <2>1, SumType
  <2> QED  BY <1>1, <1>2, <1>3, <2>1, <2>2, <2>3, <2>4
<1>4. CASE e \notin T
  <2>1. T \in SUBSET S /\ \A x \in S : w[x] \in Nat /\ w[x] <= w[x]
    BY <1>4
  <2>2. SumOver(w, T) <= SumOver(w, S)
    BY <2>1, SumGrows
  <2>3. SumOver(w, T) \in Nat
    BY <1>1, <2>1, SumType
  <2> QED  BY <1>1, <1>2, <2>2, <2>3
<1> QED  BY <1>3, <1>4
=============================================================================
