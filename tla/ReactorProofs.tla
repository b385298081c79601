--------------------------- MODULE ReactorProofs ----------------------------
(***************************************************************************)
(* The theorems about the root reactor, for any number of callers and      *)
(* shutdown callers, any calls and streams, any limits of capacity, queue  *)
(* and group, and any failures.  Sums and counts come first: what          *)
(* ReactorCommands takes as CountingLaws is proved here by induction.      *)
(***************************************************************************)
EXTENDS ReactorCommands, FiniteSetTheorems

USE Zenon

-----------------------------------------------------------------------------
(* Sums and counts. *)

\* A nonempty set of naturals has a least member.
LEMMA NaturalsHaveLeast ==
    ASSUME NEW T \in SUBSET Nat, T # {}
    PROVE  \E t \in T : \A u \in T : t <= u
<1>1. IsWellFoundedOn(OpToRel(<, Nat), Nat)
  BY NatLessThanWellFounded
<1>2. PICK t \in T : \A u \in T : ~(<<u, t>> \in OpToRel(<, Nat))
  BY <1>1, WFMin
<1>3. ASSUME NEW u \in T PROVE t <= u
  <2>1. u \in Nat /\ t \in Nat
    OBVIOUS
  <2>2. u < t => <<u, t>> \in OpToRel(<, Nat)
    BY <2>1 DEF OpToRel
  <2>3. ~(u < t)
    BY <1>2, <2>2, Zenon
  <2> QED
    BY <2>1, <2>3, SMT
<1> QED
  BY <1>3

\* A set of naturals with an upper bound has a greatest member.
LEMMA MaxIsMember ==
    ASSUME NEW S \in SUBSET Nat, S # {}, NEW b \in Nat, \A x \in S : x <= b
    PROVE  Max(S) \in S /\ \A x \in S : x <= Max(S)
<1> DEFINE T == {b - x : x \in S}
<1>1. T \in SUBSET Nat /\ T # {}
  <2>1. \A x \in S : b - x \in Nat
    BY SMT
  <2> QED
    BY <2>1
<1>2. PICK t \in T : \A u \in T : t <= u
  BY <1>1, NaturalsHaveLeast
<1>3. PICK m \in S : t = b - m
  OBVIOUS
<1>4. ASSUME NEW x \in S PROVE m >= x
  <2>1. b - m <= b - x
    BY <1>2, <1>3
  <2> QED
    BY <2>1, SMT
<1>5. \E x \in S : \A y \in S : x >= y
  BY <1>4
<1>6. Max(S) \in S /\ \A x \in S : Max(S) >= x
  BY <1>5 DEF Max
<1>7. \A x \in S : Max(S) \in Nat /\ x \in Nat
  BY <1>6
<1> QED
  BY <1>6, <1>7, SMT

\* Induction over the naturals, for a set of them.
LEMMA Induction ==
    ASSUME NEW T \in SUBSET Nat, 0 \in T, \A n \in Nat : n \in T => n + 1 \in T
    PROVE  T = Nat
<1>1. SUFFICES ASSUME Nat \ T # {} PROVE FALSE
  OBVIOUS
<1>2. PICK t \in Nat \ T : \A u \in Nat \ T : t <= u
  BY <1>1, NaturalsHaveLeast
<1>3. t # 0
  OBVIOUS
<1>4. t - 1 \in Nat /\ t - 1 + 1 = t /\ ~(t <= t - 1)
  BY <1>3, SMT
<1>5. t - 1 \in T
  BY <1>2, <1>4
<1> QED
  BY <1>4, <1>5, Zenon

\* The recursion of MapThenSumSet over the subsets of S, for the weights w.
Pick(s) == CHOOSE x \in s : TRUE

\* One unfolding of the recursive function behind a sum: the weight of a picked member and
\* the sum of the others.
FoldStep(w, S, g) == [s \in SUBSET S |-> IF s = {} THEN 0 ELSE w[Pick(s)] + g[s \ {Pick(s)}]]

\* g is that function on the subsets of S.
IsFold(w, S, g) == g = FoldStep(w, S, g)

\* The sum of the weights w over S.
SumOf(w, S) == (CHOOSE g : IsFold(w, S, g))[S]

\* Pick picks a member.
LEMMA PickIn == ASSUME NEW s, s # {} PROVE Pick(s) \in s
  BY DEF Pick

\* Without one of its members a finite set is smaller.
LEMMA Smaller ==
    ASSUME NEW s, IsFiniteSet(s), NEW x \in s
    PROVE  /\ IsFiniteSet(s \ {x}) /\ Cardinality(s) \in Nat /\ Cardinality(s \ {x}) \in Nat
           /\ Cardinality(s) = Cardinality(s \ {x}) + 1
<1>1. Cardinality(s) \in Nat /\ IsFiniteSet(s \ {x}) /\ Cardinality(s \ {x}) = Cardinality(s) - 1
  BY FS_RemoveElement, FS_CardinalityType
<1>2. Cardinality(s \ {x}) \in Nat
  BY <1>1, FS_CardinalityType
<1> QED
  BY <1>1, <1>2, SMT

\* The recursive function that adds up weights exists: by induction on the size of the set.
LEMMA FoldExists ==
    ASSUME NEW w, NEW S, IsFiniteSet(S)
    PROVE  \E g : IsFold(w, S, g)
<1> DEFINE Good(g, n) == \A s \in SUBSET S : Cardinality(s) <= n => g[s] = FoldStep(w, S, g)[s]
           T == {n \in Nat : \E g : Good(g, n)}
<1>0. \A s \in SUBSET S : IsFiniteSet(s) /\ Cardinality(s) \in Nat
  BY FS_Subset, FS_CardinalityType
<1>1. 0 \in T
  <2> DEFINE g == [s \in SUBSET S |-> 0]
  <2>1. ASSUME NEW s \in SUBSET S, Cardinality(s) <= 0 PROVE g[s] = FoldStep(w, S, g)[s]
    <3>1. s = {}
      <4>1. Cardinality(s) = 0
        BY <1>0, <2>1, SMT
      <4> QED
        BY <1>0, <4>1, FS_EmptySet
    <3> QED
      BY <3>1 DEF FoldStep
  <2> QED
    BY <2>1, SMT
<1>2. ASSUME NEW n \in Nat, n \in T PROVE n + 1 \in T
  <2>1. PICK g : Good(g, n)
    BY <1>2
  <2> DEFINE h == FoldStep(w, S, g)
  <2>2. ASSUME NEW s \in SUBSET S, Cardinality(s) <= n + 1 PROVE h[s] = FoldStep(w, S, h)[s]
    <3>1. CASE s = {}
      BY <3>1 DEF FoldStep
    <3>2. CASE s # {}
      <4>1. Pick(s) \in s /\ s \ {Pick(s)} \in SUBSET S
        BY <3>2, PickIn
      <4>2. Cardinality(s \ {Pick(s)}) <= n
        <5>1. Cardinality(s \ {Pick(s)}) \in Nat /\ Cardinality(s) = Cardinality(s \ {Pick(s)}) + 1
          BY <1>0, <4>1, Smaller
        <5> QED
          BY <2>2, <5>1, SMT
      <4>3. h[s \ {Pick(s)}] = g[s \ {Pick(s)}]
        BY <2>1, <4>1, <4>2
      <4> QED
        BY <3>2, <4>3 DEF FoldStep
    <3> QED
      BY <3>1, <3>2
  <2>3. Good(h, n + 1)
    BY <2>2
  <2>4. n + 1 \in Nat
    BY SMT
  <2> QED
    BY <2>3, <2>4
<1>3. T = Nat
  <2> HIDE DEF T
  <2>1. T \in SUBSET Nat
    BY DEF T
  <2> QED
    BY <1>1, <1>2, <2>1, Induction
<1>4. PICK g : Good(g, Cardinality(S))
  BY <1>0, <1>3
<1>5. \A s \in SUBSET S : Cardinality(s) <= Cardinality(S)
  BY FS_Subset
<1>6. FoldStep(w, S, g) = FoldStep(w, S, FoldStep(w, S, g))
  <2> DEFINE h == FoldStep(w, S, g)
  <2>1. \A s \in SUBSET S : g[s] = h[s]
    BY <1>4, <1>5
  <2>2. ASSUME NEW s \in SUBSET S PROVE h[s] = FoldStep(w, S, h)[s]
    <3>1. CASE s = {}
      BY <3>1 DEF FoldStep
    <3>2. CASE s # {}
      <4>1. s \ {Pick(s)} \in SUBSET S
        OBVIOUS
      <4> QED
        BY <3>2, <4>1, <2>1 DEF FoldStep
    <3> QED
      BY <3>1, <3>2
  <2> QED
    BY <2>2 DEF FoldStep
<1> QED
  BY <1>6 DEF IsFold

\* What the recursion gives does not depend on the set it was started from.
LEMMA FoldAgrees ==
    ASSUME NEW w, NEW v, NEW S, NEW T, NEW g, NEW h,
           IsFold(w, S, g), IsFold(v, T, h),
           NEW U \in SUBSET (S \cap T), IsFiniteSet(U), \A x \in U : w[x] = v[x]
    PROVE  g[U] = h[U]
<1> DEFINE N == {n \in Nat : \A s \in SUBSET U : Cardinality(s) = n => g[s] = h[s]}
<1>0. \A s \in SUBSET U : IsFiniteSet(s) /\ Cardinality(s) \in Nat
  BY FS_Subset, FS_CardinalityType
<1>a. \A s \in SUBSET U : s \in SUBSET S /\ s \in SUBSET T
  OBVIOUS
<1>b. \A s \in SUBSET U : g[s] = (IF s = {} THEN 0 ELSE w[Pick(s)] + g[s \ {Pick(s)}])
  <2> SUFFICES ASSUME NEW s \in SUBSET U PROVE g[s] = (IF s = {} THEN 0 ELSE w[Pick(s)] + g[s \ {Pick(s)}])
    OBVIOUS
  <2>1. g[s] = FoldStep(w, S, g)[s]
    BY DEF IsFold
  <2> QED
    BY <1>a, <2>1, Zenon DEF FoldStep
<1>c. \A s \in SUBSET U : h[s] = (IF s = {} THEN 0 ELSE v[Pick(s)] + h[s \ {Pick(s)}])
  <2> SUFFICES ASSUME NEW s \in SUBSET U PROVE h[s] = (IF s = {} THEN 0 ELSE v[Pick(s)] + h[s \ {Pick(s)}])
    OBVIOUS
  <2>1. h[s] = FoldStep(v, T, h)[s]
    BY DEF IsFold
  <2> QED
    BY <1>a, <2>1, Zenon DEF FoldStep
<1>1. 0 \in N
  <2>1. ASSUME NEW s \in SUBSET U, Cardinality(s) = 0 PROVE g[s] = h[s]
    <3>1. s = {}
      BY <1>0, <2>1, FS_EmptySet
    <3> QED
      BY <1>b, <1>c, <3>1
  <2> QED
    BY <2>1, SMT
<1>2. ASSUME NEW n \in Nat, n \in N PROVE n + 1 \in N
  <2>1. ASSUME NEW s \in SUBSET U, Cardinality(s) = n + 1 PROVE g[s] = h[s]
    <3>1. s # {}
      <4>1. Cardinality(s) # 0
        BY <2>1, SMT
      <4> QED
        BY <4>1, FS_EmptySet
    <3>2. Pick(s) \in s /\ Pick(s) \in U /\ s \ {Pick(s)} \in SUBSET U
      BY <3>1, PickIn
    <3>3. Cardinality(s \ {Pick(s)}) = n
      <4>1. Cardinality(s \ {Pick(s)}) \in Nat /\ Cardinality(s) = Cardinality(s \ {Pick(s)}) + 1
        BY <1>0, <3>2, Smaller
      <4> QED
        BY <2>1, <4>1, SMT
    <3>4. g[s \ {Pick(s)}] = h[s \ {Pick(s)}]
      BY <1>2, <3>2, <3>3
    <3> QED
      BY <1>b, <1>c, <3>1, <3>2, <3>4
  <2>2. n + 1 \in Nat
    BY SMT
  <2> QED
    BY <2>1, <2>2
<1>3. N = Nat
  <2> HIDE DEF N
  <2>1. N \in SUBSET Nat
    BY DEF N
  <2> QED
    BY <1>1, <1>2, <2>1, Induction
<1> QED
  BY <1>0, <1>3

\* w gives every member of S a natural number.
Weighs(w, S) == IsFiniteSet(S) /\ \A x \in S : w[x] \in Nat

\* Its values are natural numbers.
LEMMA FoldIsNat ==
    ASSUME NEW w, NEW S, NEW g, IsFold(w, S, g), Weighs(w, S)
    PROVE  \A s \in SUBSET S : g[s] \in Nat
<1> DEFINE N == {n \in Nat : \A s \in SUBSET S : Cardinality(s) = n => g[s] \in Nat}
<1>0. \A s \in SUBSET S : IsFiniteSet(s) /\ Cardinality(s) \in Nat
  BY FS_Subset, FS_CardinalityType DEF Weighs
<1>b. \A s \in SUBSET S : g[s] = (IF s = {} THEN 0 ELSE w[Pick(s)] + g[s \ {Pick(s)}])
  <2> SUFFICES ASSUME NEW s \in SUBSET S PROVE g[s] = (IF s = {} THEN 0 ELSE w[Pick(s)] + g[s \ {Pick(s)}])
    OBVIOUS
  <2>1. g[s] = FoldStep(w, S, g)[s]
    BY DEF IsFold
  <2> QED
    BY <2>1, Zenon DEF FoldStep
<1>1. 0 \in N
  <2>1. ASSUME NEW s \in SUBSET S, Cardinality(s) = 0 PROVE g[s] \in Nat
    <3>1. s = {}
      BY <1>0, <2>1, FS_EmptySet
    <3>2. g[s] = 0
      BY <1>b, <3>1
    <3> QED
      BY <3>2, SMT
  <2> QED
    BY <2>1, SMT
<1>2. ASSUME NEW n \in Nat, n \in N PROVE n + 1 \in N
  <2>1. ASSUME NEW s \in SUBSET S, Cardinality(s) = n + 1 PROVE g[s] \in Nat
    <3>1. s # {}
      <4>1. Cardinality(s) # 0
        BY <2>1, SMT
      <4> QED
        BY <4>1, FS_EmptySet
    <3>2. Pick(s) \in s /\ Pick(s) \in S /\ s \ {Pick(s)} \in SUBSET S
      BY <3>1, PickIn
    <3>3. Cardinality(s \ {Pick(s)}) = n
      <4>1. Cardinality(s \ {Pick(s)}) \in Nat /\ Cardinality(s) = Cardinality(s \ {Pick(s)}) + 1
        BY <1>0, <3>2, Smaller
      <4> QED
        BY <2>1, <4>1, SMT
    <3>4. g[s \ {Pick(s)}] \in Nat /\ w[Pick(s)] \in Nat
      BY <1>2, <3>2, <3>3 DEF Weighs
    <3>5. g[s] = w[Pick(s)] + g[s \ {Pick(s)}]
      BY <1>b, <3>1
    <3> QED
      BY <3>4, <3>5, SMT
  <2>2. n + 1 \in Nat
    BY SMT
  <2> QED
    BY <2>1, <2>2
<1>3. N = Nat
  <2> HIDE DEF N
  <2>1. N \in SUBSET Nat
    BY DEF N
  <2> QED
    BY <1>1, <1>2, <2>1, Induction
<1>4. ASSUME NEW s \in SUBSET S PROVE Cardinality(s) \in N
  <2> HIDE DEF N
  <2> QED
    BY <1>0, <1>3
<1> QED
  BY <1>4

\* Any member may be taken out first.
LEMMA FoldRemoves ==
    ASSUME NEW w, NEW S, NEW g, IsFold(w, S, g), Weighs(w, S)
    PROVE  \A s \in SUBSET S : \A x \in s : g[s] = w[x] + g[s \ {x}]
<1> DEFINE N == {n \in Nat : \A s \in SUBSET S : Cardinality(s) = n => \A x \in s : g[s] = w[x] + g[s \ {x}]}
<1>0. \A s \in SUBSET S : IsFiniteSet(s) /\ Cardinality(s) \in Nat
  BY FS_Subset, FS_CardinalityType DEF Weighs
<1>a. \A s \in SUBSET S : g[s] \in Nat
  BY FoldIsNat
<1>b. \A s \in SUBSET S : s # {} => g[s] = w[Pick(s)] + g[s \ {Pick(s)}]
  <2> SUFFICES ASSUME NEW s \in SUBSET S, s # {} PROVE g[s] = w[Pick(s)] + g[s \ {Pick(s)}]
    OBVIOUS
  <2>1. g[s] = FoldStep(w, S, g)[s]
    BY DEF IsFold
  <2> QED
    BY <2>1, Zenon DEF FoldStep
<1>1. 0 \in N
  <2>1. ASSUME NEW s \in SUBSET S, Cardinality(s) = 0, NEW x \in s PROVE g[s] = w[x] + g[s \ {x}]
    BY <1>0, <2>1, FS_EmptySet
  <2> QED
    BY <2>1, SMT
<1>2. ASSUME NEW n \in Nat, n \in N PROVE n + 1 \in N
  <2>1. ASSUME NEW s \in SUBSET S, Cardinality(s) = n + 1, NEW x \in s PROVE g[s] = w[x] + g[s \ {x}]
    <3>1. s # {} /\ g[s] = w[Pick(s)] + g[s \ {Pick(s)}]
      BY <1>b
    <3> DEFINE y == Pick(s)
               sx == s \ {x}
               sy == s \ {y}
    <3>2. y \in s /\ sx \in SUBSET S /\ sy \in SUBSET S
      BY <3>1, PickIn
    <3>3. Cardinality(sx) = n /\ Cardinality(sy) = n
      <4>1. Cardinality(sy) \in Nat /\ Cardinality(s) = Cardinality(sy) + 1
        BY <1>0, <3>2, Smaller
      <4>2. Cardinality(sx) \in Nat /\ Cardinality(s) = Cardinality(sx) + 1
        BY <1>0, <3>2, Smaller
      <4> HIDE DEF sx, sy, y
      <4> QED
        BY <2>1, <4>1, <4>2, SMT
    <3>4. CASE x = y
      BY <3>1, <3>4
    <3>5. CASE x # y
      <4>1. x \in sy /\ y \in sx
        BY <3>2, <3>5
      <4>2. g[sy] = w[x] + g[sy \ {x}] /\ g[sx] = w[y] + g[sx \ {y}]
        BY <1>2, <3>2, <3>3, <4>1
      <4>3. sy \ {x} = sx \ {y} /\ sy \ {x} \in SUBSET S
        OBVIOUS
      <4>4. g[sy \ {x}] \in Nat /\ w[x] \in Nat /\ w[y] \in Nat
        BY <1>a, <3>2, <4>3 DEF Weighs
      <4>5. g[s] = w[y] + g[sy]
        BY <3>1
      <4>6. g[sx] = w[y] + g[sy \ {x}]
        BY <4>2, <4>3
      <4>7. \A a, b, c \in Nat : b + (a + c) = a + (b + c)
        BY SMT
      <4>8. g[s] = w[y] + (w[x] + g[sy \ {x}])
        BY <4>2, <4>5
      <4>9. g[s] = w[x] + (w[y] + g[sy \ {x}])
        BY <4>4, <4>7, <4>8
      <4> QED
        BY <4>6, <4>9
    <3> QED
      BY <3>4, <3>5
  <2>2. n + 1 \in Nat
    BY SMT
  <2> QED
    BY <2>1, <2>2
<1>3. N = Nat
  <2> HIDE DEF N
  <2>1. N \in SUBSET Nat
    BY DEF N
  <2> QED
    BY <1>1, <1>2, <2>1, Induction
<1> QED
  BY <1>0, <1>3

\* SumOf is that function's value.
LEMMA SumFold ==
    ASSUME NEW w, NEW S, IsFiniteSet(S)
    PROVE  \E g : IsFold(w, S, g) /\ SumOf(w, S) = g[S]
  BY FoldExists DEF SumOf

\* A sum of natural numbers is one.
LEMMA SumType == ASSUME NEW w, NEW S, Weighs(w, S) PROVE SumOf(w, S) \in Nat
<1>1. PICK g : IsFold(w, S, g) /\ SumOf(w, S) = g[S]
  BY SumFold DEF Weighs
<1>2. g[S] \in Nat
  BY <1>1, FoldIsNat
<1> QED
  BY <1>1, <1>2

\* The empty sum is zero.
LEMMA SumEmpty == ASSUME NEW w PROVE SumOf(w, {}) = 0
<1>1. PICK g : IsFold(w, {}, g) /\ SumOf(w, {}) = g[{}]
  BY SumFold, FS_EmptySet
<1>2. {} \in SUBSET {}
  OBVIOUS
<1>3. FoldStep(w, {}, g)[{}] = 0
  BY <1>2 DEF FoldStep
<1> QED
  BY <1>1, <1>3 DEF IsFold

\* Equal weights have equal sums.
LEMMA SumAgrees ==
    ASSUME NEW w, NEW v, NEW S, IsFiniteSet(S), \A x \in S : w[x] = v[x]
    PROVE  SumOf(w, S) = SumOf(v, S)
<1>1. PICK g : IsFold(w, S, g) /\ SumOf(w, S) = g[S]
  BY SumFold
<1>2. PICK h : IsFold(v, S, h) /\ SumOf(v, S) = h[S]
  BY SumFold
<1>3. g[S] = h[S]
  <2>1. S \in SUBSET (S \cap S)
    OBVIOUS
  <2> QED
    BY <1>1, <1>2, <2>1, FoldAgrees, SMT
<1> QED
  BY <1>1, <1>2, <1>3

\* One more member adds its weight.
LEMMA SumAdd ==
    ASSUME NEW w, NEW S, NEW x, x \notin S, Weighs(w, S \cup {x})
    PROVE  SumOf(w, S \cup {x}) = SumOf(w, S) + w[x]
<1> DEFINE T == S \cup {x}
<1>1. IsFiniteSet(S) /\ Weighs(w, S)
  <2>1. S \subseteq T
    OBVIOUS
  <2>2. IsFiniteSet(S)
    BY <2>1, FS_Subset DEF Weighs
  <2> QED
    BY <2>2 DEF Weighs
<1>2. PICK g : IsFold(w, T, g) /\ SumOf(w, T) = g[T]
  BY SumFold DEF Weighs
<1>3. PICK h : IsFold(w, S, h) /\ SumOf(w, S) = h[S]
  BY <1>1, SumFold
<1>4. T \ {x} = S /\ T \in SUBSET T /\ x \in T
  OBVIOUS
<1>5. g[T] = w[x] + g[S]
  BY <1>2, <1>4, FoldRemoves, SMT
<1>6. g[S] = h[S]
  BY <1>1, <1>2, <1>3, FoldAgrees, SMT
<1>7. w[x] \in Nat /\ SumOf(w, S) \in Nat
  BY <1>1, <1>4, SumType DEF Weighs
<1> HIDE DEF T
<1>8. SumOf(w, T) = w[x] + SumOf(w, S)
  BY <1>2, <1>3, <1>5, <1>6
<1>9. SumOf(w, T) = SumOf(w, S) + w[x]
  BY <1>7, <1>8, SMT
<1> QED
  BY <1>9 DEF T

\* The sum over two disjoint sets.
LEMMA SumUnion ==
    ASSUME NEW w, NEW A, NEW B, A \cap B = {}, Weighs(w, A \cup B)
    PROVE  SumOf(w, A \cup B) = SumOf(w, A) + SumOf(w, B)
<1> DEFINE N == {n \in Nat : \A s \in SUBSET B : Cardinality(s) = n => SumOf(w, A \cup s) = SumOf(w, A) + SumOf(w, s)}
<1>1. IsFiniteSet(A) /\ IsFiniteSet(B) /\ Weighs(w, A) /\ Weighs(w, B)
  <2>1. A \subseteq A \cup B /\ B \subseteq A \cup B
    OBVIOUS
  <2>2. IsFiniteSet(A) /\ IsFiniteSet(B)
    BY <2>1, FS_Subset DEF Weighs
  <2> QED
    BY <2>2 DEF Weighs
<1>2. \A s \in SUBSET B : IsFiniteSet(s) /\ Cardinality(s) \in Nat /\ Weighs(w, s) /\ Weighs(w, A \cup s)
  <2> SUFFICES ASSUME NEW s \in SUBSET B
               PROVE  IsFiniteSet(s) /\ Cardinality(s) \in Nat /\ Weighs(w, s) /\ Weighs(w, A \cup s)
    OBVIOUS
  <2>1. IsFiniteSet(s) /\ Cardinality(s) \in Nat
    BY <1>1, FS_Subset, FS_CardinalityType
  <2>2. A \cup s \subseteq A \cup B
    OBVIOUS
  <2>3. IsFiniteSet(A \cup s)
    BY <2>2, FS_Subset DEF Weighs
  <2> QED
    BY <2>1, <2>2, <2>3 DEF Weighs
<1>3. 0 \in N
  <2>1. ASSUME NEW s \in SUBSET B, Cardinality(s) = 0 PROVE SumOf(w, A \cup s) = SumOf(w, A) + SumOf(w, s)
    <3>1. s = {} /\ A \cup s = A
      BY <1>2, <2>1, FS_EmptySet
    <3>2. SumOf(w, A) \in Nat /\ SumOf(w, s) = 0
      BY <1>1, <3>1, SumType, SumEmpty
    <3>3. SumOf(w, A) = SumOf(w, A) + SumOf(w, s)
      BY <3>2, SMT
    <3> QED
      BY <3>1, <3>3
  <2> QED
    BY <2>1, SMT
<1>4. ASSUME NEW n \in Nat, n \in N PROVE n + 1 \in N
  <2>1. ASSUME NEW s \in SUBSET B, Cardinality(s) = n + 1 PROVE SumOf(w, A \cup s) = SumOf(w, A) + SumOf(w, s)
    <3>1. s # {}
      <4>1. Cardinality(s) # 0
        BY <2>1, SMT
      <4> QED
        BY <4>1, FS_EmptySet
    <3>2. PICK x \in s : TRUE
      BY <3>1
    <3> DEFINE t == s \ {x}
    <3>3. t \in SUBSET B /\ t \cup {x} = s /\ (A \cup t) \cup {x} = A \cup s /\ x \notin t /\ x \notin A \cup t /\ x \in B
      OBVIOUS
    <3>4. Cardinality(t) = n
      <4>1. Cardinality(t) \in Nat /\ Cardinality(s) = Cardinality(t) + 1
        BY <1>2, Smaller
      <4> HIDE DEF t
      <4> QED
        BY <2>1, <4>1, SMT
    <3> HIDE DEF t
    <3>5. SumOf(w, A \cup t) = SumOf(w, A) + SumOf(w, t)
      BY <1>4, <3>3, <3>4
    <3>6. Weighs(w, t \cup {x}) /\ Weighs(w, (A \cup t) \cup {x})
      BY <1>2, <3>3
    <3>7. SumOf(w, s) = SumOf(w, t) + w[x]
      BY <3>3, <3>6, SumAdd
    <3>8. SumOf(w, A \cup s) = SumOf(w, A \cup t) + w[x]
      BY <3>3, <3>6, SumAdd
    <3>9. SumOf(w, A) \in Nat /\ SumOf(w, t) \in Nat /\ w[x] \in Nat
      BY <1>1, <1>2, <3>3, SumType DEF Weighs
    <3> QED
      BY <3>5, <3>7, <3>8, <3>9, SMT
  <2>2. n + 1 \in Nat
    BY SMT
  <2> QED
    BY <2>1, <2>2
<1>5. N = Nat
  <2> HIDE DEF N
  <2>1. N \in SUBSET Nat
    BY DEF N
  <2> QED
    BY <1>3, <1>4, <2>1, Induction
<1> QED
  BY <1>2, <1>5

\* The sizes of the records of S.
Sizes(S) == [r \in S |-> r[3]]

\* SumSizes is such a sum.
LEMMA SizesSum ==
    ASSUME NEW S, IsFiniteSet(S)
    PROVE  SumSizes(S) = SumOf(Sizes(S), S)
<1> DEFINE D(g) == [s \in SUBSET S |-> IF s = {} THEN 0
                       ELSE (CHOOSE x \in s : TRUE)[3] + g[s \ {CHOOSE x \in s : TRUE}]]
<1>1. ASSUME NEW g PROVE D(g) = FoldStep(Sizes(S), S, g)
  <2>1. ASSUME NEW s \in SUBSET S PROVE D(g)[s] = FoldStep(Sizes(S), S, g)[s]
    <3>1. CASE s = {}
      BY <3>1 DEF FoldStep
    <3>2. CASE s # {}
      <4>1. Pick(s) \in S
        BY <3>2, PickIn
      <4>2. Sizes(S)[Pick(s)] = Pick(s)[3]
        BY <4>1 DEF Sizes
      <4> QED
        BY <3>2, <4>2 DEF FoldStep, Pick
    <3> QED
      BY <3>1, <3>2
  <2> QED
    BY <2>1 DEF FoldStep
<1>2. \E g : g = D(g)
  <2>1. PICK g : IsFold(Sizes(S), S, g)
    BY FoldExists
  <2>2. g = FoldStep(Sizes(S), S, g) /\ D(g) = FoldStep(Sizes(S), S, g)
    BY <1>1, <2>1 DEF IsFold
  <2> HIDE DEF D
  <2> QED
    BY <2>2
<1>3. \E h : h = D(h) /\ SumSizes(S) = h[S]
  BY <1>2 DEF SumSizes, MapThenSumSet, MapThenFoldSet
<1> HIDE DEF D
<1>4. PICK h : h = D(h) /\ SumSizes(S) = h[S]
  BY <1>3
<1>5. IsFold(Sizes(S), S, h)
  BY <1>1, <1>4 DEF IsFold
<1>6. PICK k : IsFold(Sizes(S), S, k) /\ SumOf(Sizes(S), S) = k[S]
  BY SumFold
<1>7. h[S] = k[S]
  <2>1. S \in SUBSET (S \cap S)
    OBVIOUS
  <2> QED
    BY <1>5, <1>6, <2>1, FoldAgrees, SMT
<1> QED
  BY <1>4, <1>6, <1>7

\* The sum over a part of a set takes the sizes of that part.
LEMMA SizesOver ==
    ASSUME NEW S, NEW T, IsFiniteSet(T), S \subseteq T, SizesIn(T)
    PROVE  /\ Weighs(Sizes(T), S) /\ IsFiniteSet(S) /\ SizesIn(S)
           /\ SumSizes(S) = SumOf(Sizes(T), S)
<1>1. IsFiniteSet(S)
  BY FS_Subset
<1>2. \A r \in S : Sizes(S)[r] = Sizes(T)[r] /\ Sizes(T)[r] \in Nat
  BY DEF Sizes, SizesIn
<1>3. SumOf(Sizes(S), S) = SumOf(Sizes(T), S)
  BY <1>1, <1>2, SumAgrees
<1> QED
  BY <1>1, <1>2, <1>3, SizesSum DEF Weighs, SizesIn

\* The records of a finite set take a number of bytes.
LEMMA SumIsNat ==
    ASSUME NEW S, IsFiniteSet(S), SizesIn(S)
    PROVE  SumSizes(S) \in Nat
  BY SizesOver, SumType, SMT

\* The units of the records taken out and of the others.
LEMMA SumSplits ==
    ASSUME NEW S, NEW T, IsFiniteSet(S), SizesIn(S), T \subseteq S
    PROVE  SumSizes(S) = SumSizes(S \ T) + SumSizes(T)
<1>1. (S \ T) \cap T = {} /\ (S \ T) \cup T = S /\ S \subseteq S /\ S \ T \subseteq S
  OBVIOUS
<1>2. Weighs(Sizes(S), S) /\ SumSizes(S) = SumOf(Sizes(S), S)
  BY <1>1, SizesOver
<1>3. SumSizes(S \ T) = SumOf(Sizes(S), S \ T)
  BY <1>1, SizesOver
<1>4. SumSizes(T) = SumOf(Sizes(S), T)
  BY SizesOver
<1>5. SumOf(Sizes(S), S) = SumOf(Sizes(S), S \ T) + SumOf(Sizes(S), T)
  <2>1. Weighs(Sizes(S), (S \ T) \cup T)
    BY <1>1, <1>2
  <2>2. SumOf(Sizes(S), (S \ T) \cup T) = SumOf(Sizes(S), S \ T) + SumOf(Sizes(S), T)
    BY <1>1, <2>1, SumUnion
  <2> QED
    BY <1>1, <2>2
<1> QED
  BY <1>2, <1>3, <1>4, <1>5

\* One more record adds its size at most.
LEMMA SumAdds ==
    ASSUME NEW S, NEW x, IsFiniteSet(S), SizesIn(S), x[3] \in Nat
    PROVE  /\ IsFiniteSet(S \cup {x}) /\ SizesIn(S \cup {x})
           /\ SumSizes(S \cup {x}) \in Nat /\ SumSizes(S) \in Nat
           /\ SumSizes(S \cup {x}) <= SumSizes(S) + x[3]
<1> DEFINE T == S \cup {x}
<1>1. IsFiniteSet(T) /\ SizesIn(T)
  BY FS_AddElement DEF SizesIn
<1>2. SumSizes(T) \in Nat /\ SumSizes(S) \in Nat
  BY <1>1, SumIsNat
<1>3. CASE x \in S
  <2>1. T = S
    BY <1>3
  <2>2. SumSizes(T) = SumSizes(S)
    BY <2>1
  <2> HIDE DEF T
  <2>3. SumSizes(T) <= SumSizes(S) + x[3]
    BY <1>2, <2>2, SMT
  <2> QED
    BY <1>1, <1>2, <2>3 DEF T
<1>4. CASE x \notin S
  <2>1. SumSizes(S) = SumOf(Sizes(T), S) /\ S \subseteq T /\ T \subseteq T
    BY <1>1, SizesOver
  <2>2. Weighs(Sizes(T), T) /\ SumSizes(T) = SumOf(Sizes(T), T)
    BY <1>1, <2>1, SizesOver
  <2>3. SumOf(Sizes(T), T) = SumOf(Sizes(T), S) + Sizes(T)[x]
    BY <1>4, <2>2, SumAdd
  <2>4. Sizes(T)[x] = x[3]
    BY DEF Sizes
  <2> HIDE DEF T
  <2>5. SumSizes(T) = SumSizes(S) + x[3]
    BY <2>1, <2>2, <2>3, <2>4
  <2>6. SumSizes(T) <= SumSizes(S) + x[3]
    BY <1>2, <2>5, SMT
  <2> QED
    BY <1>1, <1>2, <2>6 DEF T
<1> QED
  BY <1>3, <1>4

\* The sizes of the first n units.
CallSizes(cmds, n) == [i \in 1..n |-> cmds[i].call.size]

\* Total is such a sum.
LEMMA TotalSum ==
    ASSUME NEW cmds, NEW n \in Nat
    PROVE  Total(cmds, n) = SumOf(CallSizes(cmds, n), 1..n)
<1> DEFINE S == 1..n
           w == CallSizes(cmds, n)
           D(g) == [s \in SUBSET S |-> IF s = {} THEN 0
                       ELSE cmds[CHOOSE x \in s : TRUE].call.size + g[s \ {CHOOSE x \in s : TRUE}]]
<1>0. IsFiniteSet(S)
  BY FS_Interval, SMT
<1>1. ASSUME NEW g PROVE D(g) = FoldStep(w, S, g)
  <2>1. ASSUME NEW s \in SUBSET S PROVE D(g)[s] = FoldStep(w, S, g)[s]
    <3>1. CASE s = {}
      BY <3>1 DEF FoldStep
    <3>2. CASE s # {}
      <4>1. Pick(s) \in S
        BY <3>2, PickIn
      <4>2. w[Pick(s)] = cmds[Pick(s)].call.size
        BY <4>1 DEF CallSizes
      <4> QED
        BY <3>2, <4>2 DEF FoldStep, Pick
    <3> QED
      BY <3>1, <3>2
  <2> QED
    BY <2>1 DEF FoldStep
<1>2. \E g : g = D(g)
  <2>1. PICK g : IsFold(w, S, g)
    BY <1>0, FoldExists
  <2>2. g = FoldStep(w, S, g) /\ D(g) = FoldStep(w, S, g)
    BY <1>1, <2>1 DEF IsFold
  <2> HIDE DEF D, w, S
  <2> QED
    BY <2>2
<1>3. \E h : h = D(h) /\ Total(cmds, n) = h[S]
  BY <1>2 DEF Total, MapThenSumSet, MapThenFoldSet
<1> HIDE DEF D, w, S
<1>4. PICK h : h = D(h) /\ Total(cmds, n) = h[S]
  BY <1>3
<1>5. IsFold(w, S, h)
  BY <1>1, <1>4 DEF IsFold
<1>6. PICK k : IsFold(w, S, k) /\ SumOf(w, S) = k[S]
  BY <1>0, SumFold
<1>7. h[S] = k[S]
  <2>1. S \in SUBSET (S \cap S)
    OBVIOUS
  <2> QED
    BY <1>0, <1>5, <1>6, <2>1, FoldAgrees, SMT
<1> QED
  BY <1>4, <1>6, <1>7 DEF w, S

\* One unit more adds its size.
LEMMA TotalNext ==
    ASSUME NEW cmds, NEW n \in Nat, \A i \in 1..(n + 1) : cmds[i].call.size \in Nat
    PROVE  /\ Total(cmds, n) \in Nat /\ Total(cmds, n + 1) \in Nat
           /\ Total(cmds, n + 1) = Total(cmds, n) + cmds[n + 1].call.size
<1> DEFINE w == CallSizes(cmds, n + 1)
<1>1. n + 1 \in Nat /\ 1..(n + 1) = 1..n \cup {n + 1} /\ n + 1 \notin 1..n /\ n + 1 \in 1..(n + 1)
  BY SMT
<1>2. IsFiniteSet(1..(n + 1)) /\ IsFiniteSet(1..n)
  BY FS_Interval, SMT
<1>3. Weighs(w, 1..(n + 1)) /\ Weighs(w, 1..n) /\ w[n + 1] = cmds[n + 1].call.size
  BY <1>1, <1>2 DEF CallSizes, Weighs
<1>4. Total(cmds, n + 1) = SumOf(w, 1..(n + 1))
  BY <1>1, TotalSum
<1>5. Total(cmds, n) = SumOf(w, 1..n)
  <2>1. \A i \in 1..n : CallSizes(cmds, n)[i] = w[i]
    BY <1>1 DEF CallSizes
  <2>2. Total(cmds, n) = SumOf(CallSizes(cmds, n), 1..n)
    BY TotalSum
  <2> QED
    BY <1>2, <2>1, <2>2, SumAgrees
<1>6. SumOf(w, 1..n \cup {n + 1}) = SumOf(w, 1..n) + w[n + 1]
  <2>1. Weighs(w, 1..n \cup {n + 1})
    BY <1>1, <1>3
  <2> HIDE DEF w
  <2> QED
    BY <1>1, <2>1, SumAdd
<1>7. SumOf(w, 1..n) \in Nat /\ SumOf(w, 1..(n + 1)) \in Nat
  BY <1>3, SumType
<1> QED
  BY <1>1, <1>3, <1>4, <1>5, <1>6, <1>7

\* No unit takes nothing.
LEMMA TotalZero == ASSUME NEW cmds PROVE Total(cmds, 0) = 0
<1>1. 1..0 = {} /\ 0 \in Nat
  BY SMT
<1> QED
  BY <1>1, TotalSum, SumEmpty

\* One unit takes its own size.
LEMMA TotalFirst ==
    ASSUME NEW cmds, cmds[1].call.size \in Nat
    PROVE  Total(cmds, 1) = cmds[1].call.size
<1>1. 0 \in Nat /\ 0 + 1 = 1 /\ 1..1 = {1}
  BY SMT
<1>2. Total(cmds, 1) = Total(cmds, 0) + cmds[1].call.size
  BY <1>1, TotalNext
<1> QED
  BY <1>2, TotalZero, SMT

\* The records of the first n units take no more than those units.
LEMMA SumTakes ==
    ASSUME NEW P, IsFiniteSet(P), SizesIn(P), NEW cmds, NEW rec, NEW n \in Nat,
           \A i \in 1..n : cmds[i].call.size \in Nat /\ rec[i][3] = cmds[i].call.size
    PROVE  /\ IsFiniteSet(P \cup {rec[i] : i \in 1..n}) /\ SizesIn(P \cup {rec[i] : i \in 1..n})
           /\ SumSizes(P \cup {rec[i] : i \in 1..n}) <= SumSizes(P) + Total(cmds, n)
           /\ Total(cmds, n) \in Nat
<1> DEFINE Q(k) == P \cup {rec[i] : i \in 1..k}
           Holds(k) == /\ IsFiniteSet(Q(k)) /\ SizesIn(Q(k)) /\ SumSizes(Q(k)) \in Nat
                       /\ Total(cmds, k) \in Nat /\ SumSizes(Q(k)) <= SumSizes(P) + Total(cmds, k)
           T == {k \in Nat : k <= n => Holds(k)}
<1>0. SumSizes(P) \in Nat
  BY SumIsNat
<1>1. 0 \in T
  <2>1. 1..0 = {} /\ 0 \in Nat
    BY SMT
  <2>2. Q(0) = P
    BY <2>1
  <2>3. Total(cmds, 0) = 0
    BY TotalZero
  <2>4. SumSizes(P) <= SumSizes(P) + 0
    BY <1>0, SMT
  <2>5. Holds(0)
    BY <1>0, <2>1, <2>2, <2>3, <2>4
  <2> QED
    BY <2>1, <2>5
<1>2. ASSUME NEW k \in Nat, k \in T PROVE k + 1 \in T
  <2>1. k + 1 \in Nat /\ 1..(k + 1) = 1..k \cup {k + 1} /\ (k + 1 <= n => k <= n /\ 1..(k + 1) \subseteq 1..n)
    BY SMT
  <2>2. ASSUME k + 1 <= n PROVE Holds(k + 1)
    <3>1. Holds(k) /\ \A i \in 1..(k + 1) : cmds[i].call.size \in Nat
      BY <1>2, <2>1, <2>2
    <3>2. rec[k + 1][3] = cmds[k + 1].call.size /\ cmds[k + 1].call.size \in Nat
      BY <2>1, <2>2
    <3>3. Q(k + 1) = Q(k) \cup {rec[k + 1]}
      BY <2>1
    <3> HIDE DEF Q
    <3>4. /\ IsFiniteSet(Q(k) \cup {rec[k + 1]}) /\ SizesIn(Q(k) \cup {rec[k + 1]})
          /\ SumSizes(Q(k) \cup {rec[k + 1]}) \in Nat
          /\ SumSizes(Q(k) \cup {rec[k + 1]}) <= SumSizes(Q(k)) + rec[k + 1][3]
      BY <3>1, <3>2, SumAdds
    <3>5. /\ Total(cmds, k + 1) \in Nat
          /\ Total(cmds, k + 1) = Total(cmds, k) + cmds[k + 1].call.size
      BY <3>1, TotalNext
    <3>6. SumSizes(Q(k + 1)) <= SumSizes(P) + Total(cmds, k + 1)
      <4>1. SumSizes(Q(k + 1)) \in Nat /\ SumSizes(Q(k + 1)) <= SumSizes(Q(k)) + cmds[k + 1].call.size
        BY <3>2, <3>3, <3>4
      <4>2. SumSizes(Q(k)) \in Nat /\ SumSizes(Q(k)) <= SumSizes(P) + Total(cmds, k) /\ Total(cmds, k) \in Nat
        BY <3>1
      <4> QED
        BY <1>0, <3>2, <3>5, <4>1, <4>2, SMT
    <3> QED
      BY <3>3, <3>4, <3>5, <3>6
  <2> QED
    BY <2>1, <2>2
<1>3. T = Nat
  <2> HIDE DEF T
  <2>1. T \in SUBSET Nat
    BY DEF T
  <2> QED
    BY <1>1, <1>2, <2>1, Induction
<1>4. n \in T /\ n <= n
  <2> HIDE DEF T
  <2> QED
    BY <1>3, SMT
<1>5. Holds(n)
  BY <1>4
<1> QED
  BY <1>5

\* The units of stream s among the first n.
Ofs(cmds, n, s) == {i \in 1..n : cmds[i].call.stream = s}

\* The units of a stream are counted by a number.
LEMMA CountIsNat ==
    ASSUME NEW cmds, NEW n \in Nat, NEW s
    PROVE  IsFiniteSet(Ofs(cmds, n, s)) /\ InGroup(cmds, n, s) \in Nat
<1>1. IsFiniteSet(1..n)
  BY FS_Interval, SMT
<1>2. Ofs(cmds, n, s) \in SUBSET (1..n)
  BY DEF Ofs
<1>3. IsFiniteSet(Ofs(cmds, n, s))
  BY <1>1, <1>2, FS_Subset
<1> QED
  BY <1>3, FS_CardinalityType DEF InGroup, Ofs

\* Nothing holds no unit.
LEMMA CountZero == ASSUME NEW cmds, NEW s PROVE InGroup(cmds, 0, s) = 0
<1>1. 1..0 = {}
  BY SMT
<1> QED
  BY <1>1, FS_EmptySet DEF InGroup

\* One unit more counts for its own stream only.
LEMMA CountNext ==
    ASSUME NEW cmds, NEW n \in Nat, NEW s
    PROVE  InGroup(cmds, n + 1, s) =
             IF cmds[n + 1].call.stream = s THEN InGroup(cmds, n, s) + 1 ELSE InGroup(cmds, n, s)
<1>1. 1..(n + 1) = 1..n \cup {n + 1} /\ n + 1 \notin 1..n
  BY SMT
<1>2. CASE cmds[n + 1].call.stream = s
  <2>1. Ofs(cmds, n + 1, s) = Ofs(cmds, n, s) \cup {n + 1} /\ n + 1 \notin Ofs(cmds, n, s)
    BY <1>1, <1>2 DEF Ofs
  <2>2. Cardinality(Ofs(cmds, n, s) \cup {n + 1}) = Cardinality(Ofs(cmds, n, s)) + 1
    BY <2>1, CountIsNat, FS_AddElement
  <2> QED
    BY <1>2, <2>1, <2>2 DEF InGroup, Ofs
<1>3. CASE cmds[n + 1].call.stream # s
  <2>1. Ofs(cmds, n + 1, s) = Ofs(cmds, n, s)
    BY <1>1, <1>3 DEF Ofs
  <2> QED
    BY <1>3, <2>1 DEF InGroup, Ofs
<1> QED
  BY <1>2, <1>3

\* A longer prefix holds no fewer units of a stream.
LEMMA CountGrows ==
    ASSUME NEW cmds, NEW i \in Nat, NEW j \in Nat, i <= j, NEW s
    PROVE  InGroup(cmds, i, s) <= InGroup(cmds, j, s)
<1>1. 1..i \subseteq 1..j
  BY SMT
<1>2. Ofs(cmds, i, s) \in SUBSET Ofs(cmds, j, s)
  BY <1>1 DEF Ofs
<1>3. IsFiniteSet(Ofs(cmds, j, s))
  BY CountIsNat
<1>4. Cardinality(Ofs(cmds, i, s)) <= Cardinality(Ofs(cmds, j, s))
  BY <1>2, <1>3, FS_Subset
<1> QED
  BY <1>4 DEF InGroup, Ofs

\* Each unit counts for its stream.
LEMMA CountRises ==
    ASSUME NEW cmds, NEW i \in Nat, NEW j \in Nat, i < j
    PROVE  InGroup(cmds, i, cmds[j].call.stream) < InGroup(cmds, j, cmds[j].call.stream)
<1> DEFINE s == cmds[j].call.stream
<1>1. j - 1 \in Nat /\ i <= j - 1 /\ j - 1 + 1 = j
  BY SMT
<1>2. InGroup(cmds, j, s) = InGroup(cmds, j - 1, s) + 1
  <2>1. InGroup(cmds, j - 1 + 1, s) = IF cmds[j - 1 + 1].call.stream = s
                                      THEN InGroup(cmds, j - 1, s) + 1 ELSE InGroup(cmds, j - 1, s)
    BY <1>1, CountNext
  <2> QED
    BY <1>1, <2>1
<1>3. InGroup(cmds, i, s) <= InGroup(cmds, j - 1, s)
  BY <1>1, CountGrows
<1>4. InGroup(cmds, i, s) \in Nat /\ InGroup(cmds, j - 1, s) \in Nat
  BY <1>1, CountIsNat
<1> HIDE DEF s
<1>5. InGroup(cmds, i, s) < InGroup(cmds, j, s)
  BY <1>2, <1>3, <1>4, SMT
<1> QED
  BY <1>5 DEF s

\* Every count up to the last one is reached by a unit.
LEMMA CountReaches ==
    ASSUME NEW cmds, NEW n \in Nat, NEW s, NEW k \in 1..InGroup(cmds, n, s)
    PROVE  \E i \in 1..n : cmds[i].call.stream = s /\ InGroup(cmds, i, s) = k
<1> DEFINE T == {i \in Nat : k <= InGroup(cmds, i, s)}
<1>0. InGroup(cmds, n, s) \in Nat
  BY CountIsNat
<1>1. k \in Nat /\ k > 0 /\ k <= InGroup(cmds, n, s)
  BY <1>0, SMT
<1>2. T \in SUBSET Nat /\ n \in T
  BY <1>1
<1>3. PICK i \in T : \A j \in T : i <= j
  <2> HIDE DEF T
  <2>1. T # {}
    BY <1>2
  <2> QED
    BY <1>2, <2>1, NaturalsHaveLeast
<1>4. i \in Nat /\ k <= InGroup(cmds, i, s) /\ i <= n
  BY <1>2, <1>3
<1>5. i # 0
  <2>1. ~(k <= 0)
    BY <1>1, SMT
  <2> QED
    BY <1>4, <2>1, CountZero
<1>6. i - 1 \in Nat /\ i - 1 + 1 = i /\ ~(i <= i - 1) /\ i \in 1..n
  BY <1>4, <1>5, SMT
<1>7. ~(k <= InGroup(cmds, i - 1, s)) /\ InGroup(cmds, i - 1, s) \in Nat /\ InGroup(cmds, i, s) \in Nat
  <2>1. i - 1 \notin T
    BY <1>3, <1>6
  <2> QED
    BY <1>4, <1>6, <2>1, CountIsNat
<1>8. InGroup(cmds, i, s) =
        IF cmds[i].call.stream = s THEN InGroup(cmds, i - 1, s) + 1 ELSE InGroup(cmds, i - 1, s)
  <2>1. InGroup(cmds, i - 1 + 1, s) = IF cmds[i - 1 + 1].call.stream = s
                                      THEN InGroup(cmds, i - 1, s) + 1 ELSE InGroup(cmds, i - 1, s)
    BY <1>6, CountNext
  <2> QED
    BY <1>6, <2>1
<1>9. cmds[i].call.stream = s
  <2>1. SUFFICES ASSUME cmds[i].call.stream # s PROVE FALSE
    OBVIOUS
  <2>2. InGroup(cmds, i, s) = InGroup(cmds, i - 1, s)
    BY <1>8, <2>1
  <2> QED
    BY <1>4, <1>7, <2>2
<1>10. InGroup(cmds, i, s) = k
  <2>1. InGroup(cmds, i, s) = InGroup(cmds, i - 1, s) + 1
    BY <1>8, <1>9
  <2> QED
    BY <1>1, <1>4, <1>7, <2>1, SMT
<1> QED
  BY <1>6, <1>9, <1>10

\* The laws that ReactorCommands takes as hypotheses hold.
LEMMA CountingLawsHold == CountingLaws
<1>1. \A S \in SUBSET Nat : \A b \in Nat :
        S # {} /\ (\A x \in S : x <= b) => Max(S) \in S /\ \A x \in S : x <= Max(S)
  BY MaxIsMember
<1>2. Cardinality({}) = 0
  BY FS_EmptySet
<1>3. ASSUME NEW S, IsFiniteSet(S), SizesIn(S)
      PROVE  /\ SumSizes(S) \in Nat
             /\ \A T \in SUBSET S : IsFiniteSet(T) /\ SumSizes(S) = SumSizes(S \ T) + SumSizes(T)
  BY <1>3, SumIsNat, SumSplits, FS_Subset
<1>4. \A cmds : cmds[1].call.size \in Nat => Total(cmds, 1) = cmds[1].call.size
  BY TotalFirst
<1>5. ASSUME NEW P, NEW cmds, NEW rec, NEW n \in Nat PROVE AppendLaw(P, cmds, rec, n)
  BY SumTakes DEF AppendLaw
<1>6. ASSUME NEW cmds, NEW s, NEW n \in Nat
      PROVE  /\ InGroup(cmds, n, s) \in Nat
             /\ \A m \in Nat : n <= m => InGroup(cmds, n, s) <= InGroup(cmds, m, s)
             /\ \A k \in 1..InGroup(cmds, n, s) :
                  \E i \in 1..n : cmds[i].call.stream = s /\ InGroup(cmds, i, s) = k
  BY CountIsNat, CountGrows, CountReaches, SMT
<1>7. \A cmds : \A i, j \in Nat :
        i < j => InGroup(cmds, i, cmds[j].call.stream) < InGroup(cmds, j, cmds[j].call.stream)
  BY CountRises
<1> QED
  BY <1>1, <1>2, <1>3, <1>4, <1>5, <1>6, <1>7 DEF CountingLaws

-----------------------------------------------------------------------------
(* Waiters. *)

\* Exactly one command of the line belongs to a caller that awaits an answer, and none to
\* anyone else who is still there.
LEMMA WaitersHaveCommands == ControlInv /\ LineInv => EveryWaiterHasItsCommand
\* The line holds at most one command of each caller.
<1>OneCommand.
    ASSUME NEW C, NEW W \in Seq(C), InOrder(W), NEW c
    PROVE  \A i, j \in DOMAIN W : W[i].call.caller = c /\ W[j].call.caller = c => i = j
  <2> USE <1>OneCommand
  <2> SUFFICES ASSUME NEW i \in DOMAIN W, NEW j \in DOMAIN W,
                      W[i].call.caller = c, W[j].call.caller = c, i # j
               PROVE  FALSE
    OBVIOUS
  <2>1. i < j \/ j < i
    BY SMT
  <2> QED
    BY <2>1 DEF InOrder, Before
<1> SUFFICES ASSUME ControlInv, LineInv, receiver # "dropped", NEW c \in Callers, pc[c] # "gone"
             PROVE  Cardinality(CommandsOf(c)) = IF pc[c] = "reply" /\ reply[c] = "none" THEN 1 ELSE 0
  BY DEF EveryWaiterHasItsCommand
<1> DEFINE s == group \o backlog
           W == s \o queue
<1>1. group \in Seq(CommandSet) /\ backlog \in Seq(CommandSet) /\ queue \in Seq(CommandSet)
  BY DEF LineInv, Commands
<1>2. s \in Seq(CommandSet) /\ InOrder(s) /\ Owned(s) /\ Precedes(s, queue)
  BY <1>1, ConcatIndex, ConcatInOrder, ConcatHas DEF LineInv, Line, Hand
<1>3. W \in Seq(CommandSet) /\ InOrder(W) /\ Owned(W)
  <2> HIDE DEF s
  <2> QED
    BY <1>1, <1>2, ConcatIndex, ConcatInOrder, ConcatHas DEF LineInv, Line
<1>4. Has(W, c) <=> Has(group, c) \/ Has(backlog, c) \/ Has(queue, c)
  <2>1. Has(s, c) <=> Has(group, c) \/ Has(backlog, c)
    BY <1>1, ConcatHas
  <2> HIDE DEF s
  <2>2. Has(W, c) <=> Has(s, c) \/ Has(queue, c)
    BY <1>1, <1>2, ConcatHas
  <2> QED
    BY <2>1, <2>2
<1>5. CommandsOf(c) = {i \in DOMAIN W : W[i].call.caller = c}
  BY DEF CommandsOf
<1> HIDE DEF W, s
<1>6. CASE pc[c] = "reply" /\ reply[c] = "none"
  <2>1. Has(W, c)
    BY <1>4, <1>6 DEF LineInv, Line
  <2>2. PICK i \in DOMAIN W : W[i].call.caller = c
    BY <2>1 DEF Has
  <2>3. CommandsOf(c) = {i}
    BY <1>3, <1>5, <2>2, <1>OneCommand
  <2> QED
    BY <1>6, <2>3, FS_Singleton
<1>7. CASE ~(pc[c] = "reply" /\ reply[c] = "none")
  <2>1. CommandsOf(c) = {}
    BY <1>3, <1>5, <1>7 DEF Owned, Awaits
  <2> QED
    BY <1>7, <2>1, FS_EmptySet
<1> QED
  BY <1>6, <1>7

-----------------------------------------------------------------------------
(* Slots. *)

\* The words and the count of events.
Words ==
    /\ lifecycle \in {"running", "shutting_down", "closed", "poisoned"}
    /\ shutdownSent \in BOOLEAN /\ reactorFinished \in BOOLEAN /\ closing \in BOOLEAN
    /\ events \in Nat

\* The slots of the channel are taken by commands or by permits.
Slots ==
    /\ IsFiniteSet(Permits)
    /\ receiver # "dropped" => Len(queue) + Cardinality(Permits) <= QueueCapacity

\* Every step keeps SlotInv: reserve_running takes a slot that send fills and the reactor
\* empties.
LEMMA SlotStep == ControlInv /\ LineInv /\ LineInv' /\ SlotInv /\ [Next]_vars => SlotInv'
\* The flags stay flags.
<1>WordsStep. ASSUME Words, [Next]_vars PROVE Words'
  <2> USE <1>WordsStep
  <2>1. events' = events \/ \E n \in Nat : events' = events + n
    <3>1. 0 \in Nat /\ 1 \in Nat /\ 2 \in Nat /\ 0 + 1 = 1 /\ 1 + 1 = 2
      BY SMT
    <3>2. \A kind, cmds : StartJob(kind, cmds, 0) \/ StartJob(kind, cmds, 1) =>
            events' = events \/ \E n \in Nat : events' = events + n
      BY <3>1 DEF StartJob, Events
    <3>3. Event => \E n \in Nat : events' = events + n
      BY <3>1 DEF Event, Events
    <3>4. ASSUME NEW c \in Callers, Client(c) \/ Start(c) \/ Cancel(c)
          PROVE  events' = events \/ \E n \in Nat : events' = events + n
      BY <3>3, <3>4 DEF Client, GetPermit, Send, Receive, Wake, Start, Cancel
    <3>5. ASSUME NEW p \in Stoppers, Stopper(p) \/ StopBegin(p) \/ StopCancel(p)
          PROVE  events' = events \/ \E n \in Nat : events' = events + n
      BY <3>3, <3>5 DEF Stopper, StopStore, StopAnnounce, StopLoop, StopBegin, StopCancel
    <3>6. CASE Job
      BY <3>3, <3>6 DEF Job, AppendJob, ReadJob, ReleaseJob, ReclaimJob, RolloverJob, FailingJob, LosingJob
    <3>7. CASE Loop \/ AgeTimer \/ DropReactor \/ GuardDrop
      <4>1. CASE AutomaticReclaim \/ Dispatch \/ AgeTimer
        BY <3>2, <4>1 DEF AutomaticReclaim, Dispatch, AgeTimer
      <4>2. CASE ~(AutomaticReclaim \/ Dispatch \/ AgeTimer)
        BY <3>3, <3>7, <4>2 DEF Loop, CloseReceiver, EndLoop, FinishReactor, RejectPoisoned, Publish, Reply,
             FinishDropped, DropReactor, GuardDrop
      <4> QED
        BY <4>1, <4>2
    <3>8. CASE UNCHANGED vars
      BY <3>8 DEF vars
    <3> QED
      BY <3>4, <3>5, <3>6, <3>7, <3>8 DEF Next, Step
  <2>2. events' \in Nat
    BY <2>1, SMT DEF Words
  <2>3. /\ lifecycle' \in {lifecycle, "shutting_down", "closed", "poisoned"}
        /\ shutdownSent' \in {shutdownSent, TRUE} /\ reactorFinished' \in {reactorFinished, TRUE}
        /\ closing' \in {closing, TRUE}
    <3>1. ASSUME NEW c \in Callers, Client(c) \/ Start(c) \/ Cancel(c)
          PROVE  UNCHANGED <<lifecycle, shutdownSent, reactorFinished, closing>>
      BY <3>1 DEF Client, GetPermit, Send, Receive, Wake, Start, Cancel, KeepRoot, lifeVars, loopVars
    <3>2. ASSUME NEW p \in Stoppers, Stopper(p) \/ StopBegin(p) \/ StopCancel(p)
          PROVE  /\ lifecycle' \in {lifecycle, "shutting_down", "closed"} /\ shutdownSent' \in {shutdownSent, TRUE}
                 /\ UNCHANGED <<reactorFinished, closing>>
      BY <3>2 DEF Stopper, StopStore, StopAnnounce, StopLoop, StopBegin, StopCancel, KeepRest, loopVars
    <3>3. CASE Job \/ GuardDrop
      BY <3>3 DEF Job, GuardDrop, lifeVars, loopVars
    <3>4. CASE Loop \/ AgeTimer \/ DropReactor
      BY <3>4 DEF Loop, AutomaticReclaim, CloseReceiver, EndLoop, FinishReactor, RejectPoisoned, Dispatch,
           Publish, Reply, FinishDropped, AgeTimer, DropReactor, poison, lifeVars
    <3>5. CASE UNCHANGED vars
      BY <3>5 DEF vars, lifeVars, loopVars
    <3> QED
      BY <3>1, <3>2, <3>3, <3>4, <3>5 DEF Next, Step
  <2> QED
    BY <2>2, <2>3 DEF Words
\* Permits and channel stay within the slots when neither grows.
<1>SlotsKeep.
    ASSUME LineInv, LineInv', Slots, Permits' \subseteq Permits,
           receiver' # "dropped" => receiver # "dropped" /\ Len(queue') <= Len(queue)
    PROVE  Slots'
  <2> USE <1>SlotsKeep
  <2>1. IsFiniteSet(Permits) /\ Cardinality(Permits) \in Nat
    BY FS_CardinalityType DEF Slots
  <2>2. IsFiniteSet(Permits') /\ Cardinality(Permits') <= Cardinality(Permits) /\ Cardinality(Permits') \in Nat
    BY <2>1, FS_Subset, FS_CardinalityType
  <2>3. queue \in Seq(CommandSet) /\ queue' \in Seq(CommandSet')
    BY DEF LineInv, Commands
  <2>4. Len(queue) \in Nat /\ Len(queue') \in Nat
    BY <2>3, SMT
  <2>5. receiver' # "dropped" => Len(queue') + Cardinality(Permits') <= QueueCapacity
    <3>1. SUFFICES ASSUME receiver' # "dropped" PROVE Len(queue') + Cardinality(Permits') <= QueueCapacity
      OBVIOUS
    <3>2. Len(queue) + Cardinality(Permits) <= QueueCapacity /\ Len(queue') <= Len(queue)
      BY <3>1 DEF Slots
    <3>3. QueueCapacity \in Nat
      BY ReactorAssumption
    <3> QED
      BY <2>1, <2>2, <2>4, <3>2, <3>3, SMT
  <2> QED
    BY <2>2, <2>5 DEF Slots
\* A permit takes a free slot.
<1>SlotsReserve.
    ASSUME ControlInv, LineInv, Slots, NEW c \in Callers, Reserve(c), pc[c] # "send",
           UNCHANGED <<queue, receiver>>
    PROVE  Slots'
  <2> USE <1>SlotsReserve
  <2>1. IsFiniteSet(Permits) /\ Cardinality(Permits) \in Nat
    BY FS_CardinalityType DEF Slots
  <2>2. queue \in Seq(CommandSet)
    BY DEF LineInv, Commands
  <2>3. Len(queue) \in Nat /\ QueueCapacity \in Nat
    BY <2>2, ReactorAssumption, SMT
  <2>4. PICK step : Goto(c, step) /\ (step = "send" => SlotIsFree)
    <3>1. CASE lifecycle # "running"
      <4>1. Goto(c, "done") /\ "done" # "send"
        BY <3>1 DEF Reserve, Finish
      <4> QED
        BY <4>1
    <3>2. CASE lifecycle = "running" /\ receiver # "open"
      <4>1. Goto(c, "broken") /\ "broken" # "send"
        BY <3>2 DEF Reserve, FinishChannel
      <4> QED
        BY <4>1
    <3>3. CASE lifecycle = "running" /\ ~(receiver # "open")
      <4>1. Goto(c, IF SlotIsFree THEN "send" ELSE "full")
        BY <3>3 DEF Reserve
      <4>2. CASE SlotIsFree
        <5>1. Goto(c, "send")
          BY <4>1, <4>2
        <5> QED
          BY <4>2, <5>1
      <4>3. CASE ~SlotIsFree
        <5>1. Goto(c, "full") /\ "full" # "send"
          BY <4>1, <4>3
        <5> QED
          BY <5>1
      <4> QED
        BY <4>2, <4>3
    <3> QED
      BY <3>1, <3>2, <3>3
  <2>5. pc'[c] = step /\ \A q \in Procs \ {c} : pc'[q] = pc[q]
    BY <2>4, CallerIsProc, GotoMoves
  <2>6. \A d \in Callers \ {c} : pc'[d] = pc[d]
    BY <2>5, CallerIsProc
  <2>7. CASE step = "send"
    <3>1. Permits' = Permits \cup {c}
      BY <2>5, <2>6, <2>7, SMT DEF Permits
    <3>0. c \notin Permits
      BY DEF Permits
    <3>2. IsFiniteSet(Permits') /\ Cardinality(Permits') = Cardinality(Permits) + 1
      BY <2>1, <3>0, <3>1, FS_AddElement
    <3>3. Len(queue) + Cardinality(Permits) < QueueCapacity
      BY <2>4, <2>7 DEF SlotIsFree
    <3>4. Len(queue) + Cardinality(Permits') <= QueueCapacity
      BY <2>1, <2>3, <3>2, <3>3, SMT
    <3> QED
      BY <3>2, <3>4 DEF Slots
  <2>8. CASE step # "send"
    <3>1. Permits' = Permits
      BY <2>5, <2>6, <2>8 DEF Permits
    <3> QED
      BY <3>1 DEF Slots
  <2> QED
    BY <2>7, <2>8
\* A command takes the slot of its caller's permit.
<1>SlotsSend.
    ASSUME ControlInv, LineInv, Slots, NEW c \in Callers, Send(c)
    PROVE  Slots'
  <2> USE <1>SlotsSend
  <2>1. /\ pc[c] = "send" /\ Goto(c, "reply") /\ UNCHANGED receiver
        /\ queue' = Append(queue, [call |-> op[c], ticket |-> tickets + 1])
    BY DEF Send
  <2>2. IsFiniteSet(Permits) /\ Cardinality(Permits) \in Nat
    BY FS_CardinalityType DEF Slots
  <2>3. queue \in Seq(CommandSet)
    BY DEF LineInv, Commands
  <2>4. Len(queue) \in Nat /\ QueueCapacity \in Nat /\ Len(queue') = Len(queue) + 1
    BY <2>1, <2>3, ReactorAssumption, SMT
  <2>5. pc'[c] = "reply" /\ \A q \in Procs \ {c} : pc'[q] = pc[q]
    BY <2>1, CallerIsProc, GotoMoves
  <2>6. \A d \in Callers \ {c} : pc'[d] = pc[d]
    BY <2>5, CallerIsProc
  <2>7. Permits' = Permits \ {c} /\ c \in Permits
    BY <2>1, <2>5, <2>6 DEF Permits
  <2>8. IsFiniteSet(Permits') /\ Cardinality(Permits') = Cardinality(Permits) - 1
    BY <2>2, <2>7, FS_RemoveElement
  <2>9. receiver # "dropped" => Len(queue) + Cardinality(Permits) <= QueueCapacity
    BY DEF Slots
  <2>10. receiver # "dropped" => Len(queue') + Cardinality(Permits') <= QueueCapacity
    BY <2>2, <2>4, <2>8, <2>9, SMT
  <2> QED
    BY <2>1, <2>8, <2>10 DEF Slots
\* The other steps of a caller take no slot.
<1>SlotsClient.
    ASSUME ControlInv, LineInv, LineInv', Slots, NEW c \in Callers, Client(c) \/ Start(c) \/ Cancel(c)
    PROVE  Slots'
  <2> USE <1>SlotsClient
  <2>1. CASE Send(c)
    BY <2>1, <1>SlotsSend
  <2>2. CASE ~Send(c)
    <3>1. UNCHANGED <<queue, receiver>> /\ pc[c] # "send"
      BY <2>2 DEF Client, GetPermit, Receive, Wake, Start, Cancel, queueVars
    <3>2. Reserve(c) \/ \E step : step # "send" /\ Goto(c, step)
      BY <2>2 DEF Client, GetPermit, Receive, Wake, Start, Cancel, ReadCheck, FinishChannel, Finish
    <3>3. CASE Reserve(c)
      BY <3>1, <3>3, <1>SlotsReserve
    <3>4. CASE \E step : step # "send" /\ Goto(c, step)
      <4>1. PICK step : step # "send" /\ Goto(c, step)
        BY <3>4
      <4>2. pc'[c] = step /\ \A q \in Procs \ {c} : pc'[q] = pc[q]
        BY <4>1, CallerIsProc, GotoMoves
      <4>3. \A d \in Callers \ {c} : pc'[d] = pc[d]
        BY <4>2, CallerIsProc
      <4>4. Permits' = Permits
        BY <3>1, <4>1, <4>2, <4>3 DEF Permits
      <4> QED
        BY <3>1, <4>4 DEF Slots
    <3> QED
      BY <3>2, <3>3, <3>4
  <2> QED
    BY <2>1, <2>2
\* The reactor frees the slots of the commands it takes from the channel.
<1>SlotsDispatch.
    ASSUME ControlInv, LineInv, LineInv', Slots, Dispatch
    PROVE  Slots'
  <2> USE <1>SlotsDispatch
  <2> DEFINE W == Waiting
             n == GroupLength(W)
             taken == IF n < MaxUnits /\ n < Len(W) /\ Groupable(W[1]) THEN n + 1 ELSE n
             kept == Max({taken, Len(backlog)})
  <2>1. /\ rpc = "top" /\ W # << >> /\ UNCHANGED <<pc, receiver>> /\ queue' = SubSeq(W, kept + 1, Len(W))
    BY DEF Dispatch, clientVars
  <2>2. W \in Seq(CommandSet) /\ backlog \in Seq(CommandSet) /\ queue \in Seq(CommandSet)
    BY <2>1, WaitingLine
  <2>3. n \in 1..Len(W)
    BY <2>1, <2>2, GroupLengthIn, CountingLawsHold
  <2>4. Len(W) = Len(backlog) + Len(queue) /\ Len(W) \in Nat /\ Len(backlog) \in Nat /\ Len(queue) \in Nat
    BY <2>2, SMT DEF Waiting
  <2>5. taken \in Nat /\ taken <= Len(W)
    <3> HIDE DEF n, W
    <3> QED
      BY <2>3, <2>4, SMT
  <2>6. kept \in Nat /\ kept <= Len(W) /\ Len(backlog) <= kept
    <3> HIDE DEF taken
    <3>1. {taken, Len(backlog)} \in SUBSET Nat /\ {taken, Len(backlog)} # {}
      BY <2>4, <2>5
    <3>2. \A x \in {taken, Len(backlog)} : x <= Len(W)
      BY <2>4, <2>5, SMT
    <3>3. kept \in {taken, Len(backlog)} /\ \A x \in {taken, Len(backlog)} : x <= kept
      BY <2>4, <3>1, <3>2, MaxMember, CountingLawsHold
    <3> QED
      BY <3>1, <3>2, <3>3
  <2> HIDE DEF kept, n, W, taken
  <2>7. Len(queue') <= Len(queue)
    BY <2>1, <2>2, <2>4, <2>6, SMT
  <2>8. Permits' = Permits
    BY <2>1 DEF Permits
  <2> QED
    BY <2>1, <2>7, <2>8, <1>SlotsKeep
\* A step keeps the slots within the capacity of the channel.
<1>SlotsStep. ASSUME ControlInv, LineInv, LineInv', Slots, [Next]_vars PROVE Slots'
  <2> USE <1>SlotsStep
  <2>0. queue \in Seq(CommandSet)
    BY DEF LineInv, Commands
  <2>1. Len(queue) <= Len(queue) /\ Len(queue) \in Nat
    BY <2>0, SMT
  <2>2. ASSUME NEW p \in Stoppers, Stopper(p) \/ StopBegin(p) \/ StopCancel(p) PROVE Slots'
    <3>1. KeepRest /\ \E step : Goto(p, step)
      BY <2>2 DEF Stopper, StopBegin, StopCancel, StopStore, StopAnnounce, StopLoop
    <3>2. p \notin Callers /\ p \in Procs /\ \A c \in Callers : c \in Procs \ {p}
      BY ReactorAssumption DEF Procs
    <3>3. \A c \in Callers : pc'[c] = pc[c]
      BY <3>1, <3>2, GotoMoves
    <3>4. UNCHANGED <<queue, receiver>> /\ Permits' = Permits
      BY <3>1, <3>3 DEF KeepRest, queueVars, Permits
    <3> QED
      BY <3>4 DEF Slots
  <2>3. CASE RejectPoisoned
    <3>1. UNCHANGED <<pc, receiver>> /\ Take(1)
      BY <2>3 DEF RejectPoisoned
    <3>2. backlog \in Seq(CommandSet)
      BY DEF LineInv, Commands
    <3>3. Len(queue') <= Len(queue)
      BY <2>0, <3>1, <3>2, SMT DEF Take
    <3>4. Permits' = Permits
      BY <3>1 DEF Permits
    <3> QED
      BY <3>1, <3>3, <3>4, <1>SlotsKeep
  <2>4. CASE UNCHANGED vars \/ Job \/ GuardDrop \/ AgeTimer \/ AutomaticReclaim \/ FinishReactor \/ FinishDropped
             \/ Publish \/ Reply
    <3>1. UNCHANGED <<pc, queue, receiver>>
      BY <2>4 DEF vars, Job, GuardDrop, AgeTimer, AutomaticReclaim, FinishReactor, FinishDropped, Publish,
           Reply, clientVars, queueVars
    <3>2. Permits' = Permits
      BY <3>1 DEF Permits
    <3> QED
      BY <3>1, <3>2 DEF Slots
  <2>5. CASE CloseReceiver \/ EndLoop \/ DropReactor
    <3>1. UNCHANGED pc /\ (receiver' # "dropped" => rpc = "top" /\ UNCHANGED queue)
      BY <2>5 DEF CloseReceiver, EndLoop, DropReactor, clientVars
    <3>2. Permits' = Permits
      BY <3>1 DEF Permits
    <3>3. rpc = "top" => receiver # "dropped"
      BY DEF ControlInv, Channel
    <3> QED
      BY <2>1, <3>1, <3>2, <3>3, <1>SlotsKeep
  <2> QED
    BY <2>2, <2>3, <2>4, <2>5, <1>SlotsClient, <1>SlotsDispatch DEF Next, Step, Loop
<1> SUFFICES ASSUME ControlInv, LineInv, LineInv', SlotInv, [Next]_vars PROVE SlotInv'
  OBVIOUS
<1>1. Words /\ Slots
  BY DEF SlotInv, Words, Slots
<1>2. Words' /\ Slots'
  BY <1>1, <1>WordsStep, <1>SlotsStep
<1> QED
  BY <1>2 DEF SlotInv, Words, Slots

\* The channel of a new root is empty.
LEMMA SlotInit == Init => SlotInv
<1> SUFFICES ASSUME Init PROVE SlotInv
  OBVIOUS
<1>1. Permits = {}
  <2>1. \A c \in Callers : pc[c] = "idle"
    BY DEF Init, Procs
  <2> QED
    BY <2>1 DEF Permits
<1>2. IsFiniteSet(Permits) /\ Cardinality(Permits) = 0
  BY <1>1, FS_EmptySet
<1>3. queue = << >> /\ 0 \in Nat /\ events = 0
  BY SMT DEF Init
<1>4. Len(queue) + Cardinality(Permits) <= QueueCapacity
  <2>1. QueueCapacity \in Nat \ {0}
    BY ReactorAssumption
  <2> QED
    BY <1>2, <1>3, <2>1, SMT
<1> QED
  BY <1>2, <1>3, <1>4 DEF SlotInv, Init

-----------------------------------------------------------------------------
(* Initial states and types. *)

\* What recovery found fits the capacity (validate_capacity) and has its sequences.
LEMMA RecordsInit == Init => Assigned /\ Stored
<1> SUFFICES ASSUME Init PROVE Assigned /\ Stored
  OBVIOUS
<1> USE DEF Init
<1>1. tickets = 0 /\ 0 \in 0..0 /\ <<0>> \in Seq(0..0) /\ << >> \in Seq(0..0) /\ Len(<<0>>) = 1 /\ Len(<< >>) = 0
  BY SMT
<1>2. assigned = [s \in Stream |-> IF \E r \in Recovered : r[1] = s THEN <<0>> ELSE << >>]
  OBVIOUS
<1>3. \A s \in Stream : /\ assigned[s] \in {<<0>>, << >>}
                        /\ (\E r \in Recovered : r[1] = s) => assigned[s] = <<0>>
  BY <1>2
<1>4. assigned \in [Stream -> Seq(0..tickets)]
  BY <1>1, <1>2
<1>5. SequencesFollowTheQueue
  <2>1. \A i, j \in DOMAIN <<0>> : ~(i < j)
    BY SMT
  <2>2. \A i, j \in DOMAIN << >> : ~(i < j)
    BY SMT
  <2> QED
    BY <1>3, <2>1, <2>2 DEF SequencesFollowTheQueue
<1>6. Fresh(backlog) /\ Fresh(queue) /\ holder # "job" /\ rpc \notin {"back", "reply"}
  <2>1. DOMAIN << >> = {}
    BY SMT
  <2> QED
    BY <2>1 DEF Fresh
<1>7. \A s \in Stream : Highwater(s) <= SeqLimit /\ ((\E r \in Recovered : r[1] = s) => Highwater(s) = 1)
  <2>1. SeqLimit \in Nat \ {0}
    BY ReactorAssumption
  <2>2. 0 <= SeqLimit /\ 1 <= SeqLimit
    BY <2>1, SMT
  <2> QED
    BY <1>1, <1>3, <2>2 DEF Highwater
<1>8. \A r \in pending : r[1] \in Stream /\ r[2] \in 1..Highwater(r[1]) /\ r[3] \in Nat
  <2>1. ASSUME NEW r \in Recovered PROVE r[1] \in Stream /\ r[2] \in 1..Highwater(r[1]) /\ r[3] \in Nat
    <3>1. r[1] \in Stream /\ r[2] = 1 /\ r[3] \in Nat
      BY ReactorAssumption
    <3>2. Highwater(r[1]) = 1 /\ 1 \in 1..1
      BY <1>7, <3>1, SMT
    <3> QED
      BY <3>1, <3>2
  <2> QED
    BY <2>1
<1>9. IsFiniteSet(pending) /\ dead \in Nat /\ work \in BOOLEAN /\ Used <= Capacity
  <2>1. IsFiniteSet(Recovered) /\ SumSizes(Recovered) <= Capacity /\ SizesIn(Recovered) /\ Capacity \in Nat
    BY ReactorAssumption DEF SizesIn
  <2>2. SumSizes(Recovered) \in Nat
    BY <2>1, SumIsNat
  <2>3. SumSizes(Recovered) + 0 <= Capacity /\ 0 \in Nat
    BY <2>1, <2>2, SMT
  <2> QED
    BY <2>1, <2>3 DEF Used
<1> QED
  BY <1>4, <1>5, <1>6, <1>7, <1>8, <1>9 DEF Assigned, Stored

\* The first view shows what recovery found.
LEMMA SequenceInit == Init => SequenceInv
<1> SUFFICES ASSUME Init PROVE SequenceInv
  OBVIOUS
<1>1. Assigned /\ Stored
  BY RecordsInit
<1>2. view = ViewFromStorage /\ rpc = "top" /\ returned = {}
  BY DEF Init
<1>3. /\ DOMAIN view.streams = Stream
      /\ \A s \in Stream : view.streams[s].highwater = Highwater(s)
  BY <1>2, ViewShows
<1>4. \A s \in Stream : Highwater(s) \in 0..Highwater(s)
  <2> SUFFICES ASSUME NEW s \in Stream PROVE Highwater(s) \in 0..Highwater(s)
    OBVIOUS
  <2>1. assigned[s] \in Seq(0..tickets)
    BY <1>1 DEF Assigned
  <2> QED
    BY <2>1, SMT DEF Highwater
<1>5. Shown
  BY <1>2, <1>3, <1>4 DEF Shown
<1>6. Answered
  BY <1>2 DEF Answered, ReturnedIdsAreKnown
<1> QED
  BY <1>1, <1>5, <1>6 DEF SequenceInv

\* The five invariants give every variable its type.
LEMMA TypesHold == ControlInv /\ LineInv /\ SequenceInv /\ WakeInv /\ SlotInv => TypeOK
<1> SUFFICES ASSUME ControlInv, LineInv, SequenceInv, WakeInv, SlotInv PROVE TypeOK
  OBVIOUS
<1>1. activeJobs \in Nat /\ guards \in Nat /\ activeJobs = guards + (IF holder = "job" THEN 1 ELSE 0)
  BY SMT DEF ControlInv, Ownership
<1>2. {shutdownStarted, shutdownSent, reactorFinished, failed, closing, work} \subseteq BOOLEAN
  BY DEF ControlInv, Lifecycle, SequenceInv, Stored, SlotInv
<1>3. {activeJobs, guards, tickets, dead, events} \subseteq Nat
  BY <1>1 DEF LineInv, Commands, SequenceInv, Stored, SlotInv
<1>4. receiver \in {"open", "closed", "dropped"} /\ holder \in {"reactor", "job", "none"}
  BY DEF ControlInv, Channel, Ownership
<1>5. queue \in Seq(CommandSet) /\ backlog \in Seq(CommandSet) /\ group \in Seq(CommandSet)
  BY DEF LineInv, Commands
<1>6. /\ \A s \in Stream : assigned[s] \in Seq(0..tickets) /\ Highwater(s) <= SeqLimit
      /\ \A r \in pending : r[1] \in Stream /\ r[2] \in 1..Highwater(r[1]) /\ r[3] \in Nat
      /\ Used <= Capacity
  BY DEF SequenceInv, Assigned, Stored
<1>7. Len(queue) + Cardinality(Permits) <= QueueCapacity \/ receiver = "dropped"
  BY DEF SlotInv
<1>8. lifecycle \in {"running", "shutting_down", "closed", "poisoned"} /\ unseen \subseteq Procs
  BY DEF SlotInv, WakeInv
<1> QED
  BY <1>1, <1>2, <1>3, <1>4, <1>5, <1>6, <1>7, <1>8 DEF TypeOK

-----------------------------------------------------------------------------
(* Theorems. *)

\* A root that was just opened satisfies the invariant.
LEMMA ReactorInit == Init => ReactorInv
  BY ControlInit, LineInit, SequenceInit, WakeInit, SlotInit DEF ReactorInv

\* Every step keeps it.
LEMMA ReactorStep == ReactorInv /\ [Next]_vars => ReactorInv'
<1> SUFFICES ASSUME ControlInv, LineInv, SequenceInv, WakeInv, SlotInv, [Next]_vars
             PROVE  ControlInv' /\ LineInv' /\ SequenceInv' /\ WakeInv' /\ SlotInv'
  BY DEF ReactorInv
<1>1. ControlInv'
  BY ControlStep
<1>2. LineInv'
  BY CountingLawsHold, LineStep
<1>3. SequenceInv'
  BY CountingLawsHold, SequenceStep
<1>4. WakeInv'
  BY CountingLawsHold, WakeStep
<1>5. SlotInv'
  BY <1>2, SlotStep
<1> QED
  BY <1>1, <1>2, <1>3, <1>4, <1>5

\* At every point of a root's life, through failed and lost jobs, poison, shutdown and the
\* drop of the reactor task: Storage has at most one owner, every command is in one place
\* of one line, sequences follow that line, the view shows Storage whenever an answer is
\* given, nobody sleeps without reason, and the channel is within its capacity.
THEOREM InvariantHolds == Spec => []ReactorInv
  BY ReactorInit, ReactorStep, PTL DEF Spec

\* Every variable of callers, channel, reactor_loop and Storage keeps its type; the channel
\* stays within queue_capacity, the records with the dead bytes within the root's
\* capacity, and active_jobs counts the guards and the running job.
THEOREM TypeCorrect == Spec => []TypeOK
<1>1. ReactorInv => TypeOK
  BY TypesHold DEF ReactorInv
<1> QED
  BY <1>1, InvariantHolds, PTL

\* Admission is first in, first out: whatever commit groups reactor_loop forms, splits,
\* defers and requeues, the sequences of a stream follow the order of the sends.
THEOREM SequencesFollow == Spec => []SequencesFollowTheQueue
<1>1. ReactorInv => SequencesFollowTheQueue
  BY DEF ReactorInv, SequenceInv, Assigned
<1> QED
  BY <1>1, InvariantHolds, PTL

\* No command is lost and none can run twice: a caller that awaits its response has exactly
\* one command in the group, the backlog or the channel, and one that was answered has none.
THEOREM CommandsAreKept == Spec => []EveryWaiterHasItsCommand
<1>1. ReactorInv => EveryWaiterHasItsCommand
  BY WaitersHaveCommands DEF ReactorInv
<1> QED
  BY <1>1, InvariantHolds, PTL

\* publish_storage precedes every reply: the view's high-water covers every identity that
\* was handed out, so preflight_release never calls one unknown.
THEOREM ReturnedAreKnown == Spec => []ReturnedIdsAreKnown
<1>1. ReactorInv => ReturnedIdsAreKnown
  BY DEF ReactorInv, SequenceInv, Answered
<1> QED
  BY <1>1, InvariantHolds, PTL

\* No wake-up is lost: a process that sleeps in events.changed without an unseen
\* notification waits for something that has not happened.
THEOREM WakeupsAreNotLost == Spec => []NoLostWakeup
<1>1. ReactorInv => NoLostWakeup
  BY WokenInTime DEF ReactorInv
<1> QED
  BY <1>1, InvariantHolds, PTL

\* When a closing reactor_loop ends, every admitted command was answered, and no caller holds
\* a permit with which it could still send one.
THEOREM ShutdownIsDrained == Spec => []ShutdownDrains
<1>1. ReactorInv => ShutdownDrains
  BY DrainsAtTheEnd DEF ReactorInv
<1> QED
  BY <1>1, InvariantHolds, PTL

\* When Log::shutdown returns, nobody owns Storage: neither the reactor nor a blocking
\* job that outlived it, whatever jobs failed, were lost or ran on after the runtime had
\* dropped the reactor task.  So the root lock is free.
THEOREM ShutdownFrees == Spec => []ShutdownFreesTheRoot
<1>1. ReactorInv => ShutdownFreesTheRoot
  BY DEF ReactorInv, ControlInv, Ownership, ShutdownFreesTheRoot
<1> QED
  BY <1>1, InvariantHolds, PTL

\* A caller gets the runtime error of channel_error only if the reactor task was dropped;
\* a channel closed by shutdown is never mistaken for it.
THEOREM ErrorsAreHonest == Spec => []HonestErrors
<1>1. ReactorInv => HonestErrors
  BY DEF ReactorInv, ControlInv
<1> QED
  BY <1>1, InvariantHolds, PTL

\* A poisoned root whose shutdown has not begun starts no job.
LEMMA JobsStartUnpoisoned ==
    ASSUME ControlInv, [Next]_vars, failed, ~shutdownStarted, holder = "reactor"
    PROVE  holder' # "job"
<1>1. lifecycle = "poisoned"
  BY DEF ControlInv, Lifecycle, Ownership
<1>2. holder # "job"
  OBVIOUS
<1>3. CASE UNCHANGED vars
  BY <1>3 DEF vars, loopVars
<1>4. ASSUME NEW c \in Callers, Client(c) \/ Start(c) \/ Cancel(c)
      PROVE  holder' = holder
  BY <1>4 DEF Client, Start, Cancel, GetPermit, Send, Receive, Wake, KeepRoot, loopVars
<1>5. ASSUME NEW p \in Stoppers, Stopper(p) \/ StopBegin(p) \/ StopCancel(p)
      PROVE  holder' = holder
  BY <1>5 DEF Stopper, StopBegin, StopCancel, StopStore, StopAnnounce, StopLoop, KeepRest,
              loopVars
<1>6. CASE Loop \/ AgeTimer \/ DropReactor
  BY <1>6, <1>1 DEF Loop, AgeTimer, DropReactor, AutomaticReclaim, Automatic, Dispatch,
                    CloseReceiver, EndLoop, FinishReactor, RejectPoisoned, Publish, Reply,
                    FinishDropped
<1>7. CASE Job \/ GuardDrop
  BY <1>7, <1>2 DEF Job, GuardDrop, loopVars
<1> QED
  BY <1>3, <1>4, <1>5, <1>6, <1>7 DEF Next, Step

\* Once an error has poisoned the root, and as long as shutdown has not begun, no storage
\* job starts: not for queued or deferred commands, automatic reclamation or the timer.
THEOREM PoisonStops == Spec => PoisonStopsWork
<1>1. ReactorInv /\ [Next]_vars =>
        [failed /\ ~shutdownStarted => ~(holder = "reactor" /\ holder' = "job")]_vars
  BY JobsStartUnpoisoned DEF ReactorInv
<1> QED
  BY <1>1, InvariantHolds, PTL DEF Spec, PoisonStopsWork

=============================================================================
