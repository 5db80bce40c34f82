------------------------ MODULE InPlaceFilterProofs ------------------------
(***************************************************************************)
(* What the in-place filter of a slice yields: Nth really enumerates the   *)
(* kept indices, so both the filtered slice and the array left behind hold *)
(* nothing but elements of the slice, in its order.  The modules that      *)
(* filter and add up such lists rest on the second half: induction over    *)
(* finite sets, sums over them, and slices that cover a history.           *)
(***************************************************************************)
EXTENDS InPlaceFilter, Integers, Sequences, FiniteSets, SequencesExt, FiniteSetTheorems, FunctionTheorems, SequenceTheorems, WellFoundedInduction, TLAPS

\* The rank of a kept index lies between 1 and the number of kept indices,
\* and two kept indices have different ranks.
LEMMA RankInjective ==
  ASSUME NEW keep \in SUBSET Nat, IsFiniteSet(keep)
  PROVE  [j \in keep |-> Rank(keep, j)] \in Injection(keep, 1..Cardinality(keep))
<1> DEFINE below(j) == {m \in keep : m <= j}
<1>1. \A j \in keep : IsFiniteSet(below(j)) /\ Cardinality(below(j)) \in Nat
  <2> TAKE j \in keep
  <2>1. below(j) \in SUBSET keep
    OBVIOUS
  <2>2. IsFiniteSet(below(j))
    BY <2>1, FS_Subset
  <2> QED
    BY <2>2, FS_CardinalityType
<1>2. \A j \in keep : Cardinality(below(j)) \in 1..Cardinality(keep)
  <2> TAKE j \in keep
  <2>1. below(j) \in SUBSET keep /\ j \in below(j)
    OBVIOUS
  <2>2. Cardinality(below(j)) <= Cardinality(keep)
    BY <2>1, FS_Subset
  <2>3. Cardinality(below(j)) # 0
    BY <1>1, <2>1, FS_EmptySet
  <2>4. Cardinality(keep) \in Nat
    BY FS_CardinalityType
  <2> QED
    BY <1>1, <2>2, <2>3, <2>4
<1>3. \A j, l \in keep : j < l => Cardinality(below(j)) < Cardinality(below(l))
  <2> SUFFICES ASSUME NEW j \in keep, NEW l \in keep, j < l
               PROVE  Cardinality(below(j)) < Cardinality(below(l))
    OBVIOUS
  <2>a. \A m \in keep : m <= j => m <= l
    OBVIOUS
  <2>b. l <= l /\ ~(l <= j)
    OBVIOUS
  <2>1. below(j) \in SUBSET below(l) /\ l \in below(l) /\ l \notin below(j)
    BY <2>a, <2>b, Zenon
  <2>2. IsFiniteSet(below(l))
    BY <1>1
  <2>3. /\ Cardinality(below(j)) <= Cardinality(below(l))
        /\ Cardinality(below(l)) = Cardinality(below(j)) => below(l) = below(j)
    BY <2>1, <2>2, FS_Subset
  <2>4. Cardinality(below(l)) # Cardinality(below(j))
    BY <2>1, <2>3
  <2>5. Cardinality(below(j)) \in Nat /\ Cardinality(below(l)) \in Nat
    BY <1>1
  <2> HIDE DEF below
  <2> QED
    BY <2>3, <2>4, <2>5
<1>4. \A j \in keep : Rank(keep, j) = Cardinality(below(j))
  BY DEF Rank
<1> DEFINE rank == [j \in keep |-> Rank(keep, j)]
<1>5. rank \in [keep -> 1..Cardinality(keep)]
  BY <1>2, <1>4
<1>6. \A a, b \in keep : rank[a] = rank[b] => a = b
  <2> SUFFICES ASSUME NEW a \in keep, NEW b \in keep, a # b
               PROVE  rank[a] # rank[b]
    OBVIOUS
  <2>1. a < b \/ b < a
    OBVIOUS
  <2>2. rank[a] = Cardinality(below(a)) /\ rank[b] = Cardinality(below(b))
    BY <1>4
  <2>3. Cardinality(below(a)) \in Nat /\ Cardinality(below(b)) \in Nat
    BY <1>1
  <2> HIDE DEF below, rank
  <2> QED
    BY <1>3, <2>1, <2>2, <2>3
<1> QED
  BY <1>5, <1>6, Fun_IsInj

\* For every number up to the number of kept indices there is a kept index of
\* that rank, so the CHOOSE in Nth picks one.
LEMMA NthInKeep ==
  ASSUME NEW keep \in SUBSET Nat, IsFiniteSet(keep),
         NEW i \in 1..Cardinality(keep)
  PROVE  Nth(keep, i) \in keep /\ Rank(keep, Nth(keep, i)) = i
<1> DEFINE n == Cardinality(keep)
           rank == [j \in keep |-> Rank(keep, j)]
<1>1. n \in Nat
  BY FS_CardinalityType
<1>2. IsFiniteSet(1..n) /\ Cardinality(1..n) = n
  BY <1>1, FS_Interval
<1>3. rank \in Injection(keep, 1..n)
  BY RankInjective
<1>4. rank \in Surjection(keep, 1..n)
  <2> HIDE DEF rank
  <2> QED
    BY <1>2, <1>3, FS_Injection
<1>5. \E j \in keep : Rank(keep, j) = i
  BY <1>4 DEF Surjection
<1> QED
  BY <1>5 DEF Nth

\* Filtering a slice in place gives a sequence over the same elements, and so
\* does the old header over the compacted array.
THEOREM FilterType ==
  ASSUME NEW S, NEW q \in Seq(S), NEW keep \in SUBSET DOMAIN q
  PROVE  /\ IsFiniteSet(keep) /\ Cardinality(keep) \in 0..Len(q)
         /\ Filtered(q, keep) \in Seq(S) /\ Len(Filtered(q, keep)) = Cardinality(keep)
         /\ Compact(q, keep) \in Seq(S) /\ Len(Compact(q, keep)) = Len(q)
<1>1. DOMAIN q = 1..Len(q) /\ Len(q) \in Nat
  OBVIOUS
<1>2. IsFiniteSet(1..Len(q)) /\ Cardinality(1..Len(q)) = Len(q)
  <2>1. \A n \in Nat : IsFiniteSet(1..n) /\ Cardinality(1..n) = n
    BY FS_Interval
  <2> QED
    BY <1>1, <2>1
<1>3. IsFiniteSet(keep) /\ Cardinality(keep) <= Len(q)
  BY <1>1, <1>2, FS_Subset
<1>4. Cardinality(keep) \in Nat
  BY <1>3, FS_CardinalityType
<1>5. \A i \in 1..Cardinality(keep) : Nth(keep, i) \in 1..Len(q)
  BY <1>1, <1>3, NthInKeep
<1>6. \A i \in 1..Len(q) : q[i] \in S
  BY <1>1
<1>7. Filtered(q, keep) \in [1..Cardinality(keep) -> S]
  BY <1>5, <1>6 DEF Filtered
<1>8. Compact(q, keep) \in [1..Len(q) -> S]
  BY <1>1, <1>5, <1>6 DEF Compact
<1> QED
  BY <1>1, <1>3, <1>4, <1>7, <1>8

\* Filtering keeps the order of the slice and loses no kept element: the
\* places of the kept elements are taken over from first to last.
THEOREM FilterOrder ==
  ASSUME NEW S, NEW q \in Seq(S), NEW keep \in SUBSET DOMAIN q
  PROVE  /\ \A i \in 1..Cardinality(keep) :
              Nth(keep, i) \in keep /\ Filtered(q, keep)[i] = q[Nth(keep, i)]
         /\ \A i, j \in 1..Cardinality(keep) : i < j => Nth(keep, i) < Nth(keep, j)
         /\ \A m \in keep : \E i \in 1..Cardinality(keep) : Nth(keep, i) = m
<1>1. keep \in SUBSET Nat /\ IsFiniteSet(keep) /\ Cardinality(keep) \in Nat
  BY FilterType
<1>2. \A i \in 1..Cardinality(keep) : Nth(keep, i) \in keep /\ Rank(keep, Nth(keep, i)) = i
  BY <1>1, NthInKeep
<1>3. \A i \in 1..Cardinality(keep) : Filtered(q, keep)[i] = q[Nth(keep, i)]
  BY DEF Filtered
<1>4. [j \in keep |-> Rank(keep, j)] \in Injection(keep, 1..Cardinality(keep))
  BY <1>1, RankInjective
<1>5. \A a, b \in keep : Rank(keep, a) = Rank(keep, b) => a = b
  BY <1>4, Fun_IsInj DEF Injection, IsInjective
<1>6. \A a \in keep : Rank(keep, a) \in 1..Cardinality(keep)
  BY <1>4 DEF Injection
<1>7. \A a, b \in keep : a <= b => Rank(keep, a) <= Rank(keep, b)
  <2> SUFFICES ASSUME NEW a \in keep, NEW b \in keep, a <= b
               PROVE  Rank(keep, a) <= Rank(keep, b)
    OBVIOUS
  <2>1. {m \in keep : m <= a} \in SUBSET {m \in keep : m <= b}
    BY <1>1
  <2>2. IsFiniteSet({m \in keep : m <= b})
    BY <1>1, FS_Subset
  <2> QED
    BY <2>1, <2>2, FS_Subset DEF Rank
<1>8. \A i, j \in 1..Cardinality(keep) : i < j => Nth(keep, i) < Nth(keep, j)
  <2> SUFFICES ASSUME NEW i \in 1..Cardinality(keep), NEW j \in 1..Cardinality(keep),
                      i < j, ~(Nth(keep, i) < Nth(keep, j))
               PROVE  FALSE
    OBVIOUS
  <2>1. Nth(keep, j) <= Nth(keep, i)
    BY <1>1, <1>2
  <2>2. j <= i
    BY <1>2, <1>7, <2>1
  <2> QED
    BY <1>1, <2>2
<1>9. \A m \in keep : \E i \in 1..Cardinality(keep) : Nth(keep, i) = m
  BY <1>2, <1>5, <1>6
<1> QED
  BY <1>2, <1>3, <1>8, <1>9

\* The first kept index is the least one.
LEMMA NthLeast ==
  ASSUME NEW keep \in SUBSET Nat, IsFiniteSet(keep), keep # {}
  PROVE  Nth(keep, 1) \in keep /\ \A m \in keep : Nth(keep, 1) <= m
<1>1. Cardinality(keep) \in Nat /\ Cardinality(keep) # 0
  BY FS_CardinalityType, FS_EmptySet
<1>2. Nth(keep, 1) \in keep /\ Rank(keep, Nth(keep, 1)) = 1
  BY <1>1, NthInKeep
<1>3. ASSUME NEW m \in keep, ~(Nth(keep, 1) <= m)
      PROVE  FALSE
  <2> DEFINE n == Nth(keep, 1)
             below == {l \in keep : l <= n}
  <2>a. n \in Nat /\ m \in Nat /\ n \in keep /\ ~(n <= m)
    BY <1>2, <1>3
  <2>b. m <= n /\ n <= n /\ m # n
    BY <2>a
  <2>1. m \in below /\ n \in below /\ m # n
    BY <2>a, <2>b, Zenon
  <2>2. IsFiniteSet(below) /\ Cardinality(below) = 1
    BY <1>2, FS_Subset DEF Rank
  <2> HIDE DEF below
  <2>3. \E x : below = {x}
    BY <2>2, FS_Singleton
  <2> QED
    BY <2>1, <2>3
<1> QED
  BY <1>2, <1>3

\* A loop that keeps the elements of a set returns these and no other ones, in
\* the order of the slice.
LEMMA OnlyShape ==
  ASSUME NEW S, NEW q \in Seq(S), NEW T
  PROVE  /\ Only(q, T) \in Seq(S) /\ ToSet(Only(q, T)) = ToSet(q) \cap T
         /\ IsInjective(q) => IsInjective(Only(q, T))
         /\ \A a, b \in DOMAIN Only(q, T) : a < b =>
              \E i, j \in DOMAIN q : i < j /\ Only(q, T)[a] = q[i] /\ Only(q, T)[b] = q[j]
<1> DEFINE keep == {i \in DOMAIN q : q[i] \in T}
           n == Cardinality(keep)
<1>1. keep \in SUBSET DOMAIN q /\ Only(q, T) = Filtered(q, keep)
  BY DEF Only
<1>2. n \in Nat /\ Only(q, T) \in Seq(S) /\ DOMAIN Only(q, T) = 1..n
  <2> HIDE DEF keep
  <2>1. Only(q, T) \in Seq(S) /\ Len(Only(q, T)) = n /\ n \in 0..Len(q)
    BY <1>1, FilterType
  <2> QED
    BY <2>1
<1>3. /\ \A i \in 1..n : Nth(keep, i) \in keep /\ Only(q, T)[i] = q[Nth(keep, i)]
      /\ \A i, j \in 1..n : i < j => Nth(keep, i) < Nth(keep, j)
      /\ \A m \in keep : \E i \in 1..n : Nth(keep, i) = m
  <2> HIDE DEF keep
  <2> QED
    BY <1>1, FilterOrder
<1>4. ToSet(Only(q, T)) = ToSet(q) \cap T
  <2>1. \A m \in DOMAIN q : m \in keep <=> q[m] \in T
    OBVIOUS
  <2>2. \A i \in 1..n : Nth(keep, i) \in DOMAIN q /\ q[Nth(keep, i)] \in T
    BY <1>3
  <2> HIDE DEF keep, n
  <2>3. ASSUME NEW x \in ToSet(Only(q, T))
        PROVE  x \in ToSet(q) \cap T
    <3>1. PICK i \in 1..n : x = Only(q, T)[i]
      BY <1>2 DEF ToSet
    <3> QED
      BY <1>3, <2>2, <3>1 DEF ToSet
  <2>4. ASSUME NEW x \in ToSet(q) \cap T
        PROVE  x \in ToSet(Only(q, T))
    <3>1. PICK m \in DOMAIN q : x = q[m]
      BY DEF ToSet
    <3>2. PICK i \in 1..n : Nth(keep, i) = m
      BY <1>3, <2>1, <3>1
    <3> QED
      BY <1>2, <1>3, <3>1, <3>2 DEF ToSet
  <2> QED
    BY <2>3, <2>4
<1>5. IsInjective(q) => IsInjective(Only(q, T))
  <2> SUFFICES ASSUME IsInjective(q), NEW i \in 1..n, NEW j \in 1..n,
                      Only(q, T)[i] = Only(q, T)[j]
               PROVE  i = j
    BY <1>2 DEF IsInjective
  <2>1. Nth(keep, i) = Nth(keep, j)
    BY <1>3 DEF IsInjective
  <2>2. Nth(keep, i) \in Int
    BY <1>3
  <2> HIDE DEF keep
  <2> QED
    BY <1>2, <1>3, <2>1, <2>2
<1>6. \A a, b \in 1..n : a < b =>
        \E i, j \in DOMAIN q : i < j /\ Only(q, T)[a] = q[i] /\ Only(q, T)[b] = q[j]
  BY <1>3
<1> QED
  BY <1>2, <1>4, <1>5, <1>6

\* The place of an element is the first of those at which it stands.
LEMMA PlaceShape ==
  ASSUME NEW S, NEW q \in Seq(S), NEW x, Contains(q, x)
  PROVE  /\ Place(q, x) \in 1..Len(q) /\ q[Place(q, x)] = x
         /\ \A j \in 1..Len(q) : q[j] = x => Place(q, x) <= j
<1> DEFINE at == {i \in DOMAIN q : q[i] = x}
<1>1. at # {} /\ at \in SUBSET DOMAIN q /\ DOMAIN q = 1..Len(q)
  BY DEF Contains
<1>2. at \in SUBSET Nat /\ IsFiniteSet(at)
  <2> HIDE DEF at
  <2> QED
    BY <1>1, FilterType
<1>3. Nth(at, 1) \in at /\ \A m \in at : Nth(at, 1) <= m
  <2> HIDE DEF at
  <2> QED
    BY <1>1, <1>2, NthLeast
<1> QED
  BY <1>1, <1>3 DEF Place

\* An element that is appended joins those that were there.
LEMMA AppendShape ==
  ASSUME NEW S, NEW q \in Seq(S), NEW x \in S
  PROVE  /\ Append(q, x) \in Seq(S) /\ Len(Append(q, x)) = Len(q) + 1 /\ Len(q) \in Nat
         /\ Append(q, x)[Len(q) + 1] = x
         /\ \A i \in 1..Len(q) : Append(q, x)[i] = q[i]
         /\ ToSet(Append(q, x)) = ToSet(q) \cup {x}
<1>1. /\ Append(q, x) \in Seq(S) /\ Len(Append(q, x)) = Len(q) + 1 /\ Len(q) \in Nat
      /\ Append(q, x)[Len(q) + 1] = x
      /\ \A i \in 1..Len(q) : Append(q, x)[i] = q[i]
  OBVIOUS
<1> DEFINE p == Append(q, x)
<1>2. DOMAIN p = 1..(Len(q) + 1) /\ DOMAIN q = 1..Len(q)
  BY <1>1
<1>3. 1..(Len(q) + 1) = 1..Len(q) \cup {Len(q) + 1}
  BY <1>1
<1> HIDE DEF p
<1>4. /\ p[Len(q) + 1] = x /\ \A i \in 1..Len(q) : p[i] = q[i]
  BY <1>1 DEF p
<1>5. ToSet(p) = {p[i] : i \in 1..Len(q)} \cup {x}
  BY <1>2, <1>3, <1>4, Zenon DEF ToSet
<1>6. {p[i] : i \in 1..Len(q)} = ToSet(q)
  BY <1>2, <1>4, Zenon DEF ToSet
<1> QED
  BY <1>1, <1>5, <1>6 DEF p

-----------------------------------------------------------------------------
(* Induction over numbers and finite sets, and sums *)

\* Among sets of natural numbers there is a least element.
LEMMA LeastNumber ==
  ASSUME NEW T \in SUBSET Nat, T # {}
  PROVE  \E n \in T : \A m \in T : n <= m
<1> DEFINE R == OpToRel(<, Nat)
<1>1. IsWellFoundedOn(R, Nat)
  BY NatLessThanWellFounded
<1>2. \A x, y \in Nat : x < y => <<x, y>> \in R
  BY DEF OpToRel
<1> HIDE DEF R
<1>3. \E x \in T : \A y \in T : ~(<<y, x>> \in R)
  BY <1>1, WFMin
<1>4. PICK x \in T : \A y \in T : ~(<<y, x>> \in R)
  BY <1>3
<1>5. \A y \in T : x <= y
  <2> TAKE y \in T
  <2>1. x \in Nat /\ y \in Nat /\ ~(y < x)
    BY <1>2, <1>4
  <2> QED
    BY <2>1
<1> QED
  BY <1>5

\* Induction over finite sets: what holds of a finite set when it holds of all
\* its proper subsets has no counterexample, because one of the fewest elements
\* has none below it.
LEMMA SmallestSet ==
  ASSUME NEW S, IsFiniteSet(S), NEW B \in SUBSET (SUBSET S), B # {}
  PROVE  \E s \in B : \A t \in SUBSET s : t \in B => t = s
<1> DEFINE T == {Cardinality(s) : s \in B}
<1>1. \A s \in B : IsFiniteSet(s) /\ Cardinality(s) \in Nat
  BY FS_Subset, FS_CardinalityType
<1>2. T \in SUBSET Nat /\ T # {}
  BY <1>1
<1>3. PICK n \in T : \A m \in T : n <= m
  BY <1>2, LeastNumber
<1>4. PICK s \in B : Cardinality(s) = n
  OBVIOUS
<1>5. ASSUME NEW t \in SUBSET s, t \in B
      PROVE  t = s
  <2>1. Cardinality(s) <= Cardinality(t)
    BY <1>3, <1>4, <1>5
  <2>2. /\ Cardinality(t) <= Cardinality(s)
        /\ Cardinality(t) = Cardinality(s) => t = s
    BY <1>1, FS_Subset
  <2>3. Cardinality(s) \in Nat /\ Cardinality(t) \in Nat
    BY <1>1, <1>5
  <2> QED
    BY <2>1, <2>2, <2>3
<1> QED
  BY <1>5

\* A finite set of natural numbers has a greatest element.
LEMMA GreatestNumber ==
  ASSUME NEW T, IsFiniteSet(T), T # {}, \A n \in T : n \in Nat
  PROVE  \E n \in T : \A m \in T : m <= n
<1> DEFINE Topped(s) == \E n \in s : \A m \in s : m <= n
           B == {s \in SUBSET T : s # {} /\ ~Topped(s)}
<1> SUFFICES ASSUME ~Topped(T)
             PROVE  FALSE
  OBVIOUS
<1>1. PICK U \in B : \A t \in SUBSET U : t \in B => t = U
  <2>1. B \in SUBSET (SUBSET T) /\ B # {}
    <3>1. T \in B
      OBVIOUS
    <3> QED
      BY <3>1
  <2> HIDE DEF B
  <2> QED
    BY <2>1, SmallestSet
<1>2. U \in SUBSET Nat /\ ~Topped(U)
  BY DEF Topped
<1>3. PICK x \in U : TRUE
  OBVIOUS
<1>4. CASE U \ {x} = {}
  BY <1>2, <1>3, <1>4
<1>5. CASE U \ {x} # {}
  <2>1. Topped(U \ {x})
    <3>1. U \ {x} \in SUBSET U /\ U \ {x} # U /\ U \ {x} \in SUBSET T
      BY <1>3
    <3> HIDE DEF Topped
    <3> QED
      BY <1>1, <1>5, <3>1
  <2>2. PICK y \in U \ {x} : \A m \in U \ {x} : m <= y
    BY <2>1
  <2>3. CASE x <= y
    BY <1>2, <2>2, <2>3
  <2>4. CASE ~(x <= y)
    <3>1. \A m \in U : m <= x
      BY <1>2, <1>3, <2>2, <2>4
    <3> QED
      BY <1>2, <1>3, <3>1
  <2> QED
    BY <2>3, <2>4
<1> QED
  BY <1>4, <1>5

-----------------------------------------------------------------------------
(* Sums *)

Some(s) == CHOOSE x \in s : TRUE

\* One turn of the sum, with the result for smaller sets in f.
SumStep(w, f, s) == IF s = {} THEN 0 ELSE w[Some(s)] + f[s \ {Some(s)}]
IsSum(w, S, f) == f = [s \in SUBSET S |-> SumStep(w, f, s)]

LEMMA SumUnfolds ==
  ASSUME NEW w, NEW S
  PROVE  SumFunctionOnSet(w, S) = (CHOOSE f : IsSum(w, S, f))[S]
BY DEF SumFunctionOnSet, FoldFunctionOnSet, MapThenFoldSet, IsSum, SumStep, Some

LEMMA SumTurn ==
  ASSUME NEW S, IsFiniteSet(S), NEW w
  PROVE  SumFunctionOnSet(w, S) =
           IF S = {} THEN 0 ELSE w[Some(S)] + SumFunctionOnSet(w, S \ {Some(S)})
<1> DEFINE Sum(s) == SumFunctionOnSet(w, s)
           Turn(s) == IF s = {} THEN 0 ELSE w[Some(s)] + Sum(s \ {Some(s)})
           B == {s \in SUBSET S : Sum(s) # Turn(s)}
<1> SUFFICES ASSUME B # {}
             PROVE  FALSE
  OBVIOUS
<1>1. PICK U \in B : \A t \in SUBSET U : t \in B => t = U
  <2>1. B \in SUBSET (SUBSET S)
    OBVIOUS
  <2> HIDE DEF B
  <2> QED
    BY <2>1, SmallestSet
<1>2. U \in SUBSET S /\ IsFiniteSet(U) /\ \A s \in SUBSET U : s # U => Sum(s) = Turn(s)
  BY <1>1, FS_Subset
<1>3. \A s : s # {} => Some(s) \in s
  BY DEF Some
<1> HIDE DEF Sum, B
<1> DEFINE f == [s \in SUBSET U |-> IF s = U THEN Turn(U) ELSE Sum(s)]
<1>4. IsSum(w, U, f)
  <2>1. ASSUME NEW s \in SUBSET U
        PROVE  f[s] = SumStep(w, f, s)
    <3>1. CASE s = {}
      BY <1>2, <3>1 DEF SumStep
    <3>2. CASE s # {}
      <4>1. Some(s) \in s /\ s \ {Some(s)} \in SUBSET U /\ s \ {Some(s)} # U
        BY <1>3, <3>2
      <4>2. f[s \ {Some(s)}] = Sum(s \ {Some(s)})
        BY <4>1
      <4>3. f[s] = Turn(s)
        BY <1>2
      <4> QED
        BY <3>2, <4>2, <4>3 DEF SumStep
    <3> QED
      BY <3>1, <3>2
  <2> HIDE DEF Turn
  <2> QED
    BY <2>1 DEF IsSum
<1> HIDE DEF f
<1> DEFINE g == CHOOSE f1 : IsSum(w, U, f1)
<1>5. IsSum(w, U, g)
  BY <1>4
<1>6. Sum(U) = g[U]
  BY SumUnfolds DEF Sum
<1> HIDE DEF g
<1>7. \A s \in SUBSET U : g[s] = SumStep(w, g, s)
  BY <1>5 DEF IsSum
<1>8. \A s \in SUBSET U : s # U => g[s] = Sum(s)
  <2> DEFINE C == {s \in SUBSET U : s # U /\ g[s] # Sum(s)}
  <2> SUFFICES ASSUME C # {}
               PROVE  FALSE
    OBVIOUS
  <2>1. PICK V \in C : \A t \in SUBSET V : t \in C => t = V
    <3>1. C \in SUBSET (SUBSET U)
      OBVIOUS
    <3> HIDE DEF C
    <3> QED
      BY <1>2, <3>1, SmallestSet
  <2>2. V \in SUBSET U /\ V # U /\ g[V] # Sum(V)
    OBVIOUS
  <2>3. Sum(V) = Turn(V)
    BY <1>2, <2>2
  <2>4. CASE V = {}
    BY <1>7, <2>2, <2>3, <2>4 DEF SumStep
  <2>5. CASE V # {}
    <3>1. Some(V) \in V
      BY <1>3, <2>5
    <3>2. V \ {Some(V)} \in SUBSET V /\ V \ {Some(V)} # V /\ V \ {Some(V)} # U
      BY <2>2, <3>1
    <3>3. g[V \ {Some(V)}] = Sum(V \ {Some(V)})
      BY <2>1, <2>2, <3>2
    <3>4. g[V] = w[Some(V)] + g[V \ {Some(V)}]
      BY <1>7, <2>2, <2>5 DEF SumStep
    <3> QED
      BY <2>2, <2>3, <2>5, <3>3, <3>4
  <2> QED
    BY <2>4, <2>5
<1>9. Sum(U) = Turn(U)
  <2>1. CASE U = {}
    BY <1>6, <1>7, <2>1 DEF SumStep
  <2>2. CASE U # {}
    <3>1. Some(U) \in U
      BY <1>3, <2>2
    <3>2. g[U \ {Some(U)}] = Sum(U \ {Some(U)})
      BY <1>8, <3>1
    <3>3. g[U] = w[Some(U)] + g[U \ {Some(U)}]
      BY <1>7, <2>2 DEF SumStep
    <3> QED
      BY <1>6, <2>2, <3>2, <3>3
  <2> QED
    BY <2>1, <2>2
<1> QED
  BY <1>1, <1>9 DEF B

LEMMA SumEmpty ==
  ASSUME NEW w
  PROVE  SumFunctionOnSet(w, {}) = 0
  BY SumTurn, FS_EmptySet

LEMMA SumType ==
  ASSUME NEW S, IsFiniteSet(S), NEW w, \A x \in S : w[x] \in Nat
  PROVE  \A s \in SUBSET S : SumFunctionOnSet(w, s) \in Nat
<1> DEFINE Sum(s) == SumFunctionOnSet(w, s)
           B == {s \in SUBSET S : Sum(s) \notin Nat}
<1> SUFFICES ASSUME B # {}
             PROVE  FALSE
  OBVIOUS
<1>1. PICK U \in B : \A t \in SUBSET U : t \in B => t = U
  <2>1. B \in SUBSET (SUBSET S)
    OBVIOUS
  <2> HIDE DEF B
  <2> QED
    BY <2>1, SmallestSet
<1>2. U \in SUBSET S /\ IsFiniteSet(U) /\ Sum(U) \notin Nat
  BY FS_Subset
<1>3. U # {} => Some(U) \in U
  BY DEF Some
<1>4. Sum(U) = IF U = {} THEN 0 ELSE w[Some(U)] + Sum(U \ {Some(U)})
  BY <1>2, SumTurn
<1>5. \A t \in SUBSET U : t # U => Sum(t) \in Nat
  BY <1>1, <1>2
<1> HIDE DEF Sum, B
<1>6. U # {} => Sum(U \ {Some(U)}) \in Nat
  BY <1>3, <1>5
<1> QED
  BY <1>2, <1>3, <1>4, <1>6

\* The sum does not depend on the order in which it is taken: any element may
\* be split off.
LEMMA SumRemove ==
  ASSUME NEW S, IsFiniteSet(S), NEW w, \A x \in S : w[x] \in Nat
  PROVE  \A s \in SUBSET S : \A x \in s :
           SumFunctionOnSet(w, s) = w[x] + SumFunctionOnSet(w, s \ {x})
<1> DEFINE Sum(s) == SumFunctionOnSet(w, s)
           B == {s \in SUBSET S : \E x \in s : Sum(s) # w[x] + Sum(s \ {x})}
<1> SUFFICES ASSUME B # {}
             PROVE  FALSE
  OBVIOUS
<1>1. PICK U \in B : \A t \in SUBSET U : t \in B => t = U
  <2>1. B \in SUBSET (SUBSET S)
    OBVIOUS
  <2> HIDE DEF B
  <2> QED
    BY <2>1, SmallestSet
<1>2. U \in SUBSET S /\ IsFiniteSet(U)
  BY FS_Subset
<1>3. PICK x \in U : Sum(U) # w[x] + Sum(U \ {x})
  OBVIOUS
<1>4. PICK y \in U : Sum(U) = w[y] + Sum(U \ {y})
  <2>1. U # {} /\ Some(U) \in U
    BY <1>3 DEF Some
  <2>2. Sum(U) = w[Some(U)] + Sum(U \ {Some(U)})
    BY <1>2, <2>1, SumTurn
  <2> QED
    BY <2>1, <2>2
<1>5. \A t \in SUBSET U : t # U => \A z \in t : Sum(t) = w[z] + Sum(t \ {z})
  BY <1>1, <1>2
<1>6. \A t \in SUBSET U : Sum(t) \in Nat
  BY <1>2, SumType
<1> HIDE DEF Sum, B
<1>7. x # y
  BY <1>3, <1>4
<1>8. Sum(U \ {y}) = w[x] + Sum(U \ {x, y})
  <2>1. (U \ {y}) \ {x} = U \ {x, y}
    OBVIOUS
  <2> QED
    BY <1>5, <1>7, <2>1
<1>9. Sum(U \ {x}) = w[y] + Sum(U \ {x, y})
  <2>1. (U \ {x}) \ {y} = U \ {x, y}
    OBVIOUS
  <2> QED
    BY <1>5, <1>7, <2>1
<1>10. Sum(U \ {x, y}) \in Nat /\ w[x] \in Nat /\ w[y] \in Nat
  BY <1>2, <1>6
<1>11. Sum(U) # w[x] + (w[y] + Sum(U \ {x, y}))
  BY <1>3, <1>9
<1>12. Sum(U) = w[y] + (w[x] + Sum(U \ {x, y}))
  BY <1>4, <1>8
<1> QED
  BY <1>10, <1>11, <1>12

\* Only the weights of the set's elements matter.
LEMMA SumSame ==
  ASSUME NEW S, IsFiniteSet(S), NEW v, NEW w, \A x \in S : v[x] = w[x]
  PROVE  SumFunctionOnSet(v, S) = SumFunctionOnSet(w, S)
<1> DEFINE B == {s \in SUBSET S : SumFunctionOnSet(v, s) # SumFunctionOnSet(w, s)}
<1> SUFFICES ASSUME B # {}
             PROVE  FALSE
  OBVIOUS
<1>1. PICK U \in B : \A t \in SUBSET U : t \in B => t = U
  <2>1. B \in SUBSET (SUBSET S)
    OBVIOUS
  <2> HIDE DEF B
  <2> QED
    BY <2>1, SmallestSet
<1>2. /\ U \in SUBSET S /\ IsFiniteSet(U)
      /\ SumFunctionOnSet(v, U) # SumFunctionOnSet(w, U)
  BY FS_Subset
<1>3. U # {}
  BY SumEmpty
<1>4. Some(U) \in U
  BY <1>3 DEF Some
<1>5. SumFunctionOnSet(v, U \ {Some(U)}) = SumFunctionOnSet(w, U \ {Some(U)})
  BY <1>1, <1>2, <1>4
<1>6. /\ SumFunctionOnSet(v, U) = v[Some(U)] + SumFunctionOnSet(v, U \ {Some(U)})
      /\ SumFunctionOnSet(w, U) = w[Some(U)] + SumFunctionOnSet(w, U \ {Some(U)})
  BY <1>2, <1>3, SumTurn
<1>7. v[Some(U)] = w[Some(U)]
  BY <1>2, <1>4
<1> QED
  BY <1>2, <1>5, <1>6, <1>7

LEMMA SumMonotone ==
  ASSUME NEW S, IsFiniteSet(S), NEW w, \A x \in S : w[x] \in Nat,
         NEW T \in SUBSET S
  PROVE  SumFunctionOnSet(w, T) <= SumFunctionOnSet(w, S)
<1> DEFINE Sum(s) == SumFunctionOnSet(w, s)
           B == {s \in SUBSET S : T \subseteq s /\ ~(Sum(T) <= Sum(s))}
<1> SUFFICES ASSUME B # {}
             PROVE  FALSE
  OBVIOUS
<1>1. PICK U \in B : \A t \in SUBSET U : t \in B => t = U
  <2>1. B \in SUBSET (SUBSET S)
    OBVIOUS
  <2> HIDE DEF B
  <2> QED
    BY <2>1, SmallestSet
<1>2. U \in SUBSET S /\ IsFiniteSet(U) /\ T \subseteq U /\ ~(Sum(T) <= Sum(U))
  BY FS_Subset
<1>3. \A s \in SUBSET S : Sum(s) \in Nat
  BY SumType
<1>4. PICK x \in U : x \notin T
  BY <1>2, <1>3
<1>5. Sum(U) = w[x] + Sum(U \ {x})
  BY <1>2, SumRemove
<1>6. Sum(T) <= Sum(U \ {x})
  BY <1>1, <1>2, <1>4
<1>7. Sum(T) \in Nat /\ Sum(U \ {x}) \in Nat /\ w[x] \in Nat
  BY <1>2, <1>3
<1> HIDE DEF Sum, B
<1> QED
  BY <1>2, <1>5, <1>6, <1>7

\* Weights that are found again at different places add up to no more there.
LEMMA SumInjected ==
  ASSUME NEW S, IsFiniteSet(S), NEW R, IsFiniteSet(R), NEW v, NEW w,
         \A y \in R : v[y] \in Nat,
         NEW f \in Injection(S, R), \A x \in S : w[x] = v[f[x]]
  PROVE  SumFunctionOnSet(w, S) <= SumFunctionOnSet(v, R)
<1> DEFINE Image(s) == {f[x] : x \in s}
           B == {s \in SUBSET S :
                   SumFunctionOnSet(w, s) # SumFunctionOnSet(v, Image(s))}
<1>1. /\ \A x \in S : f[x] \in R /\ w[x] \in Nat
      /\ \A x, y \in S : f[x] = f[y] => x = y
  BY DEF Injection, IsInjective
<1>2. B = {}
  <2> SUFFICES ASSUME B # {}
               PROVE  FALSE
    OBVIOUS
  <2>1. PICK U \in B : \A t \in SUBSET U : t \in B => t = U
    <3>1. B \in SUBSET (SUBSET S)
      OBVIOUS
    <3> HIDE DEF B
    <3> QED
      BY <3>1, SmallestSet
  <2>2. U \in SUBSET S
    OBVIOUS
  <2>3. U # {}
    <3>1. Image({}) = {}
      OBVIOUS
    <3> QED
      BY <3>1, SumEmpty
  <2>4. PICK x \in U : TRUE
    BY <2>3
  <2>5. SumFunctionOnSet(w, U \ {x}) = SumFunctionOnSet(v, Image(U \ {x}))
    BY <2>1, <2>2, <2>4
  <2>6. Image(U \ {x}) = Image(U) \ {f[x]}
    BY <1>1, <2>2, <2>4
  <2>7. SumFunctionOnSet(w, U) = w[x] + SumFunctionOnSet(w, U \ {x})
    BY <1>1, <2>2, <2>4, SumRemove
  <2>8. Image(U) \in SUBSET R /\ f[x] \in Image(U)
    BY <1>1, <2>2, <2>4
  <2>9. SumFunctionOnSet(v, Image(U)) = v[f[x]] + SumFunctionOnSet(v, Image(U) \ {f[x]})
    <3> HIDE DEF Image
    <3> QED
      BY <2>8, SumRemove
  <2> QED
    BY <2>2, <2>4, <2>5, <2>6, <2>7, <2>9
<1>3. SumFunctionOnSet(w, S) = SumFunctionOnSet(v, Image(S))
  BY <1>2
<1>4. Image(S) \in SUBSET R
  BY <1>1
<1>5. SumFunctionOnSet(v, Image(S)) <= SumFunctionOnSet(v, R)
  <2> HIDE DEF Image
  <2> QED
    BY <1>4, SumMonotone
<1> QED
  BY <1>3, <1>5

-----------------------------------------------------------------------------
(* What is left of the elements of one slice in another *)

\* The elements of h at the places S are in q, each at a place of its own.
Covered(h, S, q) ==
  \E f \in [S -> DOMAIN q] :
    /\ \A i, j \in S : f[i] = f[j] => i = j
    /\ \A i \in S : q[f[i]] = h[i]

LEMMA CoveredPart ==
  ASSUME NEW h, NEW S, NEW q, Covered(h, S, q), NEW T \in SUBSET S
  PROVE  Covered(h, T, q)
<1>1. PICK f \in [S -> DOMAIN q] :
        /\ \A i, j \in S : f[i] = f[j] => i = j
        /\ \A i \in S : q[f[i]] = h[i]
  BY DEF Covered
<1> DEFINE g == [i \in T |-> f[i]]
<1>2. g \in [T -> DOMAIN q]
  OBVIOUS
<1>3. /\ \A i, j \in T : g[i] = g[j] => i = j
      /\ \A i \in T : q[g[i]] = h[i]
  BY <1>1
<1> HIDE DEF g
<1> QED
  BY <1>2, <1>3 DEF Covered

\* A filter that keeps those elements leaves them in the slice it returns and
\* in the array it works on.
LEMMA CoveredFilter ==
  ASSUME NEW E, NEW q \in Seq(E), NEW keep \in SUBSET DOMAIN q,
         NEW h, NEW S, Covered(h, S, q),
         \A m \in DOMAIN q : (\E i \in S : q[m] = h[i]) => m \in keep
  PROVE  Covered(h, S, Filtered(q, keep)) /\ Covered(h, S, Compact(q, keep))
<1>1. PICK f \in [S -> DOMAIN q] :
        /\ \A i, j \in S : f[i] = f[j] => i = j
        /\ \A i \in S : q[f[i]] = h[i]
  BY DEF Covered
<1>2. \A i \in S : f[i] \in keep
  BY <1>1
<1> DEFINE n == Cardinality(keep)
           g == [i \in S |-> CHOOSE m \in 1..n : Nth(keep, m) = f[i]]
<1>3. \A m \in keep : \E i \in 1..n : Nth(keep, i) = m
  BY FilterOrder
<1>4. \A i \in S : g[i] \in 1..n /\ Nth(keep, g[i]) = f[i]
  BY <1>2, <1>3
<1> HIDE DEF g
<1>5. g \in [S -> 1..n]
  BY <1>4 DEF g
<1>6. \A i, j \in S : g[i] = g[j] => i = j
  BY <1>1, <1>4
<1>7. DOMAIN Filtered(q, keep) = 1..n /\ 1..n \subseteq DOMAIN Compact(q, keep)
  <2>1. n \in 0..Len(q)
    BY FilterType
  <2> QED
    BY <2>1 DEF Filtered, Compact
<1>8. \A i \in S : Filtered(q, keep)[g[i]] = h[i] /\ Compact(q, keep)[g[i]] = h[i]
  <2>1. \A m \in 1..n : /\ Filtered(q, keep)[m] = q[Nth(keep, m)]
                        /\ Compact(q, keep)[m] = q[Nth(keep, m)]
    BY <1>7 DEF Filtered, Compact
  <2> QED
    BY <1>1, <1>4, <2>1
<1> HIDE DEF n
<1> QED
  BY <1>5, <1>6, <1>7, <1>8 DEF Covered

\* What a filter returns is covered by what covered the slice.
LEMMA FilterCovered ==
  ASSUME NEW E, NEW q \in Seq(E), NEW keep \in SUBSET DOMAIN q,
         NEW h, Covered(q, DOMAIN q, h)
  PROVE  Covered(Filtered(q, keep), DOMAIN Filtered(q, keep), h)
<1>1. PICK f \in [DOMAIN q -> DOMAIN h] :
        /\ \A i, j \in DOMAIN q : f[i] = f[j] => i = j
        /\ \A i \in DOMAIN q : h[f[i]] = q[i]
  BY DEF Covered
<1> DEFINE n == Cardinality(keep)
           g == [i \in 1..n |-> f[Nth(keep, i)]]
<1>2. /\ \A i \in 1..n : Nth(keep, i) \in keep /\ Filtered(q, keep)[i] = q[Nth(keep, i)]
      /\ \A i, j \in 1..n : i < j => Nth(keep, i) < Nth(keep, j)
  BY FilterOrder
<1>3. n \in Nat
  BY FilterType
<1>4. DOMAIN Filtered(q, keep) = 1..n
  BY DEF Filtered
<1>5. g \in [1..n -> DOMAIN h]
  BY <1>2
<1>6. \A i, j \in 1..n : Nth(keep, i) = Nth(keep, j) => i = j
  <2> SUFFICES ASSUME NEW i \in 1..n, NEW j \in 1..n, i # j
               PROVE  Nth(keep, i) # Nth(keep, j)
    OBVIOUS
  <2>1. i < j \/ j < i
    BY <1>3
  <2>2. Nth(keep, i) \in Nat /\ Nth(keep, j) \in Nat
    BY <1>2
  <2> QED
    BY <1>2, <2>1, <2>2
<1>7. /\ \A i, j \in 1..n : g[i] = g[j] => i = j
      /\ \A i \in 1..n : h[g[i]] = Filtered(q, keep)[i]
  BY <1>1, <1>2, <1>6
<1> DEFINE o == Filtered(q, keep)
<1> HIDE DEF g, n, o
<1>8. Covered(o, 1..n, h)
  BY <1>5, <1>7, Zenon DEF Covered, o
<1> QED
  BY <1>4, <1>8 DEF o

\* An element appended to both slices is covered as well.
LEMMA CoveredAppend ==
  ASSUME NEW E, NEW q \in Seq(E), NEW h \in Seq(E), NEW x \in E,
         NEW S \in SUBSET DOMAIN h, Covered(h, S, q)
  PROVE  Covered(Append(h, x), S \cup {Len(h) + 1}, Append(q, x))
<1>1. PICK f \in [S -> DOMAIN q] :
        /\ \A i, j \in S : f[i] = f[j] => i = j
        /\ \A i \in S : q[f[i]] = h[i]
  BY DEF Covered
<1> DEFINE m == Len(h) + 1
           n == Len(q) + 1
           R == S \cup {m}
           g == [i \in R |-> IF i = m THEN n ELSE f[i]]
           p == Append(q, x)
           l == Append(h, x)
<1>2. /\ DOMAIN q = 1..Len(q) /\ DOMAIN p = 1..n /\ Len(q) \in Nat
      /\ p[n] = x /\ \A i \in 1..Len(q) : p[i] = q[i]
  OBVIOUS
<1>3. /\ DOMAIN h = 1..Len(h) /\ Len(h) \in Nat
      /\ l[m] = x /\ \A i \in 1..Len(h) : l[i] = h[i]
  OBVIOUS
<1>4. m \notin S /\ n \notin DOMAIN q
  BY <1>2, <1>3
<1>5. n \in DOMAIN p /\ DOMAIN q \subseteq DOMAIN p
  BY <1>2
<1> HIDE DEF m, n, p, l
<1>6. g \in [R -> DOMAIN p]
  BY <1>5
<1>7. \A i, j \in R : g[i] = g[j] => i = j
  BY <1>1, <1>4
<1>8. \A i \in R : p[g[i]] = l[i]
  <2>1. \A i \in S : p[f[i]] = l[i]
    BY <1>1, <1>2, <1>3
  <2> QED
    BY <1>2, <1>3, <1>4, <2>1
<1> HIDE DEF g
<1>9. Covered(l, R, p)
  BY <1>6, <1>7, <1>8 DEF Covered
<1> QED
  BY <1>9 DEF m, l, p

\* A filter that keeps every element changes nothing.
LEMMA CompactWhole ==
  ASSUME NEW E, NEW q \in Seq(E)
  PROVE  Compact(q, DOMAIN q) = q
<1>1. DOMAIN q = 1..Len(q) /\ Len(q) \in Nat
  OBVIOUS
<1> DEFINE D == DOMAIN q
           n == Cardinality(D)
<1>2. \A m \in Nat : IsFiniteSet(1..m) /\ Cardinality(1..m) = m
  BY FS_Interval
<1>3. n = Len(q)
  BY <1>1, <1>2
<1>4. ASSUME NEW j \in D
      PROVE  Rank(D, j) = j
  <2>1. {m \in D : m <= j} = 1..j /\ j \in Nat
    BY <1>1
  <2>2. Rank(D, j) = Cardinality({m \in D : m <= j})
    BY DEF Rank
  <2> HIDE DEF D
  <2>3. Rank(D, j) = Cardinality(1..j)
    BY <2>1, <2>2
  <2> QED
    BY <1>2, <2>1, <2>3
<1>5. ASSUME NEW i \in 1..n
      PROVE  Nth(D, i) = i
  <2>1. i \in D /\ Rank(D, i) = i
    BY <1>1, <1>3, <1>4
  <2>2. Nth(D, i) \in D /\ Rank(D, Nth(D, i)) = i
    BY <2>1, Zenon DEF Nth
  <2> QED
    BY <1>4, <2>2
<1>6. \A i \in D : Compact(q, D)[i] = q[i]
  BY <1>5 DEF Compact
<1>7. Compact(q, D) = [i \in D |-> Compact(q, D)[i]] /\ q = [i \in D |-> q[i]]
  BY DEF Compact
<1> QED
  BY <1>6, <1>7
=============================================================================
