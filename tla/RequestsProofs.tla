--------------------------- MODULE RequestsProofs ---------------------------
(***************************************************************************)
(* Proofs about the way of a request through the proxy: for any channels,  *)
(* keys, models and requests, that it is accounted for once, tries nothing *)
(* it may not try, fails over thoroughly, and that the list of models all  *)
(* handlers share is current.                                              *)
(***************************************************************************)
EXTENDS Requests, InPlaceFilterProofs

-----------------------------------------------------------------------------
(* Sequences and the lists of models *)

LEMMA ElementsFinite ==
  ASSUME NEW S, NEW q \in Seq(S)
  PROVE  IsFiniteSet(ToSet(q))
<1>1. q \in Surjection(1..Len(q), ToSet(q))
  BY DEF Surjection, ToSet
<1>2. Len(q) \in Nat
  OBVIOUS
<1>3. IsFiniteSet(1..Len(q))
  BY <1>2, FS_Interval
<1> QED
  BY <1>1, <1>3, FS_Surjection

\* SetToSeqs gives sequences that name every element of the set.
LEMMA SetToSeqsShape ==
  ASSUME NEW S, IsFiniteSet(S), NEW q \in SetToSeqs(S)
  PROVE  q \in Seq(S) /\ ToSet(q) = S
<1> DEFINE n == Cardinality(S)
<1>1. n \in Nat /\ q \in [1..n -> S] /\ \A i, j \in 1..n : i # j => q[i] # q[j]
  BY FS_CardinalityType DEF SetToSeqs
<1>2. IsFiniteSet(1..n) /\ Cardinality(1..n) = n
  <2>1. \A l \in Nat : IsFiniteSet(1..l) /\ Cardinality(1..l) = l
    BY FS_Interval
  <2> QED
    BY <1>1, <2>1
<1>3. q \in Injection(1..n, S)
  BY <1>1, Fun_IsInj
<1>4. q \in Surjection(1..n, S)
  BY <1>2, <1>3, FS_Injection
<1> HIDE DEF n
<1>5. ToSet(q) = S
  BY <1>1, <1>4 DEF Surjection, ToSet
<1> QED
  BY <1>1, <1>5

LEMMA MergedShape ==
  ASSUME NEW n \in Nat, NEW of \in [1..n -> Seq(Models)], NEW firm, NEW list \in Merged(of, firm)
  PROVE  list \in Seq(Models) /\ ToSet(list) = UNION {ToSet(of[i]) : i \in 1..n}
<1> DEFINE sets == {ToSet(of[i]) : i \in 1..n}
           set == [i \in 1..n |-> ToSet(of[i])]
<1>1. set \in Surjection(1..n, sets)
  BY DEF Surjection
<1>2. IsFiniteSet(1..n)
  BY FS_Interval
<1>3. IsFiniteSet(sets)
  <2> HIDE DEF set, sets
  <2> QED
    BY <1>1, <1>2, FS_Surjection
<1>4. \A T \in sets : IsFiniteSet(T)
  BY ElementsFinite
<1>5. IsFiniteSet(UNION sets)
  <2> HIDE DEF sets
  <2> QED
    BY <1>3, <1>4, FS_UNION
<1>6. list \in SetToSeqs(UNION sets)
  BY DEF Merged
<1>7. UNION sets \subseteq Models
  BY DEF ToSet
<1> HIDE DEF sets
<1>8. list \in Seq(UNION sets) /\ ToSet(list) = UNION sets
  BY <1>5, <1>6, SetToSeqsShape
<1>9. list \in Seq(Models)
  BY <1>7, <1>8
<1> QED
  BY <1>8, <1>9 DEF sets

\* An element of a sequence stands at a place of it.
LEMMA ContainsElement ==
  ASSUME NEW S, NEW q \in Seq(S), NEW x
  PROVE  Contains(q, x) <=> x \in ToSet(q)
BY DEF Contains, ToSet

LEMMA ElementPlace ==
  ASSUME NEW S, NEW q \in Seq(S)
  PROVE  /\ \A x \in ToSet(q) : \E i \in 1..Len(q) : x = q[i]
         /\ \A i \in 1..Len(q) : q[i] \in ToSet(q)
         /\ Len(q) \in Nat /\ (q = <<>> <=> Len(q) = 0)
BY DEF ToSet

LEMMA HeadElement ==
  ASSUME NEW S, NEW q \in Seq(S), q # <<>>
  PROVE  Head(q) = q[1] /\ Head(q) \in ToSet(q) /\ Head(q) \in S /\ 1 \in DOMAIN q /\ Len(q) \in Nat \ {0}
BY DEF ToSet

LEMMA EmptyHasNone ==
  ASSUME NEW S, NEW q \in Seq(S)
  PROVE  q # <<>> <=> \E x : x \in ToSet(q)
<1>1. q # <<>> => q[1] \in ToSet(q)
  BY HeadElement
<1>2. ToSet(<<>>) = {}
  BY DEF ToSet
<1> QED
  BY <1>1, <1>2

-----------------------------------------------------------------------------
(* The filters *)

LEMMA EnabledShape ==
  ASSUME NEW q \in Seq(ChannelRows), NEW protocol
  PROVE  /\ EnabledOnly(q, protocol) \in Seq(ChannelRows)
         /\ ToSet(EnabledOnly(q, protocol)) = {c \in ToSet(q) : c.type = protocol /\ c.on}
<1> DEFINE on == {c \in ToSet(q) : c.type = protocol /\ c.on}
<1>1. EnabledOnly(q, protocol) = Only(q, on) /\ ToSet(q) \cap on = on
  BY DEF EnabledOnly
<1> HIDE DEF on
<1>2. Only(q, on) \in Seq(ChannelRows) /\ ToSet(Only(q, on)) = ToSet(q) \cap on
  BY OnlyShape
<1> QED
  BY <1>1, <1>2 DEF on

\* A filter by a model leaves a channel exactly when one serves the model, and
\* filtering once more changes nothing about that.
LEMMA FilterShape ==
  ASSUME NEW q \in Seq(ChannelRows), NEW m
  PROVE  /\ FilterByModel(q, m) \in Seq(ChannelRows)
         /\ m # NoModel => (FilterByModel(q, m) # <<>> <=> \E c \in ToSet(q) : Serves(c, m))
         /\ FilterByModel(q, m) # <<>> => FilterByModel(FilterByModel(q, m), m) # <<>>
<1>1. CASE m = NoModel
  BY <1>1 DEF FilterByModel
<1>2. CASE m # NoModel
  <2>1. ASSUME NEW p \in Seq(ChannelRows)
        PROVE  /\ FilterByModel(p, m) \in Seq(ChannelRows)
               /\ ToSet(FilterByModel(p, m)) = {c \in ToSet(p) : Serves(c, m)}
    <3> DEFINE serving == {c \in ToSet(p) : Serves(c, m)}
    <3>1. FilterByModel(p, m) = Only(p, serving) /\ ToSet(p) \cap serving = serving
      BY <1>2 DEF FilterByModel
    <3> HIDE DEF serving
    <3>2. Only(p, serving) \in Seq(ChannelRows) /\ ToSet(Only(p, serving)) = ToSet(p) \cap serving
      BY OnlyShape
    <3> QED
      BY <3>1, <3>2 DEF serving
  <2>2. \A p \in Seq(ChannelRows) : FilterByModel(p, m) # <<>> <=> \E c \in ToSet(p) : Serves(c, m)
    <3> TAKE p \in Seq(ChannelRows)
    <3>1. FilterByModel(p, m) # <<>> <=> \E c : c \in ToSet(FilterByModel(p, m))
      BY <2>1, EmptyHasNone
    <3> QED
      BY <2>1, <3>1
  <2> QED
    BY <1>2, <2>1, <2>2
<1> QED
  BY <1>1, <1>2

-----------------------------------------------------------------------------
(* The candidates for "auto" *)

\* The list for a wildcard channel is one of those that were looked up.
LEMMA WildcardRank ==
  ASSUME NEW q \in Seq(ChannelRows), NEW i \in Wildcards(q)
  PROVE  Rank(Wildcards(q), i) \in 1..Cardinality(Wildcards(q))
<1> DEFINE keep == Wildcards(q)
<1>1. keep \in SUBSET DOMAIN q
  BY DEF Wildcards
<1> HIDE DEF keep
<1>2. keep \in SUBSET Nat /\ IsFiniteSet(keep)
  BY <1>1, FilterType
<1>3. [j \in keep |-> Rank(keep, j)] \in [keep -> 1..Cardinality(keep)]
  BY <1>2, RankInjective DEF Injection
<1>4. i \in keep
  BY DEF keep
<1> QED
  BY <1>3, <1>4 DEF keep

\* Every served model is one that a channel serves, and every model that a
\* channel is configured with and that is not switched off on it is served.
LEMMA ServedShape ==
  ASSUME NEW q \in Seq(ChannelRows), NEW lists \in Seq(Seq(Models)),
         Len(lists) >= Cardinality(Wildcards(q)), NEW served \in ServedModels(q, lists)
  PROVE  /\ served \in Seq(Models)
         /\ \A m \in ToSet(served) : \E c \in ToSet(q) : Serves(c, m)
         /\ \A i \in DOMAIN q : ToSet(q[i].models) \ q[i].disabled \subseteq ToSet(served)
<1> DEFINE from(i) == IF IsWildcard(q[i]) THEN lists[Rank(Wildcards(q), i)] ELSE q[i].models
           of == [i \in DOMAIN q |-> Only(from(i), Models \ q[i].disabled)]
           n == Len(q)
<1>1. n \in Nat /\ DOMAIN q = 1..n
  OBVIOUS
<1>2. \A i \in 1..n : q[i] \in ChannelRows
  OBVIOUS
<1>3. \A i \in 1..n : q[i].models \in Seq(Models) /\ q[i].disabled \subseteq Models
  BY <1>2 DEF ChannelRows
<1>4. \A i \in 1..n : from(i) \in Seq(Models)
  <2> TAKE i \in 1..n
  <2>1. CASE IsWildcard(q[i])
    <3>1. i \in Wildcards(q)
      BY <1>1, <2>1 DEF Wildcards
    <3>2. Rank(Wildcards(q), i) \in 1..Cardinality(Wildcards(q))
      BY <3>1, WildcardRank
    <3>3. Wildcards(q) \in SUBSET DOMAIN q
      BY DEF Wildcards
    <3>4. Cardinality(Wildcards(q)) \in Nat
      BY <3>3, FilterType
    <3>5. Rank(Wildcards(q), i) \in 1..Len(lists)
      BY <3>2, <3>4
    <3> QED
      BY <2>1, <3>5
  <2>2. CASE ~IsWildcard(q[i])
    BY <1>3, <2>2
  <2> QED
    BY <2>1, <2>2
<1>5. served \in Merged(of, DOMAIN of)
  BY DEF ServedModels
<1> HIDE DEF from
<1>6. \A i \in 1..n : /\ Only(from(i), Models \ q[i].disabled) \in Seq(Models)
                      /\ ToSet(Only(from(i), Models \ q[i].disabled)) = ToSet(from(i)) \ q[i].disabled
  <2> TAKE i \in 1..n
  <2> DEFINE T == Models \ q[i].disabled
  <2>1. Only(from(i), T) \in Seq(Models) /\ ToSet(Only(from(i), T)) = ToSet(from(i)) \cap T
    <3> HIDE DEF T
    <3> QED
      BY <1>4, OnlyShape
  <2>2. ToSet(from(i)) \subseteq Models
    BY <1>4 DEF ToSet
  <2> QED
    BY <2>1, <2>2
<1>7. of \in [1..n -> Seq(Models)] /\ \A i \in 1..n : ToSet(of[i]) = ToSet(from(i)) \ q[i].disabled
  BY <1>1, <1>6
<1> HIDE DEF of, n
<1>8. served \in Seq(Models) /\ ToSet(served) = UNION {ToSet(of[i]) : i \in 1..n}
  BY <1>1, <1>5, <1>7, MergedShape
<1>9. ASSUME NEW m \in ToSet(served)
      PROVE  \E c \in ToSet(q) : Serves(c, m)
  <2>1. PICK i \in 1..n : m \in ToSet(from(i)) /\ m \notin q[i].disabled
    BY <1>7, <1>8
  <2>2. ~IsWildcard(q[i]) => Contains(q[i].models, m)
    BY <1>3, <2>1, ContainsElement DEF from
  <2>3. q[i] \in ToSet(q)
    BY <1>1 DEF ToSet
  <2> QED
    BY <2>1, <2>2, <2>3 DEF Serves, IsWildcard
<1>10. ASSUME NEW i \in 1..n
       PROVE  ToSet(q[i].models) \ q[i].disabled \subseteq ToSet(served)
  <2>1. CASE IsWildcard(q[i])
    <3>1. ToSet(q[i].models) = {}
      BY <2>1 DEF IsWildcard, ToSet
    <3> QED
      BY <3>1
  <2>2. CASE ~IsWildcard(q[i])
    <3>1. ToSet(of[i]) = ToSet(q[i].models) \ q[i].disabled
      BY <1>7, <2>2 DEF from
    <3> QED
      BY <1>8, <3>1
  <2> QED
    BY <2>1, <2>2
<1> QED
  BY <1>1, <1>8, <1>9, <1>10

PoolOf(key) == IF key.pool # <<>> THEN key.pool ELSE key.allowed

\* The candidates are the served models that the key allows and its pool names.
LEMMA CandidatesShape ==
  ASSUME NEW key \in KeyRows, NEW served \in Seq(Models)
  PROVE  /\ AutoCandidates(key, served) \in Seq(Models)
         /\ ToSet(AutoCandidates(key, served)) =
              {m \in ToSet(served) :
                 Allows(key, m) /\ (PoolOf(key) = <<>> \/ m \in ToSet(PoolOf(key)))}
<1> DEFINE fit == {m \in ToSet(served) : Allows(key, m)}
<1>1. key.pool \in Seq(Models) /\ key.allowed \in Seq(Models)
  BY DEF KeyRows
<1>2. CASE PoolOf(key) = <<>>
  <2>1. key.allowed = <<>>
    BY <1>2 DEF PoolOf
  <2>2. \A m : Allows(key, m)
    BY <2>1 DEF Allows
  <2>3. AutoCandidates(key, served) = served
    BY <1>2 DEF AutoCandidates, PoolOf
  <2> QED
    BY <1>2, <2>2, <2>3
<1>3. CASE PoolOf(key) # <<>>
  <2>1. AutoCandidates(key, served) = Only(PoolOf(key), fit)
    BY <1>3 DEF AutoCandidates, PoolOf
  <2>2. PoolOf(key) \in Seq(Models)
    BY <1>1 DEF PoolOf
  <2> HIDE DEF fit
  <2>3. /\ Only(PoolOf(key), fit) \in Seq(Models)
        /\ ToSet(Only(PoolOf(key), fit)) = ToSet(PoolOf(key)) \cap fit
    BY <2>2, OnlyShape
  <2> QED
    BY <1>3, <2>1, <2>3 DEF fit
<1> QED
  BY <1>2, <1>3

-----------------------------------------------------------------------------
(* The four modes *)

LEMMA LatencyShape ==
  ASSUME NEW cands \in Seq(Models), cands # <<>>, NEW latency,
         DOMAIN latency \subseteq Models, latency \in [DOMAIN latency -> Nat]
  PROVE  PickByLatency(cands, latency) \in ToSet(cands)
<1> DEFINE sampled == Only(cands, DOMAIN latency)
           fast == {m \in ToSet(sampled) : \A o \in ToSet(sampled) : latency[m] <= latency[o]}
           fastest == Only(sampled, fast)
<1>1. /\ sampled \in Seq(Models) /\ ToSet(sampled) = ToSet(cands) \cap DOMAIN latency
  BY OnlyShape
<1>2. PickByLatency(cands, latency) = Head(IF sampled = <<>> THEN cands ELSE fastest)
  BY DEF PickByLatency
<1>3. CASE sampled = <<>>
  BY <1>2, <1>3, HeadElement
<1>4. CASE sampled # <<>>
  <2> DEFINE some == ToSet(sampled)
             values == {latency[m] : m \in some}
             value == [m \in some |-> latency[m]]
  <2>1. IsFiniteSet(some)
    BY <1>1, ElementsFinite
  <2>2. value \in Surjection(some, values)
    BY DEF Surjection
  <2>3. IsFiniteSet(values)
    <3> HIDE DEF some, value, values
    <3> QED
      BY <2>1, <2>2, FS_Surjection
  <2>4. \E m : m \in some
    <3> HIDE DEF sampled
    <3> QED
      BY <1>1, <1>4, EmptyHasNone
  <2>5. values \in SUBSET Nat /\ values # {}
    BY <1>1, <2>4
  <2>6. \E v \in values : \A w \in values : v <= w
    <3> HIDE DEF values
    <3> QED
      BY <2>3, <2>5, NthLeast
  <2>7. \E m : m \in fast
    BY <2>6
  <2> HIDE DEF some, value, values, sampled, fast
  <2>8. fastest \in Seq(Models) /\ ToSet(fastest) = ToSet(sampled) \cap fast
    BY <1>1, OnlyShape
  <2>9. fast \subseteq ToSet(sampled)
    BY DEF fast
  <2>10. fastest # <<>>
    <3>1. \E m : m \in ToSet(fastest)
      BY <2>7, <2>8, <2>9
    <3> QED
      BY <2>8, <3>1, EmptyHasNone
  <2>11. Head(fastest) \in ToSet(fastest)
    BY <2>8, <2>10, HeadElement
  <2> QED
    BY <1>1, <1>2, <1>4, <2>8, <2>11
<1> QED
  BY <1>3, <1>4

LEMMA RoundRobinShape ==
  ASSUME NEW cands \in Seq(Models), cands # <<>>, NEW n \in Nat
  PROVE  PickRoundRobin(cands, n) \in ToSet(cands)
<1>1. Len(cands) \in Nat \ {0}
  OBVIOUS
<1>2. \A l \in Nat \ {0} : n % l \in 0..(l - 1)
  OBVIOUS
<1>3. (n % Len(cands)) + 1 \in 1..Len(cands)
  BY <1>1, <1>2
<1> QED
  BY <1>3 DEF PickRoundRobin, ToSet

LEMMA SmartShape ==
  ASSUME NEW cands \in Seq(Models), cands # <<>>, NEW task, NEW latency,
         DOMAIN latency \subseteq Models, latency \in [DOMAIN latency -> Nat]
  PROVE  PickSmart(cands, task, latency) \in ToSet(cands)
<1> DEFINE able == {m \in ToSet(cands) : Vision(m)}
           seeing == Only(cands, able)
           pool == IF task.images /\ seeing # <<>> THEN seeing ELSE cands
           want == TierOrder(WantedTier(task))
           present == {Tier(m) : m \in ToSet(pool)}
           tiers == Only(want, present)
           alike == {m \in ToSet(pool) : Tier(m) = Head(tiers)}
           picked == Only(pool, alike)
<1>1. seeing \in Seq(Models) /\ ToSet(seeing) \subseteq ToSet(cands)
  <2> HIDE DEF able
  <2> QED
    BY OnlyShape
<1>2. pool \in Seq(Models) /\ pool # <<>> /\ ToSet(pool) \subseteq ToSet(cands)
  <2> HIDE DEF seeing
  <2> QED
    BY <1>1
<1>3. want \in Seq(1..3) /\ ToSet(want) = 1..3
  <2>1. ASSUME NEW x \in 1..3, NEW y \in 1..3, NEW z \in 1..3
        PROVE  /\ <<x, y, z>> \in Seq(1..3) /\ DOMAIN <<x, y, z>> = {1, 2, 3}
               /\ <<x, y, z>>[1] = x /\ <<x, y, z>>[2] = y /\ <<x, y, z>>[3] = z
    OBVIOUS
  <2>a. {1, 2, 3} = 1..3 /\ {2, 3, 1} = 1..3 /\ {3, 2, 1} = 1..3
    OBVIOUS
  <2>2. want \in {<<1, 2, 3>>, <<2, 3, 1>>, <<3, 2, 1>>}
    BY DEF TierOrder
  <2> HIDE DEF want
  <2>3. want \in Seq(1..3) /\ DOMAIN want = {1, 2, 3} /\ {want[1], want[2], want[3]} = 1..3
    <3>1. CASE want = <<1, 2, 3>>
      BY <2>1, <2>a, <3>1
    <3>2. CASE want = <<2, 3, 1>>
      BY <2>1, <2>a, <3>2
    <3>3. CASE want = <<3, 2, 1>>
      BY <2>1, <2>a, <3>3
    <3> QED
      BY <2>2, <3>1, <3>2, <3>3
  <2>4. ToSet(want) = {want[1], want[2], want[3]}
    BY <2>3 DEF ToSet
  <2> QED
    BY <2>3, <2>4
<1> HIDE DEF pool, want
<1>4. \E m : m \in ToSet(pool)
  BY <1>2, EmptyHasNone
<1>5. ToSet(pool) \subseteq Models
  BY <1>2 DEF ToSet
<1>6. \E t : t \in present /\ t \in 1..3
  BY <1>4, <1>5, AutoRouteAssumption
<1>7. tiers \in Seq(1..3) /\ ToSet(tiers) = 1..3 \cap present
  <2> HIDE DEF present
  <2> QED
    BY <1>3, OnlyShape
<1>8. tiers # <<>>
  <2>1. \E t : t \in ToSet(tiers)
    BY <1>6, <1>7
  <2> HIDE DEF tiers
  <2> QED
    BY <1>7, <2>1, EmptyHasNone
<1>9. Head(tiers) \in present
  <2> HIDE DEF tiers
  <2> QED
    BY <1>7, <1>8, HeadElement
<1>10. \E m : m \in alike
  BY <1>9
<1> HIDE DEF tiers, present
<1>11. alike \subseteq ToSet(pool)
  OBVIOUS
<1> HIDE DEF alike
<1>12. picked \in Seq(Models) /\ ToSet(picked) = ToSet(pool) \cap alike
  BY <1>2, OnlyShape
<1>13. picked # <<>>
  <2>1. \E m : m \in ToSet(picked)
    BY <1>10, <1>11, <1>12
  <2> QED
    BY <1>12, <2>1, EmptyHasNone
<1>14. PickSmart(cands, task, latency) = PickByLatency(picked, latency)
  BY DEF PickSmart, pool, want, tiers, present, alike
<1> HIDE DEF picked
<1> QED
  BY <1>2, <1>12, <1>13, <1>14, LatencyShape

\* A filter that keeps the first place of an element keeps what stands behind
\* it behind it.
LEMMA FilterBefore ==
  ASSUME NEW S, NEW q \in Seq(S), NEW keep \in SUBSET DOMAIN q, NEW m, NEW n,
         Before(q, m, n), Place(q, m) \in keep
  PROVE  Before(Filtered(q, keep), m, n)
<1> DEFINE f == Filtered(q, keep)
           c == Cardinality(keep)
<1>1. f \in Seq(S) /\ Len(f) = c /\ c \in Nat /\ DOMAIN f = 1..c
  BY FilterType
<1>2. /\ \A i \in 1..c : Nth(keep, i) \in keep /\ f[i] = q[Nth(keep, i)]
      /\ \A i, j \in 1..c : i < j => Nth(keep, i) < Nth(keep, j)
      /\ \A l \in keep : \E i \in 1..c : Nth(keep, i) = l
  BY FilterOrder
<1>3. Contains(q, m) /\ Place(q, m) \in 1..Len(q) /\ q[Place(q, m)] = m
  BY PlaceShape DEF Before
<1>4. PICK a \in 1..c : Nth(keep, a) = Place(q, m)
  BY <1>2
<1> HIDE DEF f, c
<1>5. a \in 1..Len(f) /\ f[a] = m
  BY <1>1, <1>2, <1>3, <1>4
<1>6. Contains(f, m)
  BY <1>5 DEF Contains
<1>7. Place(f, m) \in 1..c /\ Place(f, m) <= a
  BY <1>1, <1>5, <1>6, PlaceShape
<1>8. ASSUME Contains(f, n)
      PROVE  Place(f, m) < Place(f, n)
  <2> DEFINE b == Place(f, n)
  <2>1. b \in 1..c /\ f[b] = n
    BY <1>1, <1>8, PlaceShape
  <2> HIDE DEF b
  <2>2. Nth(keep, b) \in 1..Len(q) /\ q[Nth(keep, b)] = n
    BY <1>2, <2>1
  <2>3. Contains(q, n)
    BY <2>2 DEF Contains
  <2>4. Place(q, n) \in 1..Len(q) /\ Place(q, n) <= Nth(keep, b)
    BY <2>2, <2>3, PlaceShape
  <2>5. Place(q, m) < Place(q, n)
    BY <2>3 DEF Before
  <2>6. Nth(keep, a) < Nth(keep, b)
    BY <1>3, <1>4, <2>2, <2>4, <2>5
  <2>7. a < b
    <3> SUFFICES ASSUME ~(a < b) PROVE FALSE
      OBVIOUS
    <3>1. b < a \/ a = b
      BY <1>1, <2>1
    <3>2. Nth(keep, a) \in Int /\ Nth(keep, b) \in Int
      BY <1>3, <1>4, <2>2
    <3> QED
      BY <1>2, <2>1, <2>6, <3>1, <3>2
  <2>8. Place(f, m) < b
    BY <1>1, <1>7, <2>1, <2>7
  <2> QED
    BY <2>8 DEF b
<1> QED
  BY <1>6, <1>8 DEF Before, f

LEMMA DistinctShape ==
  ASSUME NEW S, NEW q \in Seq(S)
  PROVE  /\ Distinct(q) \in Seq(S) /\ ToSet(Distinct(q)) = ToSet(q)
         /\ \A m, n : Before(q, m, n) => Before(Distinct(q), m, n)
<1> DEFINE keep == {i \in DOMAIN q : \A j \in 1..(i - 1) : q[j] # q[i]}
           d == Distinct(q)
<1>1. keep \in SUBSET DOMAIN q /\ d = Filtered(q, keep) /\ DOMAIN q = 1..Len(q)
  BY DEF Distinct
<1>2. ASSUME NEW m, Contains(q, m)
      PROVE  Place(q, m) \in keep /\ q[Place(q, m)] = m
  <2>1. /\ Place(q, m) \in 1..Len(q) /\ q[Place(q, m)] = m
        /\ \A j \in 1..Len(q) : q[j] = m => Place(q, m) <= j
    BY <1>2, PlaceShape
  <2>2. \A j \in 1..(Place(q, m) - 1) : j \in 1..Len(q) /\ ~(Place(q, m) <= j)
    BY <2>1
  <2> QED
    BY <1>1, <2>1, <2>2
<1> HIDE DEF keep
<1>3. d \in Seq(S) /\ DOMAIN d = 1..Cardinality(keep)
  <2>1. d \in Seq(S) /\ Len(d) = Cardinality(keep)
    BY <1>1, FilterType
  <2> QED
    BY <2>1
<1>4. /\ \A i \in 1..Cardinality(keep) : Nth(keep, i) \in keep /\ d[i] = q[Nth(keep, i)]
      /\ \A l \in keep : \E i \in 1..Cardinality(keep) : Nth(keep, i) = l
  BY <1>1, FilterOrder
<1>5. ToSet(d) \subseteq ToSet(q)
  BY <1>1, <1>3, <1>4 DEF ToSet
<1>6. ASSUME NEW m \in ToSet(q)
      PROVE  m \in ToSet(d)
  <2>1. Contains(q, m)
    BY ContainsElement
  <2>2. Place(q, m) \in keep /\ q[Place(q, m)] = m
    BY <1>2, <2>1
  <2>3. PICK i \in 1..Cardinality(keep) : Nth(keep, i) = Place(q, m)
    BY <1>4, <2>2
  <2> QED
    BY <1>3, <1>4, <2>2, <2>3 DEF ToSet
<1>7. ASSUME NEW m, NEW n, Before(q, m, n)
      PROVE  Before(d, m, n)
  <2>1. Place(q, m) \in keep
    BY <1>2, <1>7 DEF Before
  <2> QED
    BY <1>1, <1>7, <2>1, FilterBefore
<1> QED
  BY <1>3, <1>5, <1>6, <1>7

\* Mode priority orders the candidates and drops none: what stands in the list
\* of priorities comes in its order, before everything else.
LEMMA PriorityShape ==
  ASSUME NEW prio \in Seq(Models), NEW cands \in Seq(Models)
  PROVE  LET ordered == OrderedByPriority(prio, cands)
         IN  /\ ordered \in Seq(Models) /\ ToSet(ordered) = ToSet(cands)
             /\ \A m \in ToSet(cands) : \A n : Before(prio, m, n) => Before(ordered, m, n)
<1> DEFINE listed == Only(prio, ToSet(cands))
           first == Distinct(listed)
           others == ToSet(cands) \ ToSet(first)
           rest == Only(cands, others)
           ordered == OrderedByPriority(prio, cands)
<1>1. listed \in Seq(Models) /\ ToSet(listed) = ToSet(prio) \cap ToSet(cands)
  BY OnlyShape
<1>2. ASSUME NEW m \in ToSet(cands), NEW n, Before(prio, m, n)
      PROVE  Before(listed, m, n)
  <2> DEFINE keep == {i \in DOMAIN prio : prio[i] \in ToSet(cands)}
  <2>1. Place(prio, m) \in 1..Len(prio) /\ prio[Place(prio, m)] = m
    BY <1>2, PlaceShape DEF Before
  <2>2. Place(prio, m) \in keep /\ keep \in SUBSET DOMAIN prio
    BY <2>1
  <2>3. listed = Filtered(prio, keep)
    BY DEF Only
  <2> HIDE DEF keep, listed
  <2> QED
    BY <1>2, <2>2, <2>3, FilterBefore
<1> HIDE DEF listed
<1>3. /\ first \in Seq(Models) /\ ToSet(first) = ToSet(prio) \cap ToSet(cands)
      /\ \A m \in ToSet(cands) : \A n : Before(prio, m, n) => Before(first, m, n)
  BY <1>1, <1>2, DistinctShape
<1> HIDE DEF first
<1>4. rest \in Seq(Models) /\ ToSet(rest) = ToSet(cands) \ ToSet(first)
  <2>1. ToSet(cands) \cap others = others
    OBVIOUS
  <2> HIDE DEF others
  <2>2. rest \in Seq(Models) /\ ToSet(rest) = ToSet(cands) \cap others
    BY OnlyShape
  <2> QED
    BY <2>1, <2>2 DEF others
<1>5. ordered = first \o rest
  BY DEF OrderedByPriority, first, listed
<1> HIDE DEF rest, ordered
<1>6. /\ ordered \in Seq(Models) /\ Len(ordered) = Len(first) + Len(rest)
      /\ \A i \in 1..Len(first) : ordered[i] = first[i]
      /\ \A i \in 1..Len(rest) : ordered[Len(first) + i] = rest[i]
      /\ Len(first) \in Nat /\ Len(rest) \in Nat
  BY <1>3, <1>4, <1>5
<1>7. ToSet(ordered) = ToSet(cands)
  <2>1. ASSUME NEW x \in ToSet(first)
        PROVE  x \in ToSet(ordered)
    <3>1. PICK i \in 1..Len(first) : x = first[i]
      BY <1>3 DEF ToSet
    <3>2. i \in 1..Len(ordered)
      BY <1>6
    <3> QED
      BY <1>6, <3>1, <3>2 DEF ToSet
  <2>2. ASSUME NEW x \in ToSet(rest)
        PROVE  x \in ToSet(ordered)
    <3>1. PICK i \in 1..Len(rest) : x = rest[i]
      BY <1>4 DEF ToSet
    <3>2. Len(first) + i \in 1..Len(ordered)
      BY <1>6
    <3> QED
      BY <1>6, <3>1, <3>2 DEF ToSet
  <2>3. ASSUME NEW x \in ToSet(ordered)
        PROVE  x \in ToSet(first) \cup ToSet(rest)
    <3>1. PICK i \in 1..Len(ordered) : x = ordered[i]
      BY <1>6 DEF ToSet
    <3>2. CASE i \in 1..Len(first)
      BY <1>3, <1>6, <3>1, <3>2 DEF ToSet
    <3>3. CASE i \notin 1..Len(first)
      <4>1. i - Len(first) \in 1..Len(rest) /\ Len(first) + (i - Len(first)) = i
        BY <1>6, <3>3
      <4>2. x = rest[i - Len(first)]
        BY <1>6, <3>1, <4>1
      <4> QED
        BY <1>4, <4>1, <4>2 DEF ToSet
    <3> QED
      BY <3>2, <3>3
  <2> QED
    BY <1>3, <1>4, <2>1, <2>2, <2>3
<1>8. ASSUME NEW m \in ToSet(cands), NEW n, Before(prio, m, n)
      PROVE  Before(ordered, m, n)
  <2>1. Before(first, m, n)
    BY <1>3, <1>8
  <2>2. Place(first, m) \in 1..Len(first) /\ first[Place(first, m)] = m
    BY <1>3, <2>1, PlaceShape DEF Before
  <2>3. Place(first, m) \in 1..Len(ordered) /\ ordered[Place(first, m)] = m
    BY <1>6, <2>2
  <2>4. Contains(ordered, m)
    BY <2>3 DEF Contains
  <2>5. Place(ordered, m) \in 1..Len(ordered) /\ Place(ordered, m) <= Place(first, m)
    BY <1>6, <2>3, <2>4, PlaceShape
  <2>6. ASSUME Contains(ordered, n)
        PROVE  Place(ordered, m) < Place(ordered, n)
    <3>1. Place(ordered, n) \in 1..Len(ordered) /\ ordered[Place(ordered, n)] = n
      BY <1>6, <2>6, PlaceShape
    <3>2. CASE Place(ordered, n) \in 1..Len(first)
      <4>1. first[Place(ordered, n)] = n
        BY <1>6, <3>1, <3>2
      <4>2. Contains(first, n)
        BY <3>2, <4>1 DEF Contains
      <4>3. Place(first, n) \in 1..Len(first) /\ Place(first, n) <= Place(ordered, n)
        BY <1>3, <3>2, <4>1, <4>2, PlaceShape
      <4>4. Place(first, m) < Place(first, n)
        BY <2>1, <4>2 DEF Before
      <4> QED
        BY <2>2, <2>5, <3>1, <4>3, <4>4
    <3>3. CASE Place(ordered, n) \notin 1..Len(first)
      BY <1>6, <2>2, <2>5, <3>1, <3>3
    <3> QED
      BY <3>2, <3>3
  <2> QED
    BY <2>4, <2>6 DEF Before
<1> QED
  BY <1>6, <1>7, <1>8 DEF ordered

\* Whatever the mode, what is tried comes from the candidates, and something
\* is; only mode priority takes all of them.
LEMMA OrderedShape ==
  ASSUME NEW key \in KeyRows, key.mode \in AutoModes, NEW cands \in Seq(Models), cands # <<>>,
         NEW n \in Nat, NEW task, NEW latency,
         DOMAIN latency \subseteq Models, latency \in [DOMAIN latency -> Nat]
  PROVE  LET ordered == AutoOrdered(key, cands, n, task, latency)
         IN  /\ ordered \in Seq(Models) /\ ordered # <<>>
             /\ ToSet(ordered) \subseteq ToSet(cands)
             /\ key.mode = "priority" =>
                  /\ ToSet(ordered) = ToSet(cands)
                  /\ \A m \in ToSet(cands) : \A o : Before(key.prio, m, o) => Before(ordered, m, o)
<1> DEFINE ordered == AutoOrdered(key, cands, n, task, latency)
<1>0. ToSet(cands) \subseteq Models
  BY DEF ToSet
<1>1. ASSUME NEW m \in ToSet(cands), ordered = <<m>>
      PROVE  ordered \in Seq(Models) /\ ordered # <<>> /\ ToSet(ordered) \subseteq ToSet(cands)
  BY <1>0, <1>1 DEF ToSet
<1>2. CASE key.mode = "latency"
  BY <1>1, <1>2, LatencyShape DEF AutoOrdered
<1>3. CASE key.mode = "balance"
  BY <1>1, <1>3, RoundRobinShape DEF AutoOrdered
<1>4. CASE key.mode = "smart"
  BY <1>1, <1>4, SmartShape DEF AutoOrdered
<1>5. CASE key.mode = "priority"
  <2>1. ordered = OrderedByPriority(key.prio, cands)
    BY <1>5 DEF AutoOrdered
  <2>2. key.prio \in Seq(Models)
    BY DEF KeyRows
  <2>3. /\ ordered \in Seq(Models) /\ ToSet(ordered) = ToSet(cands)
        /\ \A m \in ToSet(cands) : \A o : Before(key.prio, m, o) => Before(ordered, m, o)
    BY <2>1, <2>2, PriorityShape
  <2>4. ordered # <<>>
    <3> HIDE DEF ordered
    <3>1. \E m : m \in ToSet(ordered)
      BY <2>3, EmptyHasNone
    <3> QED
      BY <2>3, <3>1, EmptyHasNone
  <2> QED
    BY <2>3, <2>4
<1> QED
  BY <1>2, <1>3, <1>4, <1>5 DEF AutoModes

-----------------------------------------------------------------------------
(* The inductive invariant: what the locals of one handler say *)

Outcomes == {"ok", "bad", "none"}
Entries == [model : Names, status : {"ok", "bad", "failed"}]

Rows ==
  [stage : Stages, ask : AllAsks, chans : Seq(ChannelRows), lists : Seq(Seq(Models)),
   snapshot : Seq(ChannelRows), late : BOOLEAN, auto : BOOLEAN, cands : Seq(Names),
   model : Names, tried : Seq(Names), results : Seq(Outcomes),
   permit : {"none", "held", "given back"}, entries : Seq(Entries)]

ModeOf(r) == KeyRow[r.ask.key].mode

\* What the candidates are at each stage.
Prepared(r) ==
  /\ r.stage = "idle" => r.cands = <<>>
  /\ r.stage = "list" => r.ask.endpoint = "models"
  /\ r.stage = "route" => r.ask.endpoint # "models"
  /\ r.stage \in {"fill", "route"} /\ r.ask.endpoint # "models" =>
       r.auto /\ r.cands = <<>> /\ ModeOf(r) \in AutoModes
  /\ r.stage = "count" => r.ask.endpoint = "count" /\ ~r.auto /\ r.cands = <<r.model>>
  /\ r.stage = "check" => r.cands # <<>> /\ r.model = r.cands[1] /\ (~r.auto => Len(r.cands) = 1)
  /\ r.stage \in {"admit", "try", "reply"} => r.cands # <<>>
  /\ r.stage \in {"admit", "try"} /\ r.ask.endpoint = "responses" => r.ask.sound

\* What has been tried is a beginning of the candidates, with one result each;
\* nothing is tried without a permit, nor logged before the reply.
Tracked(r) ==
  /\ Len(r.tried) = Len(r.results) /\ Len(r.tried) <= Len(r.cands)
  /\ \A i \in 1..Len(r.tried) : r.tried[i] = r.cands[i]
  /\ r.permit = "held" <=> r.stage \in {"try", "reply"}
  /\ r.stage \notin {"try", "reply", "done"} =>
       r.tried = <<>> /\ r.entries = <<>> /\ r.permit = "none"
  /\ r.stage \in {"try", "reply"} => r.entries = <<>>
  /\ r.stage = "try" => Len(r.tried) < Len(r.cands)
  /\ r.stage = "reply" => r.tried # <<>> /\ r.model = r.tried[Len(r.tried)]

\* How the request stands in the log when it has ended.
Logged(r) ==
  r.stage = "done" =>
    /\ r.permit = "none" => r.entries = <<>> /\ (r.tried = <<>> \/ r.ask.endpoint = "count")
    /\ r.permit = "given back" =>
         /\ Len(r.entries) = 1 /\ r.tried # <<>>
         /\ r.entries[1].model = r.tried[Len(r.tried)]
         /\ r.entries[1].status \in {"ok", "bad"} =>
              r.entries[1].status = r.results[Len(r.results)]

\* A model that the request may try.
Fit(r, m) ==
  /\ FilterByModel(r.chans, m) # <<>>
  /\ Allows(KeyRow[r.ask.key], m) \/ m = NoModel \/ r.ask.playground \/ r.ask.endpoint = "count"

Suited(r) ==
  /\ \A m \in ToSet(r.tried) : Fit(r, m)
  /\ r.stage \in {"admit", "try"} \/ (r.stage = "check" /\ r.auto) =>
       \A m \in ToSet(r.cands) : Fit(r, m)

\* The loop goes on while there is no good response and another candidate.
Stopped(r) ==
  /\ \A i \in 1..(Len(r.results) - 1) : r.results[i] # "ok"
  /\ r.stage = "try" => \A i \in 1..Len(r.results) : r.results[i] # "ok"
  /\ r.stage \in {"reply", "done"} /\ r.tried # <<>> =>
       r.results[Len(r.results)] = "ok" \/ Len(r.tried) = Len(r.cands)

\* With priorities every sure model is a candidate, in their order.
Arranged(r) ==
  r.auto /\ ModeOf(r) = "priority" /\ r.cands # <<>> =>
    \A m \in Certain(r) :
      /\ m \in ToSet(r.cands)
      /\ \A n \in Names : Before(KeyRow[r.ask.key].prio, m, n) => Before(r.cands, m, n)

RequestSound(r) ==
  r \in Rows /\ Prepared(r) /\ Tracked(r) /\ Logged(r) /\ Suited(r) /\ Stopped(r) /\ Arranged(r)

RequestsSound == req \in [Handlers -> Rows] /\ \A h \in Handlers : RequestSound(req[h])

\* The list that is kept has been put together from the channels as they are,
\* unless a write has come since.
Current(list) ==
  LET chans == EnabledOnly(table, "openai")
      named == UNION {ToSet(chans[i].models) : i \in DOMAIN chans}
      offered == UNION {ToSet(chans[i].offers) \ chans[i].disabled :
                          i \in {j \in DOMAIN chans : IsWildcard(chans[j])}}
  IN  named \subseteq ToSet(list) /\ ToSet(list) \subseteq named \cup offered

FillsCurrent ==
  \A h \in Handlers : req[h].stage = "fill" /\ ~req[h].late =>
    req[h].snapshot = EnabledOnly(table, "openai")

ListSound ==
  /\ table \in Tables
  /\ cache \in [data : Seq(Models) \cup {NoList}, fresh : BOOLEAN]
  /\ cache.data # NoList => cache.data # <<>>
  /\ console \in {"idle", "written"} /\ outdated \in BOOLEAN
  /\ FillsCurrent
  /\ cache.fresh /\ console = "idle" /\ ~outdated => Current(cache.data)

\* The requests of a key that were spread are some of those with candidates.
WithCandidates == {h \in Handlers : req[h].cands # <<>>}

SpreadSound ==
  rr \in [Keys -> Nat] /\ \A k \in Keys : rr[k] <= Cardinality(WithCandidates)

RequestsInvariant == RequestsSound /\ ListSound /\ SpreadSound

-----------------------------------------------------------------------------
(* Steps that come before anything is tried *)

Early == Stages \ {"try", "reply", "done"}

LEMMA RowFields ==
  ASSUME NEW r \in Rows
  PROVE  /\ r.stage \in Stages /\ r.ask \in AllAsks /\ r.chans \in Seq(ChannelRows)
         /\ r.lists \in Seq(Seq(Models)) /\ r.snapshot \in Seq(ChannelRows)
         /\ r.late \in BOOLEAN /\ r.auto \in BOOLEAN /\ r.cands \in Seq(Names)
         /\ r.model \in Names /\ r.tried \in Seq(Names) /\ r.results \in Seq(Outcomes)
         /\ r.entries \in Seq(Entries)
         /\ KeyRow[r.ask.key] \in KeyRows /\ r.ask.key \in Keys
         /\ r.ask.endpoint \in Endpoints /\ r.ask.model \in Names
<1>1. r.ask \in AllAsks
  BY DEF Rows
<1>2. KeyRow[r.ask.key] \in KeyRows /\ r.ask.key \in Keys
      /\ r.ask.endpoint \in Endpoints /\ r.ask.model \in Names
  BY <1>1, RequestsAssumption
<1> QED
  BY <1>2 DEF Rows

\* A handler that moves to a sound state leaves all of them sound.
LEMMA MovedSound ==
  ASSUME RequestsSound, NEW h \in Handlers, NEW o, RequestSound(o), req' = [req EXCEPT ![h] = o]
  PROVE  RequestsSound'
<1>1. o \in Rows
  BY DEF RequestSound
<1>2. req' \in [Handlers -> Rows] /\ \A g \in Handlers : req'[g] = IF g = h THEN o ELSE req[g]
  BY <1>1 DEF RequestsSound
<1>3. \A g \in Handlers : RequestSound(req'[g])
  BY <1>2 DEF RequestsSound
<1> QED
  BY <1>2, <1>3 DEF RequestsSound

Untouched(o) == o.tried = <<>> /\ o.results = <<>> /\ o.entries = <<>> /\ o.permit = "none"

LEMMA EarlySound ==
  ASSUME NEW o \in Rows, o.stage \in Early \cup {"done"}, Untouched(o),
         Prepared(o), Suited(o), Arranged(o)
  PROVE  RequestSound(o)
<1>1. Len(o.tried) = 0 /\ Len(o.results) = 0 /\ Len(o.cands) \in Nat
  BY RowFields DEF Untouched
<1>2. Tracked(o)
  BY <1>1 DEF Tracked, Early, Untouched
<1>3. Logged(o) /\ Stopped(o)
  BY <1>1 DEF Logged, Stopped, Early, Untouched
<1> QED
  BY <1>2, <1>3 DEF RequestSound

LEMMA EarlyUntouched ==
  ASSUME RequestsSound, NEW h \in Handlers, req[h].stage \in Early
  PROVE  /\ req[h] \in Rows /\ Untouched(req[h]) /\ Prepared(req[h]) /\ Suited(req[h])
         /\ Arranged(req[h])
<1>1. RequestSound(req[h])
  BY DEF RequestsSound
<1>2. req[h].tried = <<>> /\ req[h].entries = <<>> /\ req[h].permit = "none"
  BY <1>1 DEF RequestSound, Tracked, Early
<1>3. req[h].results = <<>>
  <2>1. req[h].results \in Seq(Outcomes) /\ Len(req[h].results) = Len(req[h].tried)
    BY <1>1 DEF RequestSound, Tracked, Rows
  <2>2. Len(req[h].tried) = 0
    BY <1>2
  <2> QED
    BY <2>1, <2>2
<1> QED
  BY <1>1, <1>2, <1>3 DEF RequestSound, Untouched

\* What a step leaves alone that does not touch the candidates.
SameChoice(r, o) ==
  /\ o.ask = r.ask /\ o.chans = r.chans /\ o.auto = r.auto /\ o.cands = r.cands /\ o.model = r.model
  /\ o.tried = r.tried /\ o.results = r.results /\ o.entries = r.entries /\ o.permit = r.permit

LEMMA SameCertain ==
  ASSUME NEW r, NEW o, o.ask = r.ask, o.chans = r.chans
  PROVE  Certain(o) = Certain(r) /\ \A m : Fit(o, m) <=> Fit(r, m)
BY DEF Certain, Fit

LEMMA SameArranged ==
  ASSUME NEW r, NEW o, SameChoice(r, o), Arranged(r)
  PROVE  Arranged(o)
<1>1. Certain(o) = Certain(r)
  BY SameCertain DEF SameChoice
<1> QED
  BY <1>1 DEF Arranged, SameChoice, ModeOf

\* Looking up lists of models, and giving up early.
LEMMA LookupSound ==
  ASSUME RequestsSound, NEW h \in Handlers, NEW o \in Rows,
         req[h].stage \in Early, o.stage \in {"list", "fill", "route", "done"},
         SameChoice(req[h], o), Prepared(o)
  PROVE  RequestSound(o)
<1>1. /\ req[h] \in Rows /\ Untouched(req[h]) /\ Prepared(req[h]) /\ Arranged(req[h])
  BY EarlyUntouched
<1>2. Untouched(o) /\ Arranged(o)
  BY <1>1, SameArranged DEF Untouched, SameChoice
<1>3. Suited(o)
  BY <1>2 DEF Suited, Untouched, ToSet
<1> QED
  BY <1>2, <1>3, EarlySound DEF Early, Stages

LEMMA UseListSound ==
  ASSUME RequestsSound, ListSound, NEW h \in Handlers, UseList(h)
  PROVE  RequestsSound'
<1> DEFINE r == req[h]
           o == [r EXCEPT !.lists = Append(@, cache.data)]
<1>1. /\ r.stage \in {"list", "route"} /\ r.stage \in Early /\ cache.data \in Seq(Models)
      /\ req' = [req EXCEPT ![h].lists = Append(@, cache.data)]
  BY DEF UseList, NeedsList, ListSound, Early, Stages
<1>2. r \in Rows /\ Prepared(r)
  BY <1>1, EarlyUntouched
<1>3. req' = [req EXCEPT ![h] = o]
  BY <1>1 DEF RequestsSound
<1> HIDE DEF r
<1>4. Append(r.lists, cache.data) \in Seq(Seq(Models))
  BY <1>1, <1>2, RowFields
<1>5. o \in Rows
  BY <1>2, <1>4, Zenon DEF Rows
<1>6. SameChoice(r, o) /\ o.stage = r.stage
  BY <1>2 DEF Rows, SameChoice
<1> HIDE DEF o
<1>7. Prepared(o)
  BY <1>2, <1>6 DEF Prepared, SameChoice, ModeOf
<1>8. RequestSound(o)
  BY <1>1, <1>5, <1>6, <1>7, LookupSound DEF r
<1> QED
  BY <1>3, <1>8, MovedSound

LEMMA StartFillSound ==
  ASSUME RequestsSound, ListSound, NEW h \in Handlers, StartFill(h)
  PROVE  RequestsSound'
<1> DEFINE r == req[h]
           snap == EnabledOnly(table, "openai")
           o == [r EXCEPT !.stage = "fill", !.late = FALSE, !.snapshot = snap]
<1>1. /\ r.stage \in {"list", "route"} /\ r.stage \in Early
      /\ req' = [req EXCEPT ![h].stage = "fill", ![h].late = FALSE, ![h].snapshot = snap]
  BY DEF StartFill, NeedsList, Early, Stages
<1>2. r \in Rows /\ Prepared(r)
  BY <1>1, EarlyUntouched
<1>3. req' = [req EXCEPT ![h] = o]
  BY <1>1 DEF RequestsSound
<1>4. snap \in Seq(ChannelRows) /\ "fill" \in Stages /\ FALSE \in BOOLEAN
  <2>1. table \in Seq(ChannelRows)
    BY RequestsAssumption DEF ListSound
  <2> QED
    BY <2>1, EnabledShape DEF Stages
<1> HIDE DEF r, snap
<1>5. o \in Rows
  BY <1>2, <1>4, Zenon DEF Rows
<1>6. SameChoice(r, o) /\ o.stage = "fill"
  BY <1>2 DEF Rows, SameChoice
<1> HIDE DEF o
<1>7. Prepared(o)
  BY <1>1, <1>2, <1>6 DEF Prepared, SameChoice, ModeOf
<1>8. RequestSound(o)
  BY <1>1, <1>5, <1>6, <1>7, LookupSound DEF r
<1> QED
  BY <1>3, <1>8, MovedSound

\* A list put together from channels names what they are configured with, and
\* besides that only what wildcard channels offer.
LEMMA AggregatedShape ==
  ASSUME NEW q \in Seq(ChannelRows), NEW failing, NEW list \in Aggregated(q, failing)
  PROVE  LET named == UNION {ToSet(q[i].models) : i \in DOMAIN q}
             offered == UNION {ToSet(q[i].offers) \ q[i].disabled :
                                 i \in {j \in DOMAIN q : IsWildcard(q[j])}}
         IN  list \in Seq(Models) /\ named \subseteq ToSet(list) /\ ToSet(list) \subseteq named \cup offered
<1> DEFINE n == Len(q)
           enabled(i) == Only(q[i].offers, Models \ q[i].disabled)
           part(i) == IF ~IsWildcard(q[i]) THEN q[i].models
                      ELSE IF i \in failing THEN <<>> ELSE enabled(i)
           of == [i \in DOMAIN q |-> part(i)]
<1>1. n \in Nat /\ DOMAIN q = 1..n /\ \A i \in 1..n : q[i] \in ChannelRows
  OBVIOUS
<1>2. \A i \in 1..n : /\ q[i].models \in Seq(Models) /\ q[i].disabled \subseteq Models
                      /\ q[i].offers \in Seq(Models)
  BY <1>1 DEF ChannelRows
<1>3. \A i \in 1..n : /\ enabled(i) \in Seq(Models)
                      /\ ToSet(enabled(i)) = ToSet(q[i].offers) \ q[i].disabled
  <2> TAKE i \in 1..n
  <2> DEFINE T == Models \ q[i].disabled
  <2>1. q[i].offers \in Seq(Models) /\ ToSet(q[i].offers) \subseteq Models
    BY <1>2 DEF ToSet
  <2>2. enabled(i) = Only(q[i].offers, T)
    OBVIOUS
  <2> HIDE DEF T, enabled
  <2>3. enabled(i) \in Seq(Models) /\ ToSet(enabled(i)) = ToSet(q[i].offers) \cap T
    BY <2>1, <2>2, OnlyShape
  <2> QED
    BY <2>1, <2>3 DEF T
<1>4. list \in Merged(of, (DOMAIN of) \ Wildcards(q))
  BY DEF Aggregated
<1> HIDE DEF enabled
<1>5. \A i \in 1..n : part(i) \in Seq(Models)
  BY <1>2, <1>3
<1>6. \A i \in 1..n : IsWildcard(q[i]) => ToSet(q[i].models) = {}
  BY DEF IsWildcard, ToSet
<1>7. ToSet(<<>>) = {}
  BY DEF ToSet
<1>8. \A i \in 1..n : /\ ToSet(q[i].models) \subseteq ToSet(part(i))
                      /\ ~IsWildcard(q[i]) => ToSet(part(i)) = ToSet(q[i].models)
                      /\ IsWildcard(q[i]) => ToSet(part(i)) \subseteq ToSet(q[i].offers) \ q[i].disabled
  BY <1>3, <1>6, <1>7
<1> HIDE DEF part
<1>9. of \in [1..n -> Seq(Models)] /\ \A i \in 1..n : of[i] = part(i)
  BY <1>1, <1>5
<1> HIDE DEF of, n
<1>10. list \in Seq(Models) /\ ToSet(list) = UNION {ToSet(of[i]) : i \in 1..n}
  BY <1>1, <1>4, <1>9, MergedShape
<1> DEFINE named == UNION {ToSet(q[i].models) : i \in DOMAIN q}
           wild == {j \in DOMAIN q : IsWildcard(q[j])}
           offered == UNION {ToSet(q[i].offers) \ q[i].disabled : i \in wild}
<1>11. ASSUME NEW m \in named
       PROVE  m \in ToSet(list)
  <2>1. PICK i \in 1..n : m \in ToSet(q[i].models)
    BY <1>1
  <2> QED
    BY <1>8, <1>9, <1>10, <2>1
<1>12. ASSUME NEW m \in ToSet(list)
       PROVE  m \in named \cup offered
  <2>1. PICK i \in 1..n : m \in ToSet(part(i))
    BY <1>9, <1>10
  <2>2. CASE IsWildcard(q[i])
    <3>1. i \in wild /\ m \in ToSet(q[i].offers) \ q[i].disabled
      BY <1>1, <1>8, <2>1, <2>2
    <3> QED
      BY <3>1
  <2>3. CASE ~IsWildcard(q[i])
    <3>1. i \in DOMAIN q /\ m \in ToSet(q[i].models)
      BY <1>1, <1>8, <2>1, <2>3
    <3> QED
      BY <3>1
  <2> QED
    BY <2>2, <2>3
<1> QED
  BY <1>10, <1>11, <1>12

LEMMA StoreListSound ==
  ASSUME RequestsSound, ListSound, NEW h \in Handlers, StoreList(h)
  PROVE  RequestsSound'
<1> DEFINE r == req[h]
           end == IF r.ask.endpoint = "models" THEN "list" ELSE "route"
<1>1. r.stage = "fill" /\ r.stage \in Early
  BY DEF StoreList, Early, Stages
<1>2. r \in Rows /\ Prepared(r)
  BY <1>1, EarlyUntouched
<1>3. \E got \in Seq(Models) :
        req' = [req EXCEPT ![h].lists = Append(@, got), ![h].stage = end, ![h].snapshot = <<>>]
  <2> DEFINE kept(list) == IF list # <<>> THEN list ELSE cache.data
  <2>a. PICK failing \in SUBSET Wildcards(r.snapshot) :
          \E list \in Aggregated(r.snapshot, failing) :
            req' = [req EXCEPT
              ![h].lists = Append(@, IF kept(list) = NoList THEN <<>> ELSE kept(list)),
              ![h].stage = end, ![h].snapshot = <<>>]
    BY DEF StoreList
  <2>1. PICK list \in Aggregated(r.snapshot, failing) :
          req' = [req EXCEPT
            ![h].lists = Append(@, IF kept(list) = NoList THEN <<>> ELSE kept(list)),
            ![h].stage = end, ![h].snapshot = <<>>]
    BY <2>a
  <2>2. list \in Seq(Models) /\ cache.data \in Seq(Models) \cup {NoList} /\ <<>> \in Seq(Models)
    BY <1>2, RowFields, AggregatedShape DEF ListSound
  <2> QED
    BY <2>1, <2>2
<1>4. PICK got \in Seq(Models) :
        req' = [req EXCEPT ![h].lists = Append(@, got), ![h].stage = end, ![h].snapshot = <<>>]
  BY <1>3
<1> DEFINE o == [r EXCEPT !.lists = Append(@, got), !.stage = end, !.snapshot = <<>>]
<1>5. req' = [req EXCEPT ![h] = o]
  BY <1>4 DEF RequestsSound
<1>6. end \in Stages /\ end \in {"list", "route"} /\ <<>> \in Seq(ChannelRows)
  BY DEF Stages
<1>a. /\ end = "list" => r.ask.endpoint = "models"
      /\ end = "route" => r.ask.endpoint # "models"
  OBVIOUS
<1> HIDE DEF r, end
<1>7. Append(r.lists, got) \in Seq(Seq(Models))
  BY <1>2, RowFields
<1>8. o \in Rows
  BY <1>2, <1>6, <1>7, Zenon DEF Rows
<1>9. SameChoice(r, o) /\ o.stage = end
  BY <1>2 DEF Rows, SameChoice
<1> HIDE DEF o
<1>10. Prepared(o)
  BY <1>1, <1>2, <1>6, <1>9, <1>a DEF Prepared, SameChoice, ModeOf
<1>11. RequestSound(o)
  BY <1>1, <1>6, <1>8, <1>9, <1>10, LookupSound DEF r
<1> QED
  BY <1>5, <1>11, MovedSound

LEMMA AnswerModelsSound ==
  ASSUME RequestsSound, NEW h \in Handlers, AnswerModels(h)
  PROVE  RequestsSound'
<1> DEFINE r == req[h]
           o == [r EXCEPT !.stage = "done"]
<1>1. r.stage = "list" /\ r.stage \in Early /\ req' = [req EXCEPT ![h].stage = "done"]
  BY DEF AnswerModels, Goto, Early, Stages
<1>2. r \in Rows /\ Prepared(r) /\ "done" \in Stages
  BY <1>1, EarlyUntouched DEF Stages
<1>3. req' = [req EXCEPT ![h] = o]
  BY <1>1 DEF RequestsSound
<1> HIDE DEF r
<1>4. o \in Rows
  BY <1>2, Zenon DEF Rows
<1>5. SameChoice(r, o) /\ o.stage = "done"
  BY <1>2 DEF Rows, SameChoice
<1> HIDE DEF o
<1>6. Prepared(o)
  BY <1>5 DEF Prepared
<1>7. RequestSound(o)
  BY <1>1, <1>4, <1>5, <1>6, LookupSound DEF r
<1> QED
  BY <1>3, <1>7, MovedSound

-----------------------------------------------------------------------------
(* Arrival, routing, the checks and admission *)

LEMMA NoRequestRow ==
  /\ NoRequest \in Rows /\ Untouched(NoRequest)
  /\ NoRequest.stage = "idle" /\ NoRequest.cands = <<>> /\ ~NoRequest.auto
<1> DEFINE some == CHOOSE a \in AllAsks : TRUE
<1>1. some \in AllAsks
  BY RequestsAssumption
<1>2. /\ <<>> \in Seq(Seq(Models)) /\ <<>> \in Seq(ChannelRows) /\ <<>> \in Seq(Names)
      /\ <<>> \in Seq(Outcomes) /\ <<>> \in Seq(Entries) /\ FALSE \in BOOLEAN
      /\ "none" \in {"none", "held", "given back"} /\ "idle" \in Stages /\ NoModel \in Names
  BY DEF Stages, Names
<1> HIDE DEF some
<1>3. NoRequest =
        [stage |-> "idle", ask |-> some, chans |-> <<>>, lists |-> <<>>, snapshot |-> <<>>,
         late |-> FALSE, auto |-> FALSE, cands |-> <<>>, model |-> NoModel, tried |-> <<>>,
         results |-> <<>>, permit |-> "none", entries |-> <<>>]
  BY Zenon DEF NoRequest, some
<1>4. NoRequest \in Rows
  BY <1>1, <1>2, <1>3, Zenon DEF Rows
<1> QED
  BY <1>3, <1>4 DEF Untouched

LEMMA ArriveSound ==
  ASSUME RequestsSound, ListSound, NEW h \in Handlers, NEW ask \in Asks[h], Arrive(h, ask)
  PROVE  RequestsSound'
<1> DEFINE chans == EnabledOnly(table, Protocol(ask))
           model == IF ask.endpoint = "count" THEN ask.model
                    ELSE Aliased(KeyRow[ask.key], ask.model)
           auto == model = AutoModel /\ ask.endpoint \notin {"models", "count"}
           cands == IF auto THEN <<>> ELSE <<model>>
           stage == CASE ask.endpoint = "models" -> "list"
                      [] ask.endpoint = "count" -> "count"
                      [] auto /\ KeyRow[ask.key].mode \notin AutoModes -> "done"
                      [] auto /\ KeyRow[ask.key].mode \in AutoModes -> "route"
                      [] OTHER -> "check"
           o == [NoRequest EXCEPT !.ask = ask, !.chans = chans, !.auto = auto,
                                  !.cands = cands, !.model = model, !.stage = stage]
<1>1. req' = [req EXCEPT ![h] = o]
  BY DEF Arrive
<1>2. ask \in AllAsks
  BY DEF AllAsks
<1>3. ask.model \in Names /\ ask.key \in Keys /\ ask.endpoint \in Endpoints
      /\ KeyRow[ask.key] \in KeyRows
  BY <1>2, RequestsAssumption
<1>4. model \in Names
  <2>1. KeyRow[ask.key].alias \in UNION {[S -> Models] : S \in SUBSET Models}
    BY <1>3 DEF KeyRows
  <2>2. \A m \in DOMAIN KeyRow[ask.key].alias : KeyRow[ask.key].alias[m] \in Models
    BY <2>1
  <2> QED
    BY <1>3, <2>2 DEF Aliased, Names
<1>5. chans \in Seq(ChannelRows)
  <2>1. table \in Seq(ChannelRows)
    BY RequestsAssumption DEF ListSound
  <2> QED
    BY <2>1, EnabledShape
<1>6. cands \in Seq(Names) /\ auto \in BOOLEAN
      /\ (auto => cands = <<>>) /\ (~auto => cands = <<model>>)
  <2> HIDE DEF model
  <2> QED
    BY <1>4
<1>7. /\ stage \in Stages /\ stage \in Early \cup {"done"} /\ stage \notin {"idle", "fill", "admit", "try", "reply"}
      /\ stage = "list" => ask.endpoint = "models"
      /\ stage = "route" => ask.endpoint # "models" /\ auto /\ KeyRow[ask.key].mode \in AutoModes
      /\ stage = "count" => ask.endpoint = "count" /\ ~auto
      /\ stage = "check" => ~auto
  <2> HIDE DEF model, auto
  <2>2. ask.endpoint \in {"models", "count"} => ~auto
    BY DEF auto
  <2>1. /\ stage \in {"list", "count", "done", "route", "check"}
        /\ stage = "list" => ask.endpoint = "models"
        /\ stage = "route" => ask.endpoint # "models" /\ auto /\ KeyRow[ask.key].mode \in AutoModes
        /\ stage = "count" => ask.endpoint = "count"
        /\ stage = "check" => ask.endpoint # "count" /\ ~auto
    <3>1. CASE ask.endpoint = "models"
      BY <2>2, <3>1
    <3>2. CASE ask.endpoint = "count"
      BY <2>2, <3>2
    <3>3. CASE ask.endpoint \notin {"models", "count"} /\ auto
      <4>1. KeyRow[ask.key].mode \in AutoModes => stage = "route"
        BY <3>3
      <4>2. KeyRow[ask.key].mode \notin AutoModes => stage = "done"
        BY <3>3
      <4> HIDE DEF stage
      <4> QED
        BY <3>3, <4>1, <4>2
    <3>4. CASE ask.endpoint \notin {"models", "count"} /\ ~auto
      BY <3>4
    <3> QED
      BY <3>1, <3>2, <3>3, <3>4
  <2> HIDE DEF stage
  <2> QED
    BY <2>1, <2>2 DEF Stages, Early
<1> HIDE DEF chans, model, auto, cands, stage
<1>8. NoRequest \in Rows /\ Untouched(NoRequest)
  BY NoRequestRow
<1>10. o \in Rows
  BY <1>2, <1>4, <1>5, <1>6, <1>7, <1>8, Zenon DEF Rows
<1>11. /\ o.stage = stage /\ o.ask = ask /\ o.auto = auto /\ o.cands = cands /\ o.model = model
       /\ Untouched(o)
  <2> HIDE DEF NoRequest
  <2> QED
    BY <1>8 DEF Rows, Untouched
<1> HIDE DEF o
<1>12. Prepared(o)
  BY <1>6, <1>7, <1>11 DEF Prepared, ModeOf
<1>13. Suited(o)
  BY <1>7, <1>11 DEF Suited, Untouched, ToSet
<1>14. Arranged(o)
  BY <1>6, <1>11 DEF Arranged
<1>15. RequestSound(o)
  BY <1>7, <1>10, <1>11, <1>12, <1>13, <1>14, EarlySound
<1> QED
  BY <1>1, <1>15, MovedSound

\* A handler that gives up before it has tried anything.
LEMMA DoneSound ==
  ASSUME RequestsSound, NEW h \in Handlers, req[h].stage \in Early, Goto(h, "done")
  PROVE  RequestsSound'
<1> DEFINE r == req[h]
           o == [r EXCEPT !.stage = "done"]
<1>1. r \in Rows /\ Prepared(r) /\ "done" \in Stages /\ req' = [req EXCEPT ![h].stage = "done"]
  BY EarlyUntouched DEF Stages, Goto
<1>2. req' = [req EXCEPT ![h] = o]
  BY <1>1 DEF RequestsSound
<1> HIDE DEF r
<1>3. o \in Rows
  BY <1>1, Zenon DEF Rows
<1>4. SameChoice(r, o) /\ o.stage = "done"
  BY <1>1 DEF Rows, SameChoice
<1> HIDE DEF o
<1>5. Prepared(o)
  BY <1>4 DEF Prepared
<1>6. RequestSound(o)
  BY <1>3, <1>4, <1>5, LookupSound DEF r
<1> QED
  BY <1>2, <1>6, MovedSound

\* The models that are surely available are among the candidates.
LEMMA CertainServed ==
  ASSUME NEW r \in Rows, NEW lists \in Seq(Seq(Models)),
         Len(lists) >= Cardinality(Wildcards(r.chans)),
         NEW served \in ServedModels(r.chans, lists)
  PROVE  LET cands == AutoCandidates(KeyRow[r.ask.key], served)
         IN  /\ cands \in Seq(Models) /\ Certain(r) \subseteq ToSet(cands)
             /\ \A m \in ToSet(cands) : Fit(r, m)
<1> DEFINE key == KeyRow[r.ask.key]
           cands == AutoCandidates(key, served)
<1>1. key \in KeyRows /\ r.chans \in Seq(ChannelRows)
  BY RowFields
<1>2. /\ served \in Seq(Models)
      /\ \A m \in ToSet(served) : \E c \in ToSet(r.chans) : Serves(c, m)
      /\ \A i \in DOMAIN r.chans : ToSet(r.chans[i].models) \ r.chans[i].disabled \subseteq ToSet(served)
  BY <1>1, ServedShape
<1>3. /\ cands \in Seq(Models)
      /\ ToSet(cands) = {m \in ToSet(served) :
                           Allows(key, m) /\ (PoolOf(key) = <<>> \/ m \in ToSet(PoolOf(key)))}
  BY <1>1, <1>2, CandidatesShape
<1>4. PoolOf(key) \in Seq(Models)
  BY <1>1 DEF PoolOf, KeyRows
<1>5. \A m \in Certain(r) : /\ m \in ToSet(served) /\ Allows(key, m)
                            /\ PoolOf(key) = <<>> \/ Contains(PoolOf(key), m)
  BY <1>2 DEF Certain, PoolOf
<1>6. Certain(r) \subseteq ToSet(cands)
  BY <1>3, <1>4, <1>5, ContainsElement
<1>7. ASSUME NEW m \in ToSet(cands)
      PROVE  Fit(r, m)
  <2>1. m \in ToSet(served) /\ Allows(key, m)
    BY <1>3
  <2>2. m # NoModel
    BY <1>2, <2>1, AutoRouteAssumption DEF ToSet
  <2>3. FilterByModel(r.chans, m) # <<>>
    BY <1>1, <1>2, <2>1, <2>2, FilterShape
  <2> QED
    BY <2>1, <2>3 DEF Fit
<1> QED
  BY <1>3, <1>6, <1>7

LEMMA RouteSound ==
  ASSUME RequestsSound, NEW h \in Handlers, NEW task \in Tasks, NEW latency \in Latencies,
         rr \in [Keys -> Nat], Route(h, task, latency)
  PROVE  /\ RequestsSound'
         /\ rr' = rr \/ (req[h].cands = <<>> /\ req'[h].cands # <<>>)
         /\ \A g \in Handlers : g # h => req'[g] = req[g]
         /\ req'[h].stage # "fill"
<1> DEFINE r == req[h]
           key == KeyRow[r.ask.key]
           lists == IF Protocol(r.ask) = "openai" THEN r.lists
                    ELSE [i \in 1..Cardinality(Wildcards(r.chans)) |-> <<>>]
           cands(served) == AutoCandidates(key, served)
           ordered(served) == AutoOrdered(key, cands(served), rr[r.ask.key], Signal(r.ask, task), latency)
<1>1. r.stage = "route" /\ r.stage \in Early /\ ~NeedsList(r)
  BY DEF Route, Early, Stages
<1>2. /\ r \in Rows /\ Untouched(r) /\ Prepared(r) /\ r \in Rows
      /\ r.auto /\ r.cands = <<>> /\ key.mode \in AutoModes
  BY <1>1, EarlyUntouched DEF Prepared, ModeOf
<1>3. key \in KeyRows /\ r.ask.key \in Keys /\ r.lists \in Seq(Seq(Models)) /\ r.chans \in Seq(ChannelRows)
  BY <1>2, RowFields
<1>4. Cardinality(Wildcards(r.chans)) \in Nat
  <2>1. Wildcards(r.chans) \in SUBSET DOMAIN r.chans
    BY DEF Wildcards
  <2> QED
    BY <1>3, <2>1, FilterType
<1>5. lists \in Seq(Seq(Models)) /\ Len(lists) >= Cardinality(Wildcards(r.chans))
  <2>1. CASE Protocol(r.ask) = "openai"
    <3>1. ListsWanted(r) = Cardinality(Wildcards(r.chans))
      BY <1>1, <1>2, <2>1 DEF ListsWanted, Prepared
    <3>2. ~(Len(r.lists) < ListsWanted(r))
      BY <1>1 DEF NeedsList
    <3> QED
      BY <1>3, <1>4, <2>1, <3>1, <3>2
  <2>2. CASE Protocol(r.ask) # "openai"
    <3> DEFINE c == Cardinality(Wildcards(r.chans))
    <3>1. <<>> \in Seq(Models)
      OBVIOUS
    <3>2. lists = [i \in 1..c |-> <<>>]
      BY <2>2
    <3> HIDE DEF c, lists
    <3>3. c \in Nat
      BY <1>4 DEF c
    <3>4. lists \in [1..c -> Seq(Models)]
      BY <3>1, <3>2
    <3>5. lists \in Seq(Seq(Models)) /\ Len(lists) = c
      BY <3>3, <3>4
    <3> QED
      BY <3>3, <3>5 DEF c
  <2> QED
    BY <2>1, <2>2
<1> HIDE DEF lists
<1>6. PICK served \in ServedModels(r.chans, lists) :
        IF cands(served) = <<>>
        THEN Goto(h, "done") /\ UNCHANGED rr
        ELSE req' = [req EXCEPT ![h].stage = "check", ![h].lists = <<>>,
                                ![h].cands = ordered(served), ![h].model = Head(ordered(served))]
  BY DEF Route, lists
<1>7. /\ cands(served) \in Seq(Models) /\ Certain(r) \subseteq ToSet(cands(served))
      /\ \A m \in ToSet(cands(served)) : Fit(r, m)
  BY <1>2, <1>5, CertainServed
<1>8. CASE cands(served) = <<>>
  <2>1. Goto(h, "done") /\ rr' = rr
    BY <1>6, <1>8
  <2>2. RequestsSound'
    BY <1>1, <2>1, DoneSound
  <2>3. /\ \A g \in Handlers : g # h => req'[g] = req[g]
        /\ req'[h].stage = "done"
    BY <1>2, <2>1 DEF Goto, RequestsSound, Rows
  <2> QED
    BY <2>1, <2>2, <2>3
<1>9. CASE cands(served) # <<>>
  <2> DEFINE q == ordered(served)
             o == [r EXCEPT !.stage = "check", !.lists = <<>>, !.cands = q, !.model = Head(q)]
  <2>1. req' = [req EXCEPT ![h].stage = "check", ![h].lists = <<>>, ![h].cands = q,
                           ![h].model = Head(q)]
    BY <1>6, <1>9
  <2>2. /\ q \in Seq(Models) /\ q # <<>> /\ ToSet(q) \subseteq ToSet(cands(served))
        /\ key.mode = "priority" =>
             /\ ToSet(q) = ToSet(cands(served))
             /\ \A m \in ToSet(cands(served)) : \A n : Before(key.prio, m, n) => Before(q, m, n)
    <3>1. DOMAIN latency \subseteq Models /\ latency \in [DOMAIN latency -> Nat]
      BY RequestsAssumption
    <3>2. rr[r.ask.key] \in Nat
      BY <1>3
    <3> HIDE DEF cands, key
    <3> QED
      BY <1>2, <1>3, <1>7, <1>9, <3>1, <3>2, OrderedShape
  <2> HIDE DEF q, cands, ordered
  <2>3. /\ q \in Seq(Names) /\ Head(q) \in Names /\ Head(q) = q[1] /\ Len(q) \in Nat \ {0}
        /\ "check" \in Stages /\ <<>> \in Seq(Seq(Models))
    <3>1. q \in Seq(Names)
      BY <2>2 DEF Names
    <3> QED
      BY <2>2, <3>1, HeadElement DEF Stages
  <2>4. req' = [req EXCEPT ![h] = o]
    BY <2>1 DEF RequestsSound
  <2> HIDE DEF r, key
  <2>5. o \in Rows
    BY <1>2, <2>3, Zenon DEF Rows
  <2>6. /\ o.stage = "check" /\ o.ask = r.ask /\ o.chans = r.chans /\ o.auto = r.auto
        /\ o.cands = q /\ o.model = q[1] /\ Untouched(o)
    BY <1>2, <2>3 DEF Rows, Untouched
  <2> HIDE DEF o
  <2>7. Certain(o) = Certain(r) /\ \A m : Fit(o, m) <=> Fit(r, m)
    BY <2>6, SameCertain
  <2>8. Prepared(o)
    BY <1>2, <2>2, <2>6 DEF Prepared
  <2>9. Suited(o)
    <3>1. ToSet(o.tried) = {}
      BY <2>6 DEF Untouched, ToSet
    <3>2. \A m \in ToSet(o.cands) : Fit(o, m)
      BY <1>7, <2>2, <2>6, <2>7
    <3> QED
      BY <3>1, <3>2 DEF Suited
  <2>10. Arranged(o)
    <3>1. ModeOf(o) = key.mode /\ KeyRow[o.ask.key].prio = key.prio
      BY <2>6 DEF ModeOf, key
    <3> QED
      BY <1>7, <2>2, <2>6, <2>7, <3>1 DEF Arranged
  <2>11. RequestSound(o)
    BY <2>5, <2>6, <2>8, <2>9, <2>10, EarlySound DEF Early, Stages
  <2>12. RequestsSound'
    BY <2>4, <2>11, MovedSound
  <2>13. req'[h] = o /\ \A g \in Handlers : g # h => req'[g] = req[g]
    BY <2>4 DEF RequestsSound
  <2> QED
    BY <1>2, <2>2, <2>6, <2>12, <2>13 DEF r
<1> QED
  BY <1>8, <1>9

LEMMA CheckSound ==
  ASSUME RequestsSound, NEW h \in Handlers, Check(h)
  PROVE  RequestsSound'
<1> DEFINE r == req[h]
           converts == r.ask.endpoint # "responses" \/ r.ask.sound
           stage == IF converts /\ Served(r) /\ Permitted(r) THEN "admit" ELSE "done"
           chans == IF r.auto THEN r.chans ELSE FilterByModel(r.chans, r.model)
           o == [r EXCEPT !.stage = stage, !.chans = chans]
<1>1. /\ r.stage = "check" /\ r.stage \in Early
      /\ req' = [req EXCEPT ![h].stage = stage,
                            ![h].chans = IF r.auto THEN @ ELSE FilterByModel(@, r.model)]
  BY DEF Check, Early, Stages
<1>2. /\ r \in Rows /\ Untouched(r) /\ Prepared(r) /\ Suited(r) /\ Arranged(r)
      /\ r.cands # <<>> /\ r.model = r.cands[1] /\ (~r.auto => Len(r.cands) = 1)
  BY <1>1, EarlyUntouched DEF Prepared
<1>3. req' = [req EXCEPT ![h] = o]
  BY <1>1 DEF RequestsSound
<1>4. r.chans \in Seq(ChannelRows) /\ r.cands \in Seq(Names)
  BY <1>2, RowFields
<1>5. chans \in Seq(ChannelRows) /\ stage \in Stages /\ stage \in {"admit", "done"}
  BY <1>4, FilterShape DEF Stages
<1> DEFINE pass == converts /\ Served(r) /\ Permitted(r)
<1>6. stage = "admit" => pass
  OBVIOUS
<1>7. (r.auto => chans = r.chans) /\ (~r.auto => chans = FilterByModel(r.chans, r.model))
  OBVIOUS
<1> HIDE DEF r, chans, stage
<1>8. o \in Rows
  BY <1>2, <1>5, Zenon DEF Rows
<1>9. /\ o.stage = stage /\ o.chans = chans /\ o.ask = r.ask /\ o.auto = r.auto
      /\ o.cands = r.cands /\ o.model = r.model /\ Untouched(o)
  BY <1>2 DEF Rows, Untouched
<1> HIDE DEF o
<1>10. Prepared(o)
  BY <1>2, <1>5, <1>6, <1>9 DEF Prepared
<1>11. r.auto => Arranged(o)
  <2> SUFFICES ASSUME r.auto PROVE Arranged(o)
    OBVIOUS
  <2>1. Certain(o) = Certain(r)
    BY <1>7, <1>9, SameCertain
  <2> QED
    BY <1>2, <1>9, <2>1 DEF Arranged, ModeOf
<1>12. ~r.auto => Arranged(o)
  BY <1>9 DEF Arranged
<1>13. Suited(o)
  <2>1. ToSet(o.tried) = {}
    BY <1>9 DEF Untouched, ToSet
  <2>2. ASSUME stage = "admit", NEW m \in ToSet(o.cands)
        PROVE  Fit(o, m)
    <3>1. CASE r.auto
      <4>1. Fit(r, m)
        BY <1>1, <1>2, <1>9, <2>2, <3>1 DEF Suited
      <4> QED
        BY <1>7, <1>9, <3>1, <4>1, SameCertain
    <3>2. CASE ~r.auto
      <4>1. ToSet(r.cands) = {r.model}
        BY <1>2, <1>4, <3>2 DEF ToSet
      <4>2. m = r.model
        BY <1>9, <2>2, <4>1
      <4>3. FilterByModel(r.chans, m) # <<>>
        BY <1>6, <2>2, <4>1, <4>2 DEF Served
      <4>4. FilterByModel(o.chans, m) # <<>>
        BY <1>4, <1>7, <1>9, <3>2, <4>2, <4>3, FilterShape
      <4>5. Permitted(r)
        BY <1>6, <2>2
      <4> QED
        BY <1>9, <4>2, <4>4, <4>5 DEF Fit, Permitted
    <3> QED
      BY <3>1, <3>2
  <2> QED
    BY <1>5, <1>9, <2>1, <2>2 DEF Suited
<1>14. RequestSound(o)
  BY <1>5, <1>8, <1>9, <1>10, <1>11, <1>12, <1>13, EarlySound DEF Early, Stages
<1> QED
  BY <1>3, <1>14, MovedSound

-----------------------------------------------------------------------------
(* Admission, the candidates in turn, and the reply *)

LEMMA AdmitSound ==
  ASSUME RequestsSound, NEW h \in Handlers, Admit(h)
  PROVE  RequestsSound'
<1> DEFINE r == req[h]
           o == [r EXCEPT !.stage = "try", !.permit = "held"]
<1>1. r.stage = "admit" /\ r.stage \in Early
  BY DEF Admit, Early, Stages
<1>2. CASE Goto(h, "done")
  BY <1>1, <1>2, DoneSound
<1>3. CASE req' = [req EXCEPT ![h].stage = "try", ![h].permit = "held"]
  <2>1. /\ r \in Rows /\ Untouched(r) /\ Prepared(r) /\ Suited(r) /\ Arranged(r)
        /\ "try" \in Stages /\ "held" \in {"none", "held", "given back"}
    BY <1>1, EarlyUntouched DEF Stages
  <2>2. req' = [req EXCEPT ![h] = o]
    BY <1>3 DEF RequestsSound
  <2> HIDE DEF r
  <2>3. o \in Rows
    BY <2>1, Zenon DEF Rows
  <2>4. /\ o.stage = "try" /\ o.permit = "held" /\ o.ask = r.ask /\ o.chans = r.chans
        /\ o.auto = r.auto /\ o.cands = r.cands /\ o.model = r.model
        /\ o.tried = <<>> /\ o.results = <<>> /\ o.entries = <<>>
    BY <2>1 DEF Rows, Untouched
  <2> HIDE DEF o
  <2>5. Prepared(o) /\ Logged(o)
    BY <1>1, <2>1, <2>4 DEF Prepared, Logged
  <2>6. o.cands # <<>> /\ Len(o.cands) \in Nat \ {0}
    <3>1. o.cands # <<>> /\ o.cands \in Seq(Names)
      BY <2>3, <2>4, <2>5, RowFields DEF Prepared
    <3> QED
      BY <3>1, HeadElement
  <2>7. Tracked(o)
    BY <2>4, <2>6 DEF Tracked
  <2>8. Stopped(o)
    BY <2>4 DEF Stopped
  <2>9. Certain(o) = Certain(r) /\ \A m : Fit(o, m) <=> Fit(r, m)
    BY <2>4, SameCertain
  <2>10. Suited(o)
    <3>1. ToSet(o.tried) = {}
      BY <2>4 DEF ToSet
    <3>2. \A m \in ToSet(o.cands) : Fit(o, m)
      BY <1>1, <2>1, <2>4, <2>9 DEF Suited, r
    <3> QED
      BY <3>1, <3>2 DEF Suited
  <2>11. Arranged(o)
    BY <2>1, <2>4, <2>9 DEF Arranged, ModeOf
  <2>12. RequestSound(o)
    BY <2>3, <2>5, <2>7, <2>8, <2>10, <2>11 DEF RequestSound
  <2> QED
    BY <2>2, <2>12, MovedSound
<1> QED
  BY <1>2, <1>3 DEF Admit

\* One more candidate with its result.
OneMore(r, o, outcome) ==
  LET n == Len(r.tried) + 1
  IN  /\ o.ask = r.ask /\ o.chans = r.chans /\ o.auto = r.auto /\ o.cands = r.cands
      /\ o.entries = r.entries /\ o.permit = r.permit
      /\ n \in 1..Len(o.cands) /\ Len(o.tried) = n /\ Len(o.results) = n
      /\ \A i \in 1..n : o.tried[i] = o.cands[i]
      /\ ToSet(o.tried) = ToSet(r.tried) \cup {o.cands[n]}
      /\ \A i \in 1..(n - 1) : o.results[i] = r.results[i]
      /\ o.results[n] = outcome

LEMMA TriedShape ==
  ASSUME RequestsSound, NEW h \in Handlers, NEW model \in Names, NEW outcome \in Outcomes,
         NEW stage \in Stages, Len(req[h].tried) < Len(req[h].cands),
         Tried(h, model, outcome, stage)
  PROVE  \E o \in Rows : /\ req' = [req EXCEPT ![h] = o] /\ o.stage = stage /\ o.model = model
                         /\ OneMore(req[h], o, outcome)
<1> DEFINE r == req[h]
           n == Len(r.tried) + 1
           m == r.cands[n]
           o == [r EXCEPT !.model = model, !.tried = Append(@, m),
                          !.results = Append(@, outcome), !.stage = stage]
<1>1. r \in Rows /\ Tracked(r)
  BY DEF RequestsSound, RequestSound
<1>2. /\ r.tried \in Seq(Names) /\ r.results \in Seq(Outcomes) /\ r.cands \in Seq(Names)
      /\ Len(r.tried) = Len(r.results) /\ \A i \in 1..Len(r.tried) : r.tried[i] = r.cands[i]
  BY <1>1, RowFields DEF Tracked
<1>3. n \in 1..Len(r.cands) /\ m \in Names
  BY <1>2
<1>4. req' = [req EXCEPT ![h] = o]
  BY DEF Tried, RequestsSound
<1> DEFINE tried == Append(r.tried, m)
           results == Append(r.results, outcome)
<1>5. /\ tried \in Seq(Names) /\ Len(tried) = n /\ tried[n] = m
      /\ \A i \in 1..(n - 1) : tried[i] = r.tried[i]
      /\ ToSet(tried) = ToSet(r.tried) \cup {m}
  <2> HIDE DEF m
  <2> QED
    BY <1>2, <1>3, AppendShape
<1>6. /\ results \in Seq(Outcomes) /\ Len(results) = n /\ results[n] = outcome
      /\ \A i \in 1..(n - 1) : results[i] = r.results[i]
  BY <1>2, AppendShape
<1>7. \A i \in 1..n : tried[i] = r.cands[i]
  <2> HIDE DEF tried
  <2>1. n - 1 = Len(r.tried)
    BY <1>2
  <2>2. \A i \in 1..n : i \in 1..(n - 1) \/ i = n
    BY <1>3
  <2> HIDE DEF n
  <2> QED
    BY <1>2, <1>5, <2>1, <2>2
<1>8. o = [r EXCEPT !.model = model, !.tried = tried, !.results = results, !.stage = stage]
  BY <1>1 DEF Rows
<1> HIDE DEF o, tried, results, r, n, m
<1>9. o \in Rows
  BY <1>1, <1>5, <1>6, <1>8, Zenon DEF Rows
<1>10. /\ o.stage = stage /\ o.model = model /\ o.tried = tried /\ o.results = results
       /\ o.ask = r.ask /\ o.chans = r.chans /\ o.auto = r.auto /\ o.cands = r.cands
       /\ o.entries = r.entries /\ o.permit = r.permit
  BY <1>1, <1>8 DEF Rows
<1>11. m = o.cands[n]
  BY <1>10 DEF m
<1> QED
  <2>1. OneMore(r, o, outcome)
    BY <1>3, <1>5, <1>6, <1>7, <1>10, <1>11 DEF OneMore, n
  <2> QED
    BY <1>4, <1>9, <1>10, <2>1 DEF r

LEMMA CountTokensSound ==
  ASSUME RequestsSound, NEW h \in Handlers, CountTokens(h)
  PROVE  RequestsSound'
<1> DEFINE r == req[h]
<1>1. r.stage = "count" /\ r.stage \in Early
  BY DEF CountTokens, Early, Stages
<1>2. CASE Goto(h, "done")
  BY <1>1, <1>2, DoneSound
<1>3. CASE /\ FilterByModel(r.chans, r.model) # <<>>
           /\ \E outcome \in Outcomes : Tried(h, r.model, outcome, "done")
  <2>1. /\ r \in Rows /\ Untouched(r) /\ Prepared(r) /\ Arranged(r)
        /\ r.ask.endpoint = "count" /\ ~r.auto /\ r.cands = <<r.model>>
    BY <1>1, EarlyUntouched DEF Prepared
  <2>2. PICK outcome \in Outcomes : Tried(h, r.model, outcome, "done")
    BY <1>3
  <2>3. /\ Len(r.tried) = 0 /\ Len(r.cands) = 1 /\ r.model \in Names /\ "done" \in Stages
        /\ r.cands[1] = r.model /\ ToSet(r.tried) = {}
    BY <2>1, RowFields DEF Untouched, Stages, ToSet
  <2>a. Len(r.tried) < Len(r.cands)
    BY <2>3
  <2>4. PICK o \in Rows : /\ req' = [req EXCEPT ![h] = o] /\ o.stage = "done" /\ o.model = r.model
                         /\ OneMore(r, o, outcome)
    BY <2>2, <2>3, <2>a, TriedShape
  <2>b. /\ o.ask = r.ask /\ o.chans = r.chans /\ o.auto = r.auto /\ o.cands = r.cands
        /\ o.entries = r.entries /\ o.permit = r.permit
        /\ Len(o.tried) = 1 /\ Len(o.results) = 1
        /\ o.tried[1] = o.cands[1] /\ ToSet(o.tried) = {o.cands[1]}
    <3> HIDE DEF r
    <3> QED
      BY <2>3, <2>4 DEF OneMore
  <2> HIDE DEF r
  <2>5. Prepared(o) /\ Arranged(o)
    BY <2>1, <2>4, <2>b DEF Prepared, Arranged
  <2>6. Tracked(o)
    BY <2>1, <2>3, <2>4, <2>b DEF Tracked, Untouched
  <2>7. Logged(o)
    BY <2>1, <2>4, <2>b DEF Logged, Untouched
  <2>8. Stopped(o)
    BY <2>3, <2>4, <2>b DEF Stopped
  <2>9. Suited(o)
    BY <1>3, <2>1, <2>3, <2>4, <2>b DEF Suited, Fit, r
  <2>10. RequestSound(o)
    BY <2>5, <2>6, <2>7, <2>8, <2>9 DEF RequestSound
  <2> QED
    BY <2>4, <2>10, MovedSound
<1> QED
  BY <1>2, <1>3 DEF CountTokens, Outcomes

LEMMA TryModelSound ==
  ASSUME RequestsSound, NEW h \in Handlers, NEW outcome \in Outcomes, TryModel(h, outcome)
  PROVE  RequestsSound'
<1> DEFINE r == req[h]
           n == Len(r.tried) + 1
           stage == IF outcome = "ok" \/ n = Len(r.cands) THEN "reply" ELSE "try"
<1>1. /\ RequestSound(r) /\ r \in Rows /\ r.stage = "try"
      /\ ~(r.ask.endpoint = "responses" /\ ~r.ask.sound)
  BY DEF TryModel, RequestsSound, RequestSound, Prepared
<1>2. Tried(h, r.cands[n], outcome, stage)
  BY <1>1 DEF TryModel
<1>3. /\ Len(r.tried) < Len(r.cands) /\ r.entries = <<>> /\ r.permit = "held"
      /\ r.tried \in Seq(Names) /\ r.cands \in Seq(Names) /\ Len(r.results) = Len(r.tried)
  BY <1>1, RowFields DEF RequestSound, Tracked
<1>4. r.cands[n] \in Names /\ stage \in Stages /\ stage \in {"try", "reply"}
  BY <1>3 DEF Stages
<1>a. PICK o \in Rows : /\ req' = [req EXCEPT ![h] = o] /\ o.stage = stage /\ o.model = r.cands[n]
                       /\ OneMore(r, o, outcome)
  <2> HIDE DEF stage
  <2> QED
    BY <1>2, <1>3, <1>4, TriedShape
<1>5. /\ req' = [req EXCEPT ![h] = o]
      /\ o.stage = stage /\ o.model = r.cands[n]
      /\ o.ask = r.ask /\ o.chans = r.chans /\ o.auto = r.auto /\ o.cands = r.cands
      /\ o.entries = r.entries /\ o.permit = r.permit
      /\ n \in 1..Len(o.cands) /\ Len(o.tried) = n /\ Len(o.results) = n
      /\ \A i \in 1..n : o.tried[i] = o.cands[i]
      /\ ToSet(o.tried) = ToSet(r.tried) \cup {o.cands[n]}
      /\ \A i \in 1..(n - 1) : o.results[i] = r.results[i]
      /\ o.results[n] = outcome
  <2> HIDE DEF stage
  <2> QED
    BY <1>a DEF OneMore
<1>6. n - 1 = Len(r.results) /\ n \in Nat
  BY <1>3
<1>7. stage = "try" => outcome # "ok" /\ n # Len(r.cands)
  OBVIOUS
<1>8. stage = "reply" => outcome = "ok" \/ n = Len(r.cands)
  OBVIOUS
<1> HIDE DEF r, n, stage
<1>9. Prepared(o)
  BY <1>1, <1>4, <1>5 DEF RequestSound, Prepared
<1>10. Tracked(o)
  <2>1. stage = "try" => n < Len(o.cands)
    BY <1>5, <1>6, <1>7
  <2>2. o.tried # <<>>
    BY <1>5
  <2> QED
    BY <1>3, <1>4, <1>5, <2>1, <2>2 DEF Tracked
<1>11. Logged(o)
  BY <1>4, <1>5 DEF Logged
<1>12. Certain(o) = Certain(r) /\ \A m : Fit(o, m) <=> Fit(r, m)
  BY <1>5, SameCertain
<1>13. Suited(o)
  <2>1. /\ \A m \in ToSet(r.tried) : Fit(r, m)
        /\ \A m \in ToSet(r.cands) : Fit(r, m)
    BY <1>1 DEF RequestSound, Suited
  <2>2. o.cands[n] \in ToSet(r.cands)
    BY <1>3, <1>5 DEF ToSet
  <2> QED
    BY <1>4, <1>5, <1>12, <2>1, <2>2 DEF Suited
<1>14. Stopped(o)
  <2>1. \A i \in 1..(n - 1) : r.results[i] # "ok"
    BY <1>1, <1>6 DEF RequestSound, Stopped
  <2>2. \A i \in 1..(n - 1) : o.results[i] # "ok"
    BY <1>5, <2>1
  <2>3. \A i \in 1..n : i \in 1..(n - 1) \/ i = n
    BY <1>6
  <2>4. stage = "try" => \A i \in 1..n : o.results[i] # "ok"
    BY <1>5, <1>7, <2>2, <2>3
  <2>5. stage = "reply" => o.results[n] = "ok" \/ n = Len(o.cands)
    BY <1>5, <1>8
  <2> QED
    BY <1>4, <1>5, <2>2, <2>4, <2>5 DEF Stopped
<1>15. Arranged(o)
  BY <1>1, <1>5, <1>12 DEF RequestSound, Arranged, ModeOf
<1>16. RequestSound(o)
  BY <1>9, <1>10, <1>11, <1>13, <1>14, <1>15 DEF RequestSound
<1> QED
  BY <1>5, <1>16, MovedSound

LEMMA ConcludedSound ==
  ASSUME RequestsSound, NEW h \in Handlers, req[h].stage = "reply",
         NEW status \in {"ok", "bad", "failed"}, Concluded(h, status),
         status \in {"ok", "bad"} => status = Last(req[h].results)
  PROVE  RequestsSound'
<1> DEFINE r == req[h]
           e == Entry(r.model, status)
           o == [r EXCEPT !.stage = "done", !.permit = "given back", !.entries = Append(@, e)]
<1>1. RequestSound(r) /\ r \in Rows
  BY DEF RequestsSound, RequestSound
<1>2. /\ r.entries = <<>> /\ r.tried # <<>> /\ r.model = r.tried[Len(r.tried)]
      /\ r.model \in Names /\ r.entries \in Seq(Entries) /\ r.cands # <<>>
  BY <1>1, RowFields DEF RequestSound, Tracked, Prepared
<1>3. e \in Entries /\ e.model = r.model /\ e.status = status
  BY <1>2 DEF Entry, Entries
<1>4. req' = [req EXCEPT ![h] = o]
  BY DEF Concluded, RequestsSound
<1> DEFINE entries == Append(r.entries, e)
<1>5. entries \in Seq(Entries) /\ Len(entries) = 1 /\ entries[1] = e
  <2> HIDE DEF e
  <2> QED
    BY <1>2, <1>3
<1>6. "done" \in Stages /\ "given back" \in {"none", "held", "given back"}
  BY DEF Stages
<1>7. o = [r EXCEPT !.stage = "done", !.permit = "given back", !.entries = entries]
  BY <1>1 DEF Rows
<1> HIDE DEF o, entries, r, e
<1>8. o \in Rows
  BY <1>1, <1>5, <1>6, <1>7, Zenon DEF Rows
<1>9. /\ o.stage = "done" /\ o.permit = "given back" /\ o.entries = entries
      /\ o.ask = r.ask /\ o.chans = r.chans /\ o.auto = r.auto /\ o.cands = r.cands
      /\ o.tried = r.tried /\ o.results = r.results
  BY <1>1, <1>7 DEF Rows
<1>10. Prepared(o)
  BY <1>9 DEF Prepared
<1>11. Tracked(o)
  BY <1>1, <1>9 DEF RequestSound, Tracked
<1>12. Logged(o)
  BY <1>2, <1>3, <1>5, <1>9 DEF Logged, Last, r
<1>13. Certain(o) = Certain(r) /\ \A m : Fit(o, m) <=> Fit(r, m)
  BY <1>9, SameCertain
<1>14. Suited(o) /\ Arranged(o)
  BY <1>1, <1>9, <1>13 DEF RequestSound, Suited, Arranged, ModeOf
<1>15. Stopped(o)
  <2>1. r.stage = "reply"
    BY DEF r
  <2> QED
    BY <1>1, <1>9, <2>1 DEF RequestSound, Stopped
<1>16. RequestSound(o)
  BY <1>8, <1>10, <1>11, <1>12, <1>14, <1>15 DEF RequestSound
<1> QED
  BY <1>4, <1>16, MovedSound

LEMMA ReplySound ==
  ASSUME RequestsSound, NEW h \in Handlers, ReplyNothing(h) \/ ReplyResponse(h) \/ ReplySpoilt(h)
  PROVE  RequestsSound'
<1>1. RequestSound(req[h]) /\ req[h].stage = "reply"
  BY DEF RequestsSound, ReplyNothing, ReplyResponse, ReplySpoilt
<1>2. Last(req[h].results) \in Outcomes
  <2>1. /\ req[h].results \in Seq(Outcomes) /\ req[h].tried \in Seq(Names)
        /\ req[h].tried # <<>> /\ Len(req[h].results) = Len(req[h].tried)
    BY <1>1, RowFields DEF RequestSound, Tracked
  <2> QED
    BY <2>1 DEF Last
<1>3. CASE ReplyNothing(h)
  BY <1>1, <1>3, ConcludedSound DEF ReplyNothing
<1>4. CASE ReplyResponse(h)
  <2> DEFINE status == Last(req[h].results)
  <2>1. status \in {"ok", "bad"} /\ Concluded(h, status)
    BY <1>2, <1>4 DEF ReplyResponse, Outcomes
  <2> QED
    BY <1>1, <2>1, ConcludedSound
<1>5. CASE ReplySpoilt(h)
  BY <1>1, <1>5, ConcludedSound DEF ReplySpoilt
<1> QED
  BY <1>3, <1>4, <1>5

\* A write of the console touches no request but tells the fills that they are late.
LEMMA LateSound ==
  ASSUME RequestsSound, req' = FillsLate
  PROVE  /\ RequestsSound'
         /\ \A h \in Handlers : /\ req'[h].stage = req[h].stage /\ req'[h].cands = req[h].cands
                                /\ req'[h].stage = "fill" => req'[h].late
<1> SUFFICES ASSUME NEW h \in Handlers
             PROVE  /\ RequestSound(req'[h]) /\ req'[h] \in Rows
                    /\ req'[h].stage = req[h].stage /\ req'[h].cands = req[h].cands
                    /\ req'[h].stage = "fill" => req'[h].late
  <2>1. DOMAIN req' = Handlers /\ req' = [h \in Handlers |-> req'[h]]
    BY DEF FillsLate
  <2>2. req' \in [Handlers -> Rows] /\ \A h \in Handlers : RequestSound(req'[h])
    BY <2>1
  <2> QED
    BY <2>2 DEF RequestsSound
<1> DEFINE r == req[h]
           late == r.late \/ r.stage = "fill"
           o == [r EXCEPT !.late = late]
<1>1. req'[h] = o
  <2>1. r \in Rows
    BY DEF RequestsSound
  <2> QED
    BY <2>1 DEF FillsLate, Rows
<1>2. RequestSound(r) /\ r \in Rows /\ late \in BOOLEAN
  BY DEF RequestsSound, RequestSound
<1> HIDE DEF r, late
<1>3. o \in Rows
  BY <1>2, Zenon DEF Rows
<1>4. SameChoice(r, o) /\ o.stage = r.stage /\ o.late = late
  BY <1>2 DEF Rows, SameChoice
<1> HIDE DEF o
<1>5. Certain(o) = Certain(r) /\ \A m : Fit(o, m) <=> Fit(r, m)
  BY <1>4, SameCertain DEF SameChoice
<1>6. Prepared(o) /\ Logged(o)
  BY <1>2, <1>4 DEF RequestSound, SameChoice, Prepared, Logged, ModeOf
<1>7. Tracked(o)
  BY <1>2, <1>4 DEF RequestSound, SameChoice, Tracked
<1>8. Stopped(o)
  BY <1>2, <1>4 DEF RequestSound, SameChoice, Stopped
<1>9. Suited(o) /\ Arranged(o)
  BY <1>2, <1>4, <1>5 DEF RequestSound, SameChoice, Suited, Arranged, ModeOf
<1> QED
  BY <1>1, <1>3, <1>4, <1>6, <1>7, <1>8, <1>9 DEF RequestSound, SameChoice, late, r

-----------------------------------------------------------------------------
(* What the steps of a handler do to the rest *)

\* The other handlers are left alone, and candidates stay once there are some.
OthersAlone(h) ==
  /\ \A g \in Handlers : g # h => req'[g] = req[g]
  /\ req[h].cands # <<>> => req'[h].cands # <<>>

\* Requests are spread as they get their candidates.
SpreadOnce(h) ==
  \/ rr' = rr
  \/ /\ req[h].cands = <<>> /\ req'[h].cands # <<>>
     /\ \E k \in Keys : rr' = [rr EXCEPT ![k] = @ + 1]

ListAlone(h) == UNCHANGED <<table, cache, console, outdated>> /\ req'[h].stage # "fill"

LEMMA ArriveAlone ==
  ASSUME RequestsSound, NEW h \in Handlers, NEW ask \in Asks[h], Arrive(h, ask)
  PROVE  OthersAlone(h) /\ rr' = rr /\ ListAlone(h)
<1> DEFINE r == req[h]
<1>1. r.cands = <<>> /\ UNCHANGED Shared
  BY DEF Arrive, RequestsSound, RequestSound, Prepared
<1>2. \E o : o.stage # "fill" /\ req' = [req EXCEPT ![h] = o]
  <2> DEFINE model == IF ask.endpoint = "count" THEN ask.model
                      ELSE Aliased(KeyRow[ask.key], ask.model)
             spread == model = AutoModel /\ ask.endpoint \notin {"models", "count"}
             stage == CASE ask.endpoint = "models" -> "list"
                        [] ask.endpoint = "count" -> "count"
                        [] spread /\ KeyRow[ask.key].mode \notin AutoModes -> "done"
                        [] spread /\ KeyRow[ask.key].mode \in AutoModes -> "route"
                        [] OTHER -> "check"
             o == [NoRequest EXCEPT
                     !.ask = ask, !.chans = EnabledOnly(table, Protocol(ask)), !.auto = spread,
                     !.cands = IF spread THEN <<>> ELSE <<model>>, !.model = model,
                     !.stage = stage]
  <2>1. req' = [req EXCEPT ![h] = o]
    BY DEF Arrive
  <2>2. stage # "fill"
    <3> HIDE DEF model
    <3>1. spread => ask.endpoint \notin {"models", "count"}
      OBVIOUS
    <3> HIDE DEF spread
    <3>2. CASE ask.endpoint = "models"
      BY <3>1, <3>2
    <3>3. CASE ask.endpoint = "count"
      BY <3>1, <3>3
    <3>4. CASE ask.endpoint \notin {"models", "count"} /\ spread
      BY <3>4
    <3>5. CASE ask.endpoint \notin {"models", "count"} /\ ~spread
      BY <3>5
    <3> QED
      BY <3>2, <3>3, <3>4, <3>5
  <2> HIDE DEF stage, model, spread
  <2>3. o.stage = stage
    <3>1. NoRequest \in Rows
      BY NoRequestRow
    <3> HIDE DEF NoRequest
    <3> QED
      BY <3>1 DEF Rows
  <2> QED
    BY <2>1, <2>2, <2>3
<1>3. PICK o : o.stage # "fill" /\ req' = [req EXCEPT ![h] = o]
  BY <1>2
<1>4. req'[h] = o /\ \A g \in Handlers : g # h => req'[g] = req[g]
  BY <1>3 DEF RequestsSound
<1> QED
  BY <1>1, <1>3, <1>4 DEF OthersAlone, ListAlone, Shared

LEMMA RouteAlone ==
  ASSUME RequestsSound, NEW h \in Handlers, NEW task \in Tasks, NEW latency \in Latencies,
         rr \in [Keys -> Nat], Route(h, task, latency)
  PROVE  OthersAlone(h) /\ SpreadOnce(h) /\ ListAlone(h)
<1> DEFINE k == req[h].ask.key
<1>1. /\ rr' = rr \/ (req[h].cands = <<>> /\ req'[h].cands # <<>>)
      /\ \A g \in Handlers : g # h => req'[g] = req[g]
      /\ req'[h].stage # "fill"
  BY RouteSound
<1>2. k \in Keys /\ req[h].cands = <<>>
  <2>1. req[h] \in Rows /\ Prepared(req[h]) /\ req[h].stage = "route"
    BY DEF RequestsSound, RequestSound, Route
  <2> QED
    BY <2>1, RowFields DEF Prepared
<1>3. rr' = rr \/ rr' = [rr EXCEPT ![k] = @ + 1]
  BY DEF Route
<1>4. UNCHANGED <<table, cache, console, outdated>>
  BY DEF Route
<1> HIDE DEF k
<1> QED
  BY <1>1, <1>2, <1>3, <1>4 DEF OthersAlone, SpreadOnce, ListAlone

\* What a step sets of the locals of its handler.
LEMMA FieldsAlone ==
  ASSUME RequestsSound, NEW h \in Handlers, NEW o, o.cands = req[h].cands, o.stage # "fill",
         req' = [req EXCEPT ![h] = o], UNCHANGED Shared
  PROVE  OthersAlone(h) /\ SpreadOnce(h) /\ ListAlone(h)
<1>1. req'[h] = o /\ \A g \in Handlers : g # h => req'[g] = req[g]
  BY DEF RequestsSound
<1> QED
  BY <1>1 DEF OthersAlone, SpreadOnce, ListAlone, Shared

LEMMA GotoAlone ==
  ASSUME RequestsSound, NEW h \in Handlers, Goto(h, "done"), UNCHANGED Shared
  PROVE  OthersAlone(h) /\ SpreadOnce(h) /\ ListAlone(h)
<1> DEFINE o == [req[h] EXCEPT !.stage = "done"]
<1>1. req[h] \in Rows
  BY DEF RequestsSound
<1>2. o.cands = req[h].cands /\ o.stage = "done"
  BY <1>1 DEF Rows
<1>3. req' = [req EXCEPT ![h] = o]
  BY DEF Goto, RequestsSound
<1> HIDE DEF o
<1> QED
  BY <1>2, <1>3, FieldsAlone

LEMMA TriedAlone ==
  ASSUME RequestsSound, NEW h \in Handlers, NEW model, NEW outcome, NEW stage \in Stages \ {"fill"},
         Tried(h, model, outcome, stage), UNCHANGED Shared
  PROVE  OthersAlone(h) /\ SpreadOnce(h) /\ ListAlone(h)
<1> DEFINE r == req[h]
           tried == Append(r.tried, r.cands[Len(r.tried) + 1])
           o == [r EXCEPT !.model = model, !.tried = tried,
                          !.results = Append(@, outcome), !.stage = stage]
<1>1. r \in Rows
  BY DEF RequestsSound
<1>2. req' = [req EXCEPT ![h] = o]
  BY <1>1 DEF Tried, RequestsSound
<1> HIDE DEF tried
<1>3. o.cands = r.cands /\ o.stage = stage
  BY <1>1 DEF Rows
<1> HIDE DEF o
<1> QED
  BY <1>2, <1>3, FieldsAlone

\* Every step of a handler but the filling of the list.
LEMMA HandlerAlone ==
  ASSUME RequestsInvariant, NEW h \in Handlers, HandlerStep(h), ~StartFill(h), ~StoreList(h)
  PROVE  OthersAlone(h) /\ SpreadOnce(h) /\ ListAlone(h)
<1> DEFINE r == req[h]
<1>1. RequestsSound /\ rr \in [Keys -> Nat] /\ r \in Rows
  BY DEF RequestsInvariant, RequestsSound, SpreadSound
<1>2. ASSUME NEW ask \in Asks[h], Arrive(h, ask)
      PROVE  OthersAlone(h) /\ SpreadOnce(h) /\ ListAlone(h)
  BY <1>1, <1>2, ArriveAlone DEF SpreadOnce
<1>3. CASE UseList(h)
  <2> DEFINE o == [r EXCEPT !.lists = Append(@, cache.data)]
  <2>1. req' = [req EXCEPT ![h] = o] /\ r.stage # "fill" /\ UNCHANGED Shared
    BY <1>1, <1>3 DEF UseList, NeedsList, RequestsSound
  <2>2. o.cands = r.cands /\ o.stage = r.stage
    BY <1>1 DEF Rows
  <2> HIDE DEF o
  <2> QED
    BY <1>1, <2>1, <2>2, FieldsAlone
<1>4. CASE AnswerModels(h)
  BY <1>1, <1>4, GotoAlone DEF AnswerModels
<1>5. CASE CountTokens(h)
  <2>1. "done" \in Stages \ {"fill"}
    BY DEF Stages
  <2> QED
    BY <1>1, <1>5, <2>1, GotoAlone, TriedAlone DEF CountTokens
<1>6. ASSUME NEW task \in Tasks, NEW latency \in Latencies, Route(h, task, latency)
      PROVE  OthersAlone(h) /\ SpreadOnce(h) /\ ListAlone(h)
  BY <1>1, <1>6, RouteAlone
<1>7. CASE Check(h)
  <2> DEFINE converts == r.ask.endpoint # "responses" \/ r.ask.sound
             stage == IF converts /\ Served(r) /\ Permitted(r) THEN "admit" ELSE "done"
             chans == IF r.auto THEN r.chans ELSE FilterByModel(r.chans, r.model)
             o == [r EXCEPT !.stage = stage, !.chans = chans]
  <2>1. req' = [req EXCEPT ![h] = o] /\ UNCHANGED Shared
    BY <1>1, <1>7 DEF Check, RequestsSound
  <2>2. stage # "fill"
    OBVIOUS
  <2> HIDE DEF stage, chans
  <2>3. o.cands = r.cands /\ o.stage = stage
    BY <1>1 DEF Rows
  <2> HIDE DEF o
  <2> QED
    BY <1>1, <2>1, <2>2, <2>3, FieldsAlone
<1>8. CASE Admit(h)
  <2> DEFINE o == [r EXCEPT !.stage = "try", !.permit = "held"]
  <2>1. UNCHANGED Shared /\ (Goto(h, "done") \/ req' = [req EXCEPT ![h] = o])
    BY <1>1, <1>8 DEF Admit, RequestsSound
  <2>2. o.cands = r.cands /\ o.stage = "try"
    BY <1>1 DEF Rows
  <2> HIDE DEF o
  <2> QED
    BY <1>1, <2>1, <2>2, FieldsAlone, GotoAlone
<1>9. ASSUME NEW outcome \in {"ok", "bad", "none"}, TryModel(h, outcome)
      PROVE  OthersAlone(h) /\ SpreadOnce(h) /\ ListAlone(h)
  <2> DEFINE n == Len(r.tried) + 1
             stage == IF outcome = "ok" \/ n = Len(r.cands) THEN "reply" ELSE "try"
             o == [r EXCEPT !.stage = "done", !.permit = "given back"]
  <2>1. /\ UNCHANGED Shared
        /\ Tried(h, r.cands[n], outcome, stage) \/ req' = [req EXCEPT ![h] = o]
    BY <1>1, <1>9 DEF TryModel, RequestsSound
  <2>2. stage \in Stages \ {"fill"}
    BY DEF Stages
  <2>3. o.cands = r.cands /\ o.stage = "done"
    BY <1>1 DEF Rows
  <2> HIDE DEF o, stage
  <2> QED
    BY <1>1, <2>1, <2>2, <2>3, FieldsAlone, TriedAlone
<1>10. ASSUME NEW status, Concluded(h, status)
       PROVE  OthersAlone(h) /\ SpreadOnce(h) /\ ListAlone(h)
  <2> DEFINE entries == Append(r.entries, Entry(r.model, status))
             o == [r EXCEPT !.stage = "done", !.permit = "given back", !.entries = entries]
  <2>1. UNCHANGED Shared /\ req' = [req EXCEPT ![h] = o]
    BY <1>1, <1>10 DEF Concluded, RequestsSound
  <2> HIDE DEF entries
  <2>2. o.cands = r.cands /\ o.stage = "done"
    BY <1>1 DEF Rows
  <2> HIDE DEF o
  <2> QED
    BY <1>1, <2>1, <2>2, FieldsAlone
<1>11. CASE ReplyNothing(h) \/ ReplyResponse(h) \/ ReplySpoilt(h)
  BY <1>10, <1>11 DEF ReplyNothing, ReplyResponse, ReplySpoilt
<1> QED
  BY <1>2, <1>3, <1>4, <1>5, <1>6, <1>7, <1>8, <1>9, <1>11 DEF HandlerStep

LEMMA HandlerSound ==
  ASSUME RequestsInvariant, NEW h \in Handlers, HandlerStep(h)
  PROVE  RequestsSound'
<1>1. RequestsSound /\ ListSound /\ rr \in [Keys -> Nat]
  BY DEF RequestsInvariant, SpreadSound
<1>2. ASSUME NEW ask \in Asks[h], Arrive(h, ask)
      PROVE  RequestsSound'
  BY <1>1, <1>2, ArriveSound
<1>3. CASE UseList(h) \/ StartFill(h) \/ StoreList(h) \/ AnswerModels(h)
  BY <1>1, <1>3, UseListSound, StartFillSound, StoreListSound, AnswerModelsSound
<1>4. CASE CountTokens(h)
  BY <1>1, <1>4, CountTokensSound
<1>5. ASSUME NEW task \in Tasks, NEW latency \in Latencies, Route(h, task, latency)
      PROVE  RequestsSound'
  BY <1>1, <1>5, RouteSound
<1>6. CASE Check(h) \/ Admit(h)
  BY <1>1, <1>6, CheckSound, AdmitSound
<1>7. ASSUME NEW outcome \in Outcomes, TryModel(h, outcome)
      PROVE  RequestsSound'
  BY <1>1, <1>7, TryModelSound
<1>8. CASE ReplyNothing(h) \/ ReplyResponse(h) \/ ReplySpoilt(h)
  BY <1>1, <1>8, ReplySound
<1> QED
  BY <1>2, <1>3, <1>4, <1>5, <1>6, <1>7, <1>8 DEF HandlerStep, Outcomes

\* The two steps of a fill.
LEMMA StartFillAlone ==
  ASSUME RequestsInvariant, NEW h \in Handlers, StartFill(h)
  PROVE  OthersAlone(h) /\ SpreadOnce(h) /\ ListSound'
<1> DEFINE r == req[h]
           snap == EnabledOnly(table, "openai")
           o == [r EXCEPT !.stage = "fill", !.late = FALSE, !.snapshot = snap]
<1>1. RequestsSound /\ ListSound /\ r \in Rows
  BY DEF RequestsInvariant, RequestsSound
<1>2. req' = [req EXCEPT ![h] = o] /\ UNCHANGED Shared
  BY <1>1 DEF StartFill, RequestsSound
<1> HIDE DEF snap
<1>3. o.cands = r.cands /\ o.snapshot = snap
  BY <1>1 DEF Rows
<1> HIDE DEF o
<1>4. req'[h] = o /\ \A g \in Handlers : g # h => req'[g] = req[g]
  BY <1>1, <1>2 DEF RequestsSound
<1>5. FillsCurrent'
  <2>1. snap = EnabledOnly(table, "openai") /\ table' = table
    BY <1>2 DEF snap, Shared
  <2> SUFFICES ASSUME NEW g \in Handlers, req'[g].stage = "fill" /\ ~req'[g].late
               PROVE  req'[g].snapshot = EnabledOnly(table, "openai")
    BY <2>1 DEF FillsCurrent
  <2> QED
    BY <1>1, <1>3, <1>4, <2>1 DEF ListSound, FillsCurrent
<1>6. ListSound'
  BY <1>1, <1>2, <1>5 DEF ListSound, Shared, Current
<1> QED
  BY <1>2, <1>3, <1>4, <1>6 DEF OthersAlone, SpreadOnce, Shared

LEMMA StoreListAlone ==
  ASSUME RequestsInvariant, NEW h \in Handlers, StoreList(h)
  PROVE  OthersAlone(h) /\ SpreadOnce(h) /\ ListSound'
<1> DEFINE r == req[h]
           end == IF r.ask.endpoint = "models" THEN "list" ELSE "route"
           kept(list) == IF list # <<>> THEN list ELSE cache.data
           given(list) == IF kept(list) = NoList THEN <<>> ELSE kept(list)
           o(list) == [r EXCEPT !.lists = Append(@, given(list)), !.stage = end, !.snapshot = <<>>]
           stored(list) ==
             /\ cache' = IF list # <<>> THEN [data |-> list, fresh |-> TRUE] ELSE cache
             /\ outdated' = IF list # <<>> THEN r.late ELSE outdated
             /\ req' = [req EXCEPT ![h] = o(list)]
           found(list) ==
             /\ cache' = IF list # <<>> THEN [data |-> list, fresh |-> TRUE] ELSE cache
             /\ outdated' = IF list # <<>> THEN r.late ELSE outdated
             /\ req' = [req EXCEPT ![h].lists = Append(@, given(list)), ![h].stage = end,
                                   ![h].snapshot = <<>>]
<1>1. RequestsSound /\ ListSound /\ r \in Rows
  BY DEF RequestsInvariant, RequestsSound
<1>2. r.stage = "fill" /\ UNCHANGED <<table, rr, console>>
  BY DEF StoreList
<1>3. PICK failing \in SUBSET Wildcards(r.snapshot) :
        \E list \in Aggregated(r.snapshot, failing) : found(list)
  BY Zenon DEF StoreList
<1>a. PICK list \in Aggregated(r.snapshot, failing) : found(list)
  BY <1>3
<1>4. stored(list)
  <2> HIDE DEF given, end
  <2> QED
    BY <1>1, <1>a DEF RequestsSound
<1> HIDE DEF kept
<1>5. o(list).cands = r.cands /\ o(list).stage # "fill"
  <2> DEFINE lists == Append(r.lists, given(list))
  <2>1. end # "fill"
    OBVIOUS
  <2>2. o(list) = [r EXCEPT !.lists = lists, !.stage = end, !.snapshot = <<>>]
    BY <1>1 DEF Rows
  <2> HIDE DEF end, lists
  <2> QED
    BY <1>1, <2>1, <2>2 DEF Rows
<1> DEFINE now == o(list)
<1>6. req' = [req EXCEPT ![h] = now] /\ now.cands = r.cands /\ now.stage # "fill"
  BY <1>4, <1>5
<1>7. /\ cache' = IF list # <<>> THEN [data |-> list, fresh |-> TRUE] ELSE cache
      /\ outdated' = IF list # <<>> THEN r.late ELSE outdated
  BY <1>4
<1> HIDE DEF now, o, given, stored, found
<1>8. req'[h] = now /\ \A g \in Handlers : g # h => req'[g] = req[g]
  BY <1>1, <1>6 DEF RequestsSound
<1>9. FillsCurrent'
  <2> SUFFICES ASSUME NEW g \in Handlers, req'[g].stage = "fill" /\ ~req'[g].late
               PROVE  req'[g].snapshot = EnabledOnly(table, "openai")
    BY <1>2 DEF FillsCurrent
  <2> QED
    BY <1>1, <1>6, <1>8 DEF ListSound, FillsCurrent
<1>10. list \in Seq(Models) /\ (~r.late => Current(list))
  <2>1. r.snapshot \in Seq(ChannelRows)
    BY <1>1, RowFields
  <2>2. list \in Seq(Models)
    BY <2>1, AggregatedShape
  <2>3. ASSUME ~r.late
        PROVE  Current(list)
    <3>1. r.snapshot = EnabledOnly(table, "openai")
      BY <1>1, <1>2, <2>3 DEF ListSound, FillsCurrent
    <3> HIDE DEF r
    <3> QED
      BY <2>1, <3>1, AggregatedShape DEF Current
  <2> QED
    BY <2>2, <2>3
<1>11. r.late \in BOOLEAN
  BY <1>1, RowFields
<1>12. CASE list = <<>>
  <2>1. cache' = cache /\ outdated' = outdated
    BY <1>7, <1>12
  <2>2. ListSound'
    BY <1>1, <1>2, <1>9, <2>1 DEF ListSound, Current
  <2> QED
    BY <1>2, <1>6, <1>8, <2>2 DEF OthersAlone, SpreadOnce
<1>13. CASE list # <<>>
  <2>1. /\ cache' = [data |-> list, fresh |-> TRUE] /\ outdated' = r.late
    BY <1>7, <1>13
  <2>2. (~outdated => Current(cache.data))'
    BY <1>2, <1>10, <2>1 DEF Current
  <2>3. cache' \in [data : Seq(Models) \cup {NoList}, fresh : BOOLEAN] /\ cache'.data # <<>>
    BY <1>10, <1>13, <2>1
  <2>4. ListSound'
    BY <1>1, <1>2, <1>9, <1>11, <2>1, <2>2, <2>3 DEF ListSound
  <2> QED
    BY <1>2, <1>6, <1>8, <2>4 DEF OthersAlone, SpreadOnce
<1> QED
  BY <1>12, <1>13

LEMMA HandlerListSound ==
  ASSUME RequestsInvariant, NEW h \in Handlers, HandlerStep(h)
  PROVE  OthersAlone(h) /\ SpreadOnce(h) /\ ListSound'
<1>1. ASSUME ~StartFill(h), ~StoreList(h)
      PROVE  OthersAlone(h) /\ SpreadOnce(h) /\ ListSound'
  <2>1. OthersAlone(h) /\ SpreadOnce(h) /\ ListAlone(h)
    BY <1>1, HandlerAlone
  <2>2. FillsCurrent'
    BY <2>1 DEF RequestsInvariant, ListSound, FillsCurrent, OthersAlone, ListAlone
  <2>3. ListSound'
    BY <2>1, <2>2 DEF RequestsInvariant, ListSound, ListAlone, Current
  <2> QED
    BY <2>1, <2>3
<1> QED
  BY <1>1, StartFillAlone, StoreListAlone

\* A key is spread once for each request of it that has candidates.
LEMMA SpreadKept ==
  ASSUME RequestsInvariant, NEW h \in Handlers, OthersAlone(h), SpreadOnce(h)
  PROVE  SpreadSound'
<1> DEFINE W == WithCandidates
           V == WithCandidates'
<1>1. /\ W \subseteq V /\ V \subseteq Handlers
      /\ req[h].cands = <<>> /\ req'[h].cands # <<>> => h \in V \ W
  BY DEF WithCandidates, OthersAlone
<1>2. IsFiniteSet(V) /\ IsFiniteSet(W) /\ Cardinality(V) \in Nat /\ Cardinality(W) \in Nat
      /\ Cardinality(W) <= Cardinality(V)
  BY <1>1, RequestsAssumption, FS_Subset, FS_CardinalityType
<1>3. rr \in [Keys -> Nat] /\ \A k \in Keys : rr[k] <= Cardinality(W)
  BY DEF RequestsInvariant, SpreadSound
<1>4. V = WithCandidates'
  OBVIOUS
<1> HIDE DEF W, V
<1>5. CASE rr' = rr
  BY <1>2, <1>3, <1>4, <1>5 DEF SpreadSound
<1>6. CASE /\ req[h].cands = <<>> /\ req'[h].cands # <<>>
           /\ \E k \in Keys : rr' = [rr EXCEPT ![k] = @ + 1]
  <2>1. PICK k \in Keys : rr' = [rr EXCEPT ![k] = @ + 1]
    BY <1>6
  <2>2. h \in V \ W
    BY <1>1, <1>6
  <2>3. Cardinality(W \cup {h}) = Cardinality(W) + 1 /\ IsFiniteSet(W \cup {h})
    BY <1>2, <2>2, FS_AddElement
  <2>4. Cardinality(W \cup {h}) <= Cardinality(V)
    BY <1>1, <1>2, <2>2, FS_Subset
  <2>5. rr' \in [Keys -> Nat] /\ \A j \in Keys : rr'[j] <= rr[j] + 1
    BY <1>3, <2>1
  <2> QED
    BY <1>2, <1>3, <1>4, <2>3, <2>4, <2>5 DEF SpreadSound
<1> QED
  BY <1>5, <1>6 DEF SpreadOnce

-----------------------------------------------------------------------------
(* The invariant *)

LEMMA InitSound ==
  ASSUME Init
  PROVE  RequestsInvariant
<1>1. \A h \in Handlers : req[h] = NoRequest
  BY DEF Init
<1>2. NoRequest \in Rows /\ Untouched(NoRequest) /\ NoRequest.stage = "idle"
      /\ NoRequest.cands = <<>> /\ ~NoRequest.auto
  BY NoRequestRow
<1>3. req = [h \in Handlers |-> NoRequest]
  BY DEF Init
<1> HIDE DEF NoRequest
<1>4. RequestSound(NoRequest)
  <2>1. Prepared(NoRequest) /\ Arranged(NoRequest)
    BY <1>2 DEF Prepared, Arranged
  <2>2. Suited(NoRequest)
    BY <1>2 DEF Suited, Untouched, ToSet
  <2> QED
    BY <1>2, <2>1, <2>2, EarlySound DEF Early, Stages
<1>5. RequestsSound
  BY <1>1, <1>2, <1>3, <1>4 DEF RequestsSound
<1>6. ListSound
  BY <1>1, <1>2 DEF Init, ListSound, FillsCurrent
<1>7. SpreadSound
  <2>1. IsFiniteSet(WithCandidates)
    BY RequestsAssumption, FS_Subset DEF WithCandidates
  <2>2. Cardinality(WithCandidates) \in Nat
    BY <2>1, FS_CardinalityType
  <2> QED
    BY <2>2 DEF Init, SpreadSound
<1> QED
  BY <1>5, <1>6, <1>7 DEF RequestsInvariant

\* A write of the console, all of it or half.
LEMMA WrittenSound ==
  ASSUME RequestsInvariant, NEW new \in Tables, WriteChannels(new) \/ WriteChannelsHalf(new)
  PROVE  RequestsInvariant'
<1>1. RequestsSound /\ ListSound /\ SpreadSound
  BY DEF RequestsInvariant
<1>2. req' = FillsLate /\ table' = new /\ UNCHANGED <<cache, rr>>
  BY DEF WriteChannels, WriteChannelsHalf
<1>3. /\ RequestsSound'
      /\ \A h \in Handlers : /\ req'[h].stage = req[h].stage /\ req'[h].cands = req[h].cands
                             /\ req'[h].stage = "fill" => req'[h].late
  BY <1>1, <1>2, LateSound
<1>4. ListSound'
  <2>1. FillsCurrent'
    BY <1>3 DEF FillsCurrent
  <2>2. console' = "written" \/ outdated' = (outdated \/ cache.fresh)
    BY DEF WriteChannels, WriteChannelsHalf
  <2>3. console' \in {"idle", "written"} /\ outdated' \in BOOLEAN
    BY <1>1 DEF WriteChannels, WriteChannelsHalf, ListSound
  <2> QED
    BY <1>1, <1>2, <2>1, <2>2, <2>3 DEF ListSound
<1>5. SpreadSound'
  <2>1. WithCandidates' = WithCandidates
    BY <1>3 DEF WithCandidates
  <2> QED
    BY <1>1, <1>2, <2>1 DEF SpreadSound
<1> QED
  BY <1>3, <1>4, <1>5 DEF RequestsInvariant

LEMMA NextSound ==
  ASSUME RequestsInvariant, [Next]_vars
  PROVE  RequestsInvariant'
<1>1. RequestsSound /\ ListSound /\ SpreadSound
  BY DEF RequestsInvariant
<1>2. ASSUME NEW h \in Handlers, HandlerStep(h)
      PROVE  RequestsInvariant'
  <2>1. RequestsSound'
    BY <1>2, HandlerSound
  <2>2. OthersAlone(h) /\ SpreadOnce(h) /\ ListSound'
    BY <1>2, HandlerListSound
  <2> QED
    BY <2>1, <2>2, SpreadKept DEF RequestsInvariant
<1>3. ASSUME NEW new \in Tables \ {table}, WriteChannels(new) \/ WriteChannelsHalf(new)
      PROVE  RequestsInvariant'
  BY <1>3, WrittenSound
<1>4. ASSUME UNCHANGED <<req, rr>>, ListSound'
      PROVE  RequestsInvariant'
  BY <1>1, <1>4 DEF RequestsInvariant, RequestsSound, SpreadSound, WithCandidates
<1>5. CASE InvalidateModels
  <2>1. FillsCurrent'
    BY <1>1, <1>5 DEF InvalidateModels, ListSound, FillsCurrent
  <2>2. ListSound'
    BY <1>1, <1>5, <2>1 DEF InvalidateModels, ListSound
  <2> QED
    BY <1>4, <1>5, <2>2 DEF InvalidateModels
<1>6. CASE Expire
  <2>1. FillsCurrent'
    BY <1>1, <1>6 DEF Expire, ListSound, FillsCurrent
  <2>2. ListSound'
    BY <1>1, <1>6, <2>1 DEF Expire, ListSound
  <2> QED
    BY <1>4, <1>6, <2>2 DEF Expire
<1>7. CASE UNCHANGED vars
  <2>1. ListSound'
    BY <1>1, <1>7 DEF vars, ListSound, FillsCurrent, Current
  <2> QED
    BY <1>4, <1>7, <2>1 DEF vars
<1> QED
  BY <1>2, <1>3, <1>5, <1>6, <1>7 DEF Next

LEMMA InvariantHolds == Spec => []RequestsInvariant
<1>1. Init => RequestsInvariant
  BY InitSound
<1>2. RequestsInvariant /\ [Next]_vars => RequestsInvariant'
  BY NextSound
<1> QED
  BY <1>1, <1>2, PTL DEF Spec

-----------------------------------------------------------------------------
(* What follows from it *)

LEMMA TypeFollows ==
  ASSUME RequestsInvariant
  PROVE  TypeOK
<1>1. RequestsSound /\ ListSound /\ SpreadSound
  BY DEF RequestsInvariant
<1>2. cache.data # NoList => Len(cache.data) > 0
  <2>1. cache.data # NoList => cache.data \in Seq(Models) /\ cache.data # <<>>
    BY <1>1 DEF ListSound
  <2> QED
    BY <2>1
<1>3. rr \in [Keys -> 0..Cardinality(Handlers)]
  <2>1. /\ Cardinality(WithCandidates) \in Nat /\ Cardinality(Handlers) \in Nat
        /\ Cardinality(WithCandidates) <= Cardinality(Handlers)
    BY RequestsAssumption, FS_Subset, FS_CardinalityType DEF WithCandidates
  <2> QED
    BY <1>1, <2>1 DEF SpreadSound
<1>4. ASSUME NEW h \in Handlers
      PROVE  /\ DOMAIN req[h] = DOMAIN NoRequest
             /\ req[h].stage \in Stages /\ req[h].ask \in AllAsks
             /\ req[h].stage \in {"check", "admit", "try", "reply"} => Len(req[h].cands) > 0
             /\ req[h].permit \in {"none", "held", "given back"}
             /\ req[h].stage \in {"try", "reply"} <=> req[h].permit = "held"
             /\ Len(req[h].tried) = Len(req[h].results) /\ Len(req[h].tried) <= Len(req[h].cands)
  <2>1. RequestSound(req[h]) /\ req[h] \in Rows
    BY <1>1 DEF RequestsSound, RequestSound
  <2>2. DOMAIN req[h] = DOMAIN NoRequest
    <3>1. NoRequest \in Rows
      BY NoRequestRow
    <3> HIDE DEF NoRequest
    <3> QED
      BY <2>1, <3>1 DEF Rows
  <2>3. req[h].permit \in {"none", "held", "given back"}
    BY <2>1 DEF Rows
  <2>4. req[h].stage \in {"check", "admit", "try", "reply"} => Len(req[h].cands) > 0
    <3>1. req[h].stage \in {"check", "admit", "try", "reply"} => req[h].cands # <<>>
      BY <2>1 DEF RequestSound, Prepared
    <3>2. req[h].cands \in Seq(Names)
      BY <2>1, RowFields
    <3> QED
      BY <3>1, <3>2
  <2>5. /\ req[h].stage \in {"try", "reply"} <=> req[h].permit = "held"
        /\ Len(req[h].tried) = Len(req[h].results) /\ Len(req[h].tried) <= Len(req[h].cands)
    BY <2>1 DEF RequestSound, Tracked
  <2> QED
    BY <2>1, <2>2, <2>3, <2>4, <2>5, RowFields
<1> QED
  BY <1>1, <1>2, <1>3, <1>4 DEF TypeOK, ListSound

\* The state keeps its shape: the list is stored only with something in it, a
\* request holds its permit exactly while models are tried and the reply is
\* passed on, and the round robin counts no request twice.
THEOREM TypeCorrect == Spec => []TypeOK
<1>1. RequestsInvariant => TypeOK
  BY TypeFollows
<1> QED
  BY <1>1, InvariantHolds, PTL

\* Whatever becomes of a request, it is in the log once when it got a permit, under
\* the model that was tried last and with the outcome of that, and its permit
\* is given back (serveBody, serveResponses).
THEOREM AlwaysAccountedOnce == Spec => []AccountedOnce
<1>1. ASSUME RequestsInvariant, NEW h \in Handlers, req[h].stage = "done"
      PROVE  LET r == req[h]
             IN  /\ r.permit # "held"
                 /\ Len(r.entries) = IF r.permit = "none" THEN 0 ELSE 1
                 /\ r.permit = "none" => r.tried = <<>> \/ r.ask.endpoint = "count"
                 /\ \A e \in ToSet(r.entries) :
                      /\ e.model = Last(r.tried)
                      /\ e.status \in {"ok", "bad"} => e.status = Last(r.results)
  <2> DEFINE r == req[h]
  <2>1. r \in Rows /\ Tracked(r) /\ Logged(r)
    BY <1>1 DEF RequestsInvariant, RequestsSound, RequestSound
  <2>2. r.permit \in {"none", "given back"} /\ r.stage = "done" /\ r.entries \in Seq(Entries)
    BY <1>1, <2>1 DEF Tracked, Rows
  <2> HIDE DEF r
  <2>3. CASE r.permit = "none"
    BY <2>1, <2>2, <2>3 DEF Logged, ToSet, r
  <2>4. CASE r.permit = "given back"
    <3>1. /\ Len(r.entries) = 1 /\ r.entries[1].model = Last(r.tried)
          /\ r.entries[1].status \in {"ok", "bad"} => r.entries[1].status = Last(r.results)
      BY <2>1, <2>2, <2>4 DEF Logged, Last
    <3>2. ASSUME NEW e \in ToSet(r.entries)
          PROVE  e = r.entries[1]
      <4>1. PICK i \in 1..Len(r.entries) : e = r.entries[i]
        BY <2>2, ElementPlace
      <4>2. i = 1
        BY <3>1
      <4> QED
        BY <4>1, <4>2
    <3> QED
      BY <2>4, <3>1, <3>2 DEF r
  <2> QED
    BY <2>2, <2>3, <2>4
<1>2. RequestsInvariant => AccountedOnce
  BY <1>1 DEF AccountedOnce
<1> QED
  BY <1>2, InvariantHolds, PTL

\* No request tries a model that its key does not allow or that none of its
\* channels serves, though the whitelist is held against the first candidate
\* alone and the list the candidates come from may be older than the channels.
THEOREM CandidatesAlwaysSound == Spec => []CandidatesSound
<1>1. RequestsInvariant => CandidatesSound
  BY DEF RequestsInvariant, RequestsSound, RequestSound, Suited, Fit, CandidatesSound
<1> QED
  BY <1>1, InvariantHolds, PTL

\* The candidates that were tried stand in the order of the candidates.
LEMMA TriedInOrder ==
  ASSUME NEW q \in Seq(Names), NEW p \in Seq(Names), Len(p) <= Len(q),
         \A i \in 1..Len(p) : p[i] = q[i], NEW m, NEW n \in ToSet(p), Before(q, m, n)
  PROVE  Before(p, m, n)
<1> DEFINE a == Place(q, m)
           b == Place(p, n)
<1>1. /\ b \in 1..Len(p) /\ p[b] = n
      /\ n \in ToSet(q) /\ Place(q, n) <= b
  <2>1. b \in 1..Len(p) /\ p[b] = n
    BY ContainsElement, PlaceShape
  <2>2. b \in 1..Len(q) /\ q[b] = n
    BY <2>1
  <2>3. n \in ToSet(q)
    BY <2>2 DEF ToSet
  <2> HIDE DEF b
  <2> QED
    BY <2>1, <2>2, <2>3, ContainsElement, PlaceShape
<1>2. a \in 1..Len(q) /\ q[a] = m /\ a < Place(q, n) /\ Place(q, n) \in 1..Len(q)
  BY <1>1, ContainsElement, PlaceShape DEF Before
<1> HIDE DEF a, b
<1>3. a \in 1..Len(p) /\ p[a] = m /\ a < b
  BY <1>1, <1>2
<1>4. m \in ToSet(p)
  BY <1>3 DEF ToSet
<1>5. Place(p, m) <= a /\ Place(p, m) \in 1..Len(p)
  BY <1>3, <1>4, ContainsElement, PlaceShape
<1> QED
  BY <1>1, <1>3, <1>4, <1>5, ContainsElement DEF Before, b

LEMMA FailoverFollows ==
  ASSUME RequestsInvariant, NEW h \in Handlers,
         req[h].auto, KeyRow[req[h].ask.key].mode = "priority"
  PROVE  LET r == req[h]
         IN  /\ \A i \in 1..(Len(r.tried) - 1) : r.results[i] # "ok"
             /\ \A m \in Certain(r), n \in ToSet(r.tried) :
                  Before(KeyRow[r.ask.key].prio, m, n) => Before(r.tried, m, n)
             /\ r.entries # <<>> /\ Last(r.results) # "ok" => Certain(r) \subseteq ToSet(r.tried)
<1> DEFINE r == req[h]
           prio == KeyRow[r.ask.key].prio
<1>1. r \in Rows /\ Tracked(r) /\ Logged(r) /\ Stopped(r) /\ Arranged(r)
  BY DEF RequestsInvariant, RequestsSound, RequestSound
<1>2. /\ r.tried \in Seq(Names) /\ r.cands \in Seq(Names) /\ r.permit \in {"none", "held", "given back"}
      /\ Len(r.tried) <= Len(r.cands) /\ Len(r.results) = Len(r.tried)
      /\ \A i \in 1..Len(r.tried) : r.tried[i] = r.cands[i]
      /\ r.auto /\ ModeOf(r) = "priority"
  BY <1>1 DEF Rows, Tracked, ModeOf
<1> HIDE DEF r, prio
<1>3. \A i \in 1..(Len(r.tried) - 1) : r.results[i] # "ok"
  BY <1>1, <1>2 DEF Stopped
<1>a. /\ \A n \in ToSet(r.tried) : n \in Names /\ r.tried # <<>>
      /\ r.tried # <<>> => r.cands # <<>>
  <2> DEFINE p == r.tried
             q == r.cands
  <2>1. p \in Seq(Names) /\ q \in Seq(Names) /\ Len(p) <= Len(q)
    BY <1>2
  <2> HIDE DEF p, q
  <2>2. \A n \in ToSet(p) : n \in Names /\ p # <<>>
    BY <2>1, EmptyHasNone DEF ToSet
  <2>3. p # <<>> => q # <<>>
    BY <2>1, ElementPlace
  <2> QED
    BY <2>2, <2>3 DEF p, q
<1>4. ASSUME NEW m \in Certain(r), NEW n \in ToSet(r.tried), Before(prio, m, n)
      PROVE  Before(r.tried, m, n)
  <2>1. n \in Names /\ r.tried # <<>>
    BY <1>a
  <2>3. r.cands # <<>>
    BY <1>a, <2>1
  <2>4. Before(r.cands, m, n)
    BY <1>1, <1>2, <1>4, <2>1, <2>3 DEF Arranged, prio
  <2> QED
    BY <1>2, <2>4, TriedInOrder
<1>5. ASSUME r.entries # <<>>, Last(r.results) # "ok", NEW m \in Certain(r)
      PROVE  m \in ToSet(r.tried)
  <2>1. r.stage = "done" /\ r.permit = "given back"
    BY <1>1, <1>2, <1>5 DEF Tracked, Logged
  <2>2. r.tried # <<>>
    BY <1>1, <2>1 DEF Logged
  <2>3. Len(r.tried) = Len(r.cands)
    BY <1>1, <1>5, <2>1, <2>2 DEF Stopped, Last
  <2>4. r.cands # <<>>
    BY <1>a, <2>2
  <2>5. m \in ToSet(r.cands)
    BY <1>1, <1>2, <2>4 DEF Arranged
  <2>6. PICK i \in 1..Len(r.cands) : m = r.cands[i]
    BY <1>2, <2>5, ElementPlace
  <2>7. i \in 1..Len(r.tried) /\ m = r.tried[i]
    BY <1>2, <2>3, <2>6
  <2> QED
    BY <1>2, <2>7, ElementPlace
<1> QED
  BY <1>3, <1>4, <1>5 DEF r, prio

\* In mode priority nothing is tried before what surely stands in front of it
\* has failed, and a request fails only when everything sure has.
THEOREM FailoverAlwaysThorough == Spec => []FailoverThorough
<1>1. RequestsInvariant => FailoverThorough
  BY FailoverFollows DEF FailoverThorough
<1> QED
  BY <1>1, InvariantHolds, PTL

\* A list that handlers share, and no write has overtaken, names what the
\* channels are configured with and only what one may serve.
THEOREM FreshListAlwaysCurrent == Spec => []FreshListIsCurrent
<1>1. RequestsInvariant => FreshListIsCurrent
  BY DEF RequestsInvariant, ListSound, Current, FreshListIsCurrent, ListIsCurrent
<1> QED
  BY <1>1, InvariantHolds, PTL
=============================================================================
