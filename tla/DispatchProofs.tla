--------------------------- MODULE DispatchProofs ---------------------------
(***************************************************************************)
(* Proofs about the forwarding loop: for any channels, keys, priorities    *)
(* and requests, what one dispatch tries, in which order and how often,    *)
(* and that handlers touch the health of keys only as KeyHealth says.      *)
(***************************************************************************)
EXTENDS Dispatch, InPlaceFilterProofs

-----------------------------------------------------------------------------
(* The inductive invariant: what the locals of one handler say *)

Calls ==
  [stage : Stages, plan : Plans \cup {<<>>}, m : Nat, list : Seq(Channels), i : Nat,
   keys : Seq(Keys), j : Nat, usable : SUBSET Keys, passed : SUBSET Keys,
   pref : Keys \cup {NoKey}, used : Nat, calls : Nat, stream : BOOLEAN, injected : BOOLEAN,
   answer : Outcomes \cup {"none"}, tried : Seq(Keys), gone : BOOLEAN]

InLoop == {"channel", "key", "calling", "kept"}
WithKeys == {"key", "calling", "kept"}

KeysOf(c) == ToSet(KeyList[c])
ChansOf(r) == r.plan[r.m].chans

\* The request has a plan and is at one of its models.
Planned(r) == r.stage # "idle" => r.plan \in Plans /\ r.m \in 1..Len(r.plan)

\* The channels in the list are different ones, served by the plan, and all of
\* those unless they were cut to the attempts; those of a higher priority stand
\* before them unless a remembered key has turned the list.
Listed(r) ==
  /\ Len(r.list) <= MaxAttempts /\ IsInjective(r.list)
  /\ r.stage \in InLoop =>
       /\ ToSet(r.list) \subseteq ChansOf(r)
       /\ r.i \in 1..(Len(r.list) + 1)
       /\ r.pref = NoKey =>
            \A c \in ChansOf(r), a \in DOMAIN r.list :
              Priority[c] > Priority[r.list[a]] => \E b \in 1..(a - 1) : r.list[b] = c
  /\ r.stage \notin {"idle", "model"} /\ r.pref # NoKey =>
       r.list # <<>> /\ r.list[1] = ChannelOf(r.pref)
  /\ r.stage \notin {"idle", "model"} =>
       Len(r.list) = MaxAttempts \/ ChansOf(r) \subseteq ToSet(r.list)

\* The keys at hand are different ones, enabled, and of the channel at hand.
Keyed(r) ==
  r.stage \in WithKeys =>
    /\ r.i \in DOMAIN r.list
    /\ r.keys # <<>> /\ IsInjective(r.keys)
    /\ ToSet(r.keys) \subseteq KeysOf(r.list[r.i])
    /\ r.j \in 1..(Len(r.keys) + 1)
    /\ r.stage # "key" => r.j <= Len(r.keys)

\* The keys that have been tried at the present channel.
Behind(r) ==
  CASE r.stage = "key" -> {r.keys[b] : b \in 1..(r.j - 1)}
    [] r.stage \in {"calling", "kept"} -> {r.keys[b] : b \in 1..r.j}
    [] OTHER -> {}

\* What has been tried are the keys behind, and keys of earlier channels; of
\* every earlier channel with an enabled key one has been tried.
Accounted(r) ==
  /\ IsInjective(r.tried)
  /\ r.stage \in InLoop =>
       /\ Behind(r) \subseteq ToSet(r.tried)
       /\ \A k \in ToSet(r.tried) \ Behind(r) : \E a \in 1..(r.i - 1) : k \in KeysOf(r.list[a])
       /\ \A a \in 1..(r.i - 1) :
            KeysOf(r.list[a]) \cap r.usable # {} => KeysOf(r.list[a]) \cap ToSet(r.tried) # {}

\* The enabled keys of the earlier channels have been tried or passed over,
\* those of the channel at hand are at hand or passed over.
NoneDropped(r) ==
  r.stage \in InLoop =>
    /\ \A a \in 1..(r.i - 1) :
         KeysOf(r.list[a]) \cap r.usable \subseteq ToSet(r.tried) \cup r.passed
    /\ r.stage \in WithKeys =>
         KeysOf(r.list[r.i]) \cap r.usable \subseteq ToSet(r.keys) \cup r.passed

\* The retry without stream_options is the only call that is not counted.
Limited(r) ==
  /\ r.used <= MaxAttempts
  /\ r.calls <= r.used + 1 /\ (r.injected => r.calls <= r.used)

CallSound(r) ==
  /\ r \in Calls /\ Planned(r) /\ Listed(r) /\ Keyed(r)
  /\ Accounted(r) /\ NoneDropped(r) /\ Limited(r)

CallsSound == call \in [Handlers -> Calls] /\ \A h \in Handlers : CallSound(call[h])

DispatchInvariant ==
  /\ CallsSound
  /\ affinity \in [Convs -> Keys \cup {NoKey}]
  /\ starts \in 0..MaxStarts
  /\ guilty \subseteq Keys

-----------------------------------------------------------------------------
(* The helpers on sequences *)

LEMMA RotatedShape ==
  ASSUME NEW S, NEW q \in Seq(S), NEW n \in 0..Len(q)
  PROVE  /\ Rotated(q, n) \in Seq(S) /\ Len(Rotated(q, n)) = Len(q)
         /\ ToSet(Rotated(q, n)) = ToSet(q)
         /\ IsInjective(q) => IsInjective(Rotated(q, n))
         /\ n < Len(q) => Rotated(q, n)[1] = q[n + 1]
<1> DEFINE front == SubSeq(q, n + 1, Len(q))
           back == SubSeq(q, 1, n)
           from(i) == IF i <= Len(q) - n THEN i + n ELSE i - (Len(q) - n)
<1>1. /\ front \in Seq(S) /\ Len(front) = Len(q) - n
      /\ \A i \in 1..(Len(q) - n) : front[i] = q[i + n]
  OBVIOUS
<1>2. /\ back \in Seq(S) /\ Len(back) = n
      /\ \A i \in 1..n : back[i] = q[i]
  OBVIOUS
<1>a. Rotated(q, n) = front \o back
  BY DEF Rotated
<1>b. \A i \in 1..Len(q) : from(i) \in 1..Len(q)
  OBVIOUS
<1>3. /\ front \o back \in Seq(S) /\ Len(front \o back) = Len(q)
      /\ \A i \in 1..Len(q) :
           (front \o back)[i] = IF i <= Len(q) - n THEN front[i] ELSE back[i - (Len(q) - n)]
  <2> HIDE DEF front, back
  <2> QED
    BY <1>1, <1>2
<1>4. \A i \in 1..Len(q) : Rotated(q, n)[i] = q[from(i)]
  <2> TAKE i \in 1..Len(q)
  <2>1. CASE i <= Len(q) - n
    <3>1. i \in 1..(Len(q) - n)
      BY <2>1
    <3>2. (front \o back)[i] = front[i] /\ front[i] = q[i + n]
      <4> HIDE DEF front, back
      <4> QED
        BY <1>1, <1>3, <2>1, <3>1
    <3> QED
      BY <1>a, <2>1, <3>2
  <2>2. CASE ~(i <= Len(q) - n)
    <3>1. i - (Len(q) - n) \in 1..n
      BY <2>2
    <3> HIDE DEF front, back
    <3> QED
      BY <1>a, <1>2, <1>3, <2>2, <3>1
  <2> QED
    BY <2>1, <2>2
<1>5. \A j \in 1..Len(q) : \E i \in 1..Len(q) : from(i) = j
  <2> TAKE j \in 1..Len(q)
  <2>1. CASE j > n
    <3>1. j - n \in 1..Len(q) /\ from(j - n) = j
      BY <2>1
    <3> QED
      BY <3>1
  <2>2. CASE j <= n
    <3>1. j + (Len(q) - n) \in 1..Len(q) /\ from(j + (Len(q) - n)) = j
      BY <2>2
    <3> QED
      BY <3>1
  <2> QED
    BY <2>1, <2>2
<1>6. \A i, j \in 1..Len(q) : from(i) = from(j) => i = j
  OBVIOUS
<1>7. n < Len(q) => from(1) = n + 1 /\ 1 \in 1..Len(q)
  OBVIOUS
<1>8. DOMAIN Rotated(q, n) = 1..Len(q) /\ DOMAIN q = 1..Len(q)
  <2> HIDE DEF front, back
  <2> QED
    BY <1>a, <1>3
<1> HIDE DEF from, front, back
<1>9. ToSet(Rotated(q, n)) = ToSet(q)
  BY <1>4, <1>5, <1>b, <1>8 DEF ToSet
<1>10. IsInjective(q) => IsInjective(Rotated(q, n))
  BY <1>4, <1>6, <1>b, <1>8 DEF IsInjective
<1> QED
  BY <1>a, <1>3, <1>4, <1>7, <1>9, <1>10

LEMMA CutShape ==
  ASSUME NEW S, NEW q \in Seq(S), NEW n \in 0..Len(q)
  PROVE  /\ SubSeq(q, 1, n) \in Seq(S) /\ Len(SubSeq(q, 1, n)) = n
         /\ \A i \in 1..n : SubSeq(q, 1, n)[i] = q[i]
         /\ ToSet(SubSeq(q, 1, n)) \subseteq ToSet(q)
         /\ IsInjective(q) => IsInjective(SubSeq(q, 1, n))
<1>1. /\ SubSeq(q, 1, n) \in Seq(S) /\ Len(SubSeq(q, 1, n)) = n
      /\ \A i \in 1..n : SubSeq(q, 1, n)[i] = q[i]
  OBVIOUS
<1>2. DOMAIN SubSeq(q, 1, n) = 1..n /\ DOMAIN q = 1..Len(q)
  BY <1>1
<1>3. 1..n \subseteq 1..Len(q)
  OBVIOUS
<1> QED
  BY <1>1, <1>2, <1>3 DEF ToSet, IsInjective

\* Bringing an element that is in the sequence to its front.
LEMMA FirstShape ==
  ASSUME NEW S, NEW q \in Seq(S), NEW x, Contains(q, x)
  PROVE  /\ Rotated(q, Place(q, x) - 1) \in Seq(S)
         /\ Len(Rotated(q, Place(q, x) - 1)) = Len(q) /\ Len(q) \in Nat \ {0}
         /\ ToSet(Rotated(q, Place(q, x) - 1)) = ToSet(q)
         /\ IsInjective(q) => IsInjective(Rotated(q, Place(q, x) - 1))
         /\ Rotated(q, Place(q, x) - 1)[1] = x
<1>1. Place(q, x) \in 1..Len(q) /\ q[Place(q, x)] = x /\ Len(q) \in Nat
  BY PlaceShape
<1> DEFINE n == Place(q, x) - 1
<1>2. n \in 0..Len(q) /\ n < Len(q) /\ n + 1 = Place(q, x)
  BY <1>1
<1> HIDE DEF n
<1>3. /\ Rotated(q, n) \in Seq(S) /\ Len(Rotated(q, n)) = Len(q)
      /\ ToSet(Rotated(q, n)) = ToSet(q)
      /\ IsInjective(q) => IsInjective(Rotated(q, n))
      /\ Rotated(q, n)[1] = q[n + 1]
  BY <1>2, RotatedShape
<1> QED
  BY <1>1, <1>2, <1>3 DEF n

LEMMA ChannelsFinite == IsFiniteSet(Channels)
<1>1. ChannelList \in Surjection(1..Len(ChannelList), Channels)
  <2>1. ChannelList \in [1..Len(ChannelList) -> Channels]
    BY DispatchAssumption
  <2>2. \A c \in Channels : \E i \in 1..Len(ChannelList) : ChannelList[i] = c
    BY DispatchAssumption DEF ToSet
  <2> QED
    BY <2>1, <2>2 DEF Surjection
<1>2. Len(ChannelList) \in Nat
  BY DispatchAssumption
<1>3. IsFiniteSet(1..Len(ChannelList))
  BY <1>2, FS_Interval
<1> QED
  BY <1>1, <1>3, FS_Surjection

\* Every order names each of the channels once, the higher priorities first.
LEMMA OrderShape ==
  ASSUME NEW S \in SUBSET Channels, NEW order \in Orders(S)
  PROVE  /\ order \in Seq(Channels) /\ IsInjective(order) /\ ToSet(order) = S
         /\ \A a, b \in DOMAIN order : a < b => Priority[order[a]] >= Priority[order[b]]
<1> DEFINE top == {c \in S : \A d \in S : Priority[d] <= Priority[c]}
           rest == Only(ChannelList, S \ top)
<1>1. PICK q \in SetToSeqs(top) : order = q \o rest
  BY DEF Orders
<1>2. ChannelList \in Seq(Channels) /\ IsInjective(ChannelList) /\ ToSet(ChannelList) = Channels
  BY DispatchAssumption DEF ToSet
<1>3. \A c \in Channels : Priority[c] \in Int
  BY DispatchAssumption
<1>4. top \subseteq Channels /\ top \subseteq S
  OBVIOUS
<1>t. \A c \in top, d \in S : Priority[d] <= Priority[c]
  OBVIOUS
<1>5. /\ rest \in Seq(Channels) /\ IsInjective(rest) /\ ToSet(rest) = S \ top
      /\ \A a, b \in DOMAIN rest : a < b =>
           \E i, j \in DOMAIN ChannelList :
             i < j /\ rest[a] = ChannelList[i] /\ rest[b] = ChannelList[j]
  <2> HIDE DEF top
  <2>1. ToSet(ChannelList) \cap (S \ top) = S \ top
    BY <1>2
  <2> DEFINE low == S \ top
  <2>3. rest = Only(ChannelList, low)
    OBVIOUS
  <2> HIDE DEF low, rest
  <2>2. /\ rest \in Seq(Channels) /\ ToSet(rest) = ToSet(ChannelList) \cap low
        /\ IsInjective(rest)
        /\ \A a, b \in DOMAIN rest : a < b =>
             \E i, j \in DOMAIN ChannelList :
               i < j /\ rest[a] = ChannelList[i] /\ rest[b] = ChannelList[j]
    BY <1>2, <2>3, OnlyShape
  <2> QED
    BY <2>1, <2>2 DEF low
<1>6. \A a, b \in DOMAIN rest : a < b => Priority[rest[a]] >= Priority[rest[b]]
  <2> HIDE DEF top, rest
  <2> QED
    BY <1>5, DispatchAssumption
<1> HIDE DEF top
<1>7. /\ q \in [1..Cardinality(top) -> top] /\ IsInjective(q)
      /\ IsFiniteSet(top) /\ Cardinality(top) \in Nat
  <2>1. q \in [1..Cardinality(top) -> top]
        /\ \A i, j \in 1..Cardinality(top) : i # j => q[i] # q[j]
    BY <1>1 DEF SetToSeqs
  <2>2. IsFiniteSet(top) /\ Cardinality(top) \in Nat
    BY <1>4, ChannelsFinite, FS_Subset, FS_CardinalityType
  <2> QED
    BY <2>1, <2>2 DEF IsInjective
<1>8. q \in Seq(top) /\ q \in Seq(Channels) /\ DOMAIN q = 1..Len(q)
  BY <1>4, <1>7
<1>9. ToSet(q) = top
  <2>1. q \in Injection(1..Cardinality(top), top)
    BY <1>7 DEF Injection
  <2>2. Cardinality(1..Cardinality(top)) = Cardinality(top)
    <3>1. \A n \in Nat : Cardinality(1..n) = n
      BY FS_Interval
    <3> QED
      BY <1>7, <3>1
  <2>3. q \in Surjection(1..Cardinality(top), top)
    BY <1>7, <2>1, <2>2, FS_Injection
  <2> QED
    BY <2>3 DEF Surjection, ToSet
<1> HIDE DEF rest
<1>10. /\ q \o rest \in Seq(Channels) /\ Len(q \o rest) = Len(q) + Len(rest)
       /\ \A i \in 1..(Len(q) + Len(rest)) :
            (q \o rest)[i] = IF i <= Len(q) THEN q[i] ELSE rest[i - Len(q)]
       /\ Len(q) \in Nat /\ Len(rest) \in Nat
  BY <1>5, <1>8
<1> DEFINE n == Len(q)
<1>11. /\ order \in Seq(Channels) /\ DOMAIN order = 1..(n + Len(rest))
       /\ \A i \in 1..n : order[i] = q[i]
       /\ \A i \in 1..Len(rest) : order[n + i] = rest[i]
       /\ \A i \in 1..(n + Len(rest)) : i \in 1..n \/ \E j \in 1..Len(rest) : i = n + j
  <2>1. \A i \in 1..(n + Len(rest)) : i \in 1..n \/ \E j \in 1..Len(rest) : i = n + j
    <3> SUFFICES ASSUME NEW i \in 1..(n + Len(rest)), i \notin 1..n
                 PROVE  \E j \in 1..Len(rest) : i = n + j
      OBVIOUS
    <3>1. i - n \in 1..Len(rest) /\ i = n + (i - n)
      BY <1>10
    <3> QED
      BY <3>1
  <2> QED
    BY <1>1, <1>10, <2>1
<1>12. DOMAIN q = 1..n /\ DOMAIN rest = 1..Len(rest) /\ n \in Nat /\ Len(rest) \in Nat
  BY <1>5, <1>8, <1>10
<1> HIDE DEF n
<1>13. ToSet(order) = S
  <2>1. ToSet(order) \subseteq ToSet(q) \cup ToSet(rest)
    <3> SUFFICES ASSUME NEW i \in 1..(n + Len(rest))
                 PROVE  order[i] \in ToSet(q) \cup ToSet(rest)
      BY <1>11 DEF ToSet
    <3>1. CASE i \in 1..n
      BY <1>11, <1>12, <3>1 DEF ToSet
    <3>2. CASE \E j \in 1..Len(rest) : i = n + j
      BY <1>11, <1>12, <3>2 DEF ToSet
    <3> QED
      BY <1>11, <3>1, <3>2
  <2>2. ToSet(q) \subseteq ToSet(order) /\ ToSet(rest) \subseteq ToSet(order)
    <3>1. 1..n \subseteq 1..(n + Len(rest))
      BY <1>12
    <3>2. \A i \in 1..Len(rest) : n + i \in 1..(n + Len(rest))
      BY <1>12
    <3> QED
      BY <1>11, <1>12, <3>1, <3>2 DEF ToSet
  <2> QED
    BY <1>4, <1>5, <1>9, <2>1, <2>2
<1>14. /\ \A i \in 1..n : order[i] \in top
       /\ \A i \in 1..Len(rest) : order[n + i] \in S \ top
  BY <1>5, <1>9, <1>11, <1>12 DEF ToSet
<1>15. IsInjective(order)
  <2> SUFFICES ASSUME NEW a \in 1..(n + Len(rest)), NEW b \in 1..(n + Len(rest)),
                      order[a] = order[b]
               PROVE  a = b
    BY <1>11 DEF IsInjective
  <2>1. CASE a \in 1..n /\ b \in 1..n
    BY <1>7, <1>11, <1>12, <2>1 DEF IsInjective
  <2>2. CASE \E i, j \in 1..Len(rest) : a = n + i /\ b = n + j
    <3>1. PICK i \in 1..Len(rest), j \in 1..Len(rest) : a = n + i /\ b = n + j
      BY <2>2
    <3>2. rest[i] = rest[j]
      BY <1>11, <3>1
    <3> QED
      BY <1>5, <1>12, <3>1, <3>2 DEF IsInjective
  <2> QED
    BY <1>11, <1>14, <2>1, <2>2
<1>16. ASSUME NEW a \in 1..(n + Len(rest)), NEW b \in 1..(n + Len(rest)), a < b
       PROVE  Priority[order[a]] >= Priority[order[b]]
  <2>1. order[b] \in S
    BY <1>11, <1>13 DEF ToSet
  <2>2. CASE a \in 1..n
    <3>1. Priority[order[b]] <= Priority[order[a]]
      BY <1>t, <1>14, <2>1, <2>2
    <3> QED
      BY <1>3, <1>4, <1>14, <2>1, <2>2, <3>1
  <2>3. CASE a \notin 1..n
    <3>1. PICK i \in 1..Len(rest) : a = n + i
      BY <1>11, <2>3
    <3>2. b \notin 1..n
      BY <1>12, <1>16, <2>3
    <3>3. PICK j \in 1..Len(rest) : b = n + j
      BY <1>11, <3>2
    <3>4. i < j
      BY <1>12, <1>16, <3>1, <3>3
    <3> QED
      BY <1>6, <1>11, <1>12, <3>1, <3>3, <3>4
  <2> QED
    BY <2>2, <2>3
<1> QED
  BY <1>11, <1>13, <1>15, <1>16

\* The channels that will be tried: the order, turned to the channel of the
\* remembered key if it is there, and cut to the attempts.
LEMMA ListShape ==
  ASSUME NEW S \in SUBSET Channels, NEW order \in Orders(S), NEW k \in Keys \cup {NoKey}
  PROVE  LET list == Attempts(order, k)
             pref == IF k # NoKey /\ ChannelOf(k) \in S THEN k ELSE NoKey
         IN  /\ list \in Seq(Channels) /\ Len(list) <= MaxAttempts
             /\ IsInjective(list) /\ ToSet(list) \subseteq S
             /\ pref = NoKey => \A c \in S, a \in DOMAIN list :
                  Priority[c] > Priority[list[a]] => \E b \in 1..(a - 1) : list[b] = c
             /\ pref # NoKey => list # <<>> /\ list[1] = ChannelOf(pref)
             /\ Len(list) = MaxAttempts \/ S \subseteq ToSet(list)
<1> DEFINE all == Preferred(order, k)
           n == IF Len(all) < MaxAttempts THEN Len(all) ELSE MaxAttempts
           list == Attempts(order, k)
           turned == k # NoKey /\ ChannelOf(k) \in S
<1>1. /\ order \in Seq(Channels) /\ IsInjective(order) /\ ToSet(order) = S
      /\ \A a, b \in DOMAIN order : a < b => Priority[order[a]] >= Priority[order[b]]
  BY OrderShape
<1>2. MaxAttempts \in Nat \ {0}
  BY DispatchAssumption
<1>3. list = SubSeq(all, 1, n)
  BY DEF Attempts
<1>4. Contains(order, ChannelOf(k)) <=> ChannelOf(k) \in S
  <2>1. DOMAIN order = 1..Len(order)
    BY <1>1
  <2> QED
    BY <1>1, <2>1 DEF Contains, ToSet
<1>5. ~turned => all = order
  BY <1>4 DEF Preferred
<1>6. turned => /\ all \in Seq(Channels) /\ Len(all) \in Nat \ {0} /\ ToSet(all) = S
                /\ IsInjective(all) /\ all[1] = ChannelOf(k)
  <2> SUFFICES ASSUME turned
               PROVE  /\ all \in Seq(Channels) /\ Len(all) \in Nat \ {0} /\ ToSet(all) = S
                      /\ IsInjective(all) /\ all[1] = ChannelOf(k)
    OBVIOUS
  <2>1. all = Rotated(order, Place(order, ChannelOf(k)) - 1)
    BY <1>4 DEF Preferred
  <2>2. Contains(order, ChannelOf(k))
    BY <1>4
  <2> QED
    BY <1>1, <2>1, <2>2, FirstShape
<1>7. all \in Seq(Channels) /\ Len(all) \in Nat /\ ToSet(all) = S /\ IsInjective(all)
  <2> HIDE DEF all
  <2> QED
    BY <1>1, <1>5, <1>6
<1> HIDE DEF all
<1>8. /\ n \in 0..Len(all) /\ n <= MaxAttempts /\ (Len(all) # 0 => n # 0)
      /\ n = MaxAttempts \/ n = Len(all)
  BY <1>2, <1>7
<1> HIDE DEF n
<1>9. /\ list \in Seq(Channels) /\ Len(list) = n
      /\ \A i \in 1..n : list[i] = all[i]
      /\ ToSet(list) \subseteq S /\ IsInjective(list)
  <2> HIDE DEF list
  <2> QED
    BY <1>3, <1>7, <1>8, CutShape
<1>10. ASSUME ~turned, NEW c \in S, NEW a \in DOMAIN list, Priority[c] > Priority[list[a]]
       PROVE  \E b \in 1..(a - 1) : list[b] = c
  <2>1. a \in 1..n /\ a \in 1..Len(order) /\ list[a] = order[a]
    <3> HIDE DEF list
    <3>1. DOMAIN list = 1..n
      BY <1>8, <1>9
    <3> QED
      BY <1>5, <1>8, <1>9, <1>10, <3>1
  <2>2. PICK b \in DOMAIN order : order[b] = c
    BY <1>1 DEF ToSet
  <2>3. order[a] \in Channels /\ c \in Channels /\ Priority[c] \in Int /\ Priority[order[a]] \in Int
    BY <1>1, <2>1, DispatchAssumption
  <2>4. ~(a <= b)
    <3>1. a \in DOMAIN order
      BY <1>1, <2>1
    <3>2. ~(a < b)
      BY <1>1, <1>10, <2>1, <2>2, <2>3, <3>1
    <3> HIDE DEF list
    <3>3. a # b
      BY <1>10, <2>1, <2>2, <2>3
    <3> QED
      BY <1>1, <2>1, <3>2, <3>3
  <2>5. b \in 1..(a - 1) /\ b \in 1..n
    BY <1>1, <1>8, <1>7, <2>1, <2>4
  <2>6. list[b] = c
    <3> HIDE DEF list
    <3> QED
      BY <1>5, <1>9, <1>10, <2>2, <2>5
  <2> QED
    BY <2>5, <2>6
<1>11. turned => list # <<>> /\ list[1] = ChannelOf(k)
  <2> HIDE DEF list
  <2> SUFFICES ASSUME turned
               PROVE  list # <<>> /\ list[1] = ChannelOf(k)
    OBVIOUS
  <2>1. 1 \in 1..n /\ Len(list) # 0
    BY <1>6, <1>8, <1>9
  <2> QED
    BY <1>6, <1>9, <2>1
<1> HIDE DEF list
<1>12. ASSUME n = Len(all)
       PROVE  S \subseteq ToSet(list)
  <2>1. DOMAIN list = 1..n /\ DOMAIN all = 1..n
    BY <1>7, <1>9, <1>12
  <2> QED
    BY <1>7, <1>9, <2>1 DEF ToSet
<1> QED
  BY <1>8, <1>9, <1>10, <1>11, <1>12 DEF list

\* The keys of a channel that are tried: enabled ones, none of them twice, and
\* some if there are any.
LEMMA AvailableShape ==
  ASSUME NEW c \in Channels, NEW usable \in SUBSET Keys, NEW q \in Available(c, usable)
  PROVE  /\ q \in Seq(Keys) /\ IsInjective(q) /\ ToSet(q) \subseteq KeysOf(c) \cap usable
         /\ q = <<>> => KeysOf(c) \cap usable = {}
         /\ KeysOf(c) \cap usable \subseteq ToSet(q) \cup Deferred(c, usable)
<1> DEFINE on == Only(KeyList[c], usable)
           ready == Only(KeyList[c], {k \in usable : ~ Health!Cooling(k)})
           all == IF ready = <<>> THEN on ELSE ready
<1>1. KeyList[c] \in Seq(Keys) /\ IsInjective(KeyList[c])
  BY DispatchAssumption
<1>2. on \in Seq(Keys) /\ IsInjective(on) /\ ToSet(on) = KeysOf(c) \cap usable
  BY <1>1, OnlyShape DEF KeysOf
<1>3. /\ ready \in Seq(Keys) /\ IsInjective(ready)
      /\ ToSet(ready) = {k \in KeysOf(c) \cap usable : ~ Health!Cooling(k)}
  <2> DEFINE cold == {k \in usable : ~ Health!Cooling(k)}
  <2>1. ready = Only(KeyList[c], cold) /\ cold \subseteq usable
    OBVIOUS
  <2> HIDE DEF cold, ready
  <2>2. ready \in Seq(Keys) /\ IsInjective(ready) /\ ToSet(ready) = ToSet(KeyList[c]) \cap cold
    BY <1>1, <2>1, OnlyShape
  <2>3. ToSet(KeyList[c]) \cap cold = {k \in KeysOf(c) \cap usable : ~ Health!Cooling(k)}
    BY DEF cold, KeysOf
  <2> QED
    BY <2>1, <2>2, <2>3
<1>4. IF all = <<>> THEN q = <<>> ELSE \E n \in 0..(Len(all) - 1) : q = Rotated(all, n)
  BY DEF Available
<1>d. KeysOf(c) \cap usable \subseteq ToSet(all) \cup Deferred(c, usable)
  <2> DEFINE cooling == {k \in KeysOf(c) \cap usable : Health!Cooling(k)}
  <2>1. Deferred(c, usable) = IF cooling = KeysOf(c) \cap usable THEN {} ELSE cooling
    BY DEF Deferred, KeysOf
  <2> HIDE DEF on, ready
  <2>2. CASE cooling = KeysOf(c) \cap usable
    <3>1. ToSet(ready) = {}
      BY <1>3, <2>2
    <3>2. ready = <<>>
      <4>1. DOMAIN ready = 1..Len(ready) /\ Len(ready) \in Nat
        BY <1>3
      <4>2. 1 \notin DOMAIN ready
        BY <3>1 DEF ToSet
      <4> QED
        BY <1>3, <4>1, <4>2
    <3> QED
      BY <1>2, <3>2
  <2>3. CASE cooling # KeysOf(c) \cap usable
    <3>1. ToSet(ready) # {}
      BY <1>3, <2>3
    <3>2. ready # <<>>
      BY <3>1 DEF ToSet
    <3> QED
      BY <1>3, <2>1, <2>3, <3>2
  <2> QED
    BY <2>2, <2>3
<1> HIDE DEF on, ready
<1>5. /\ all \in Seq(Keys) /\ IsInjective(all) /\ ToSet(all) \subseteq KeysOf(c) \cap usable
      /\ all = <<>> => on = <<>>
  BY <1>2, <1>3
<1> HIDE DEF all
<1>6. CASE all = <<>>
  <2>1. q = <<>> /\ on = <<>> /\ q = all
    BY <1>4, <1>5, <1>6
  <2>2. KeysOf(c) \cap usable = {}
    BY <1>2, <2>1 DEF ToSet
  <2> QED
    BY <1>5, <1>d, <2>1, <2>2
<1>7. CASE all # <<>>
  <2>1. PICK n \in 0..(Len(all) - 1) : q = Rotated(all, n)
    BY <1>4, <1>7
  <2>2. n \in 0..Len(all) /\ n < Len(all) /\ Len(all) \in Nat
    BY <1>5, <2>1
  <2>3. q \in Seq(Keys) /\ Len(q) = Len(all) /\ ToSet(q) = ToSet(all) /\ IsInjective(q)
    BY <1>5, <2>1, <2>2, RotatedShape
  <2>4. q # <<>>
    BY <2>2, <2>3
  <2> QED
    BY <1>5, <1>d, <2>3, <2>4
<1> QED
  BY <1>6, <1>7

LEMMA KeyFirstShape ==
  ASSUME NEW q \in Seq(Keys), IsInjective(q), q # <<>>, NEW k
  PROVE  /\ KeyFirst(q, k) \in Seq(Keys) /\ IsInjective(KeyFirst(q, k))
         /\ ToSet(KeyFirst(q, k)) = ToSet(q) /\ KeyFirst(q, k) # <<>>
<1>1. CASE Contains(q, k)
  <2>1. KeyFirst(q, k) = Rotated(q, Place(q, k) - 1)
    BY <1>1 DEF KeyFirst
  <2>2. /\ KeyFirst(q, k) \in Seq(Keys) /\ IsInjective(KeyFirst(q, k))
        /\ ToSet(KeyFirst(q, k)) = ToSet(q)
        /\ Len(KeyFirst(q, k)) = Len(q) /\ Len(q) \in Nat \ {0}
    BY <1>1, <2>1, FirstShape
  <2> QED
    BY <2>2
<1>2. CASE ~Contains(q, k)
  BY <1>2 DEF KeyFirst
<1> QED
  BY <1>1, <1>2

-----------------------------------------------------------------------------
(* Every step of a handler keeps its locals sound *)

LEMMA NoCallSound == CallSound(NoCall)
<1>1. NoCall \in Calls
  BY DEF NoCall, Calls, Stages, Outcomes, Answers
<1>2. /\ NoCall.stage = "idle" /\ NoCall.list = <<>> /\ NoCall.tried = <<>>
      /\ NoCall.used = 0 /\ NoCall.calls = 0 /\ NoCall.injected = FALSE
  BY DEF NoCall
<1>3. IsInjective(<<>>)
  BY DEF IsInjective
<1> QED
  BY <1>1, <1>2, <1>3, DispatchAssumption
  DEF CallSound, Planned, Listed, Keyed, Accounted, NoneDropped, Limited, InLoop, WithKeys

LEMMA MovedSound ==
  ASSUME CallsSound, NEW h \in Handlers, NEW r, CallSound(r), Moved(h, r)
  PROVE  CallsSound'
<1>1. r \in Calls
  BY DEF CallSound
<1>2. /\ call' \in [Handlers -> Calls]
      /\ \A g \in Handlers : call'[g] = IF g = h THEN r ELSE call[g]
  BY <1>1 DEF Moved, CallsSound
<1> QED
  BY <1>2 DEF CallsSound

LEMMA ArriveStep ==
  ASSUME CallsSound, NEW h \in Handlers, NEW plan \in Plans, NEW stream \in BOOLEAN,
         Arrive(h, plan, stream)
  PROVE  CallsSound'
<1> DEFINE on == {k \in Keys : enabled[k]}
           r == [NoCall EXCEPT !.stage = "model", !.plan = plan, !.m = 1, !.stream = stream,
                               !.usable = on]
<1>0. on \subseteq Keys
  OBVIOUS
<1>1. /\ r \in Calls /\ r.stage = "model" /\ r.plan = plan /\ r.m = 1 /\ r.list = <<>>
      /\ r.tried = <<>> /\ r.used = 0 /\ r.calls = 0 /\ r.injected = FALSE
  <2> HIDE DEF on
  <2> QED
    <3>1. /\ r.stage = "model" /\ r.plan = plan /\ r.m = 1 /\ r.list = <<>>
          /\ r.tried = <<>> /\ r.used = 0 /\ r.calls = 0 /\ r.injected = FALSE
      BY DEF NoCall
    <3>2. NoCall \in Calls
      BY NoCallSound DEF CallSound
    <3>3. r \in Calls
      BY <1>0, <3>2 DEF Calls, Stages
    <3> QED
      BY <3>1, <3>3
<1>2. Moved(h, r)
  BY DEF Arrive
<1>3. 1 \in 1..Len(plan)
  BY DispatchAssumption
<1>4. IsInjective(<<>>)
  BY DEF IsInjective
<1> HIDE DEF r
<1>5. CallSound(r)
  BY <1>1, <1>3, <1>4, DispatchAssumption
  DEF CallSound, Planned, Listed, Keyed, Accounted, NoneDropped, Limited, InLoop, WithKeys
<1> QED
  BY <1>2, <1>5, MovedSound

LEMMA PlanShape ==
  ASSUME NEW r \in Calls, Planned(r), r.stage # "idle"
  PROVE  /\ r.plan \in Plans /\ r.m \in 1..Len(r.plan)
         /\ r.plan[r.m].chans \in SUBSET Channels
         /\ r.plan[r.m].conv \in Convs \cup {NoConv}
<1>1. r.plan \in Plans /\ r.m \in 1..Len(r.plan)
  BY DEF Planned
<1> DEFINE Step == [chans : SUBSET Channels, conv : Convs \cup {NoConv}]
<1>2. r.plan[r.m] \in Step
  <2>1. r.plan \in Seq(Step)
    BY <1>1, DispatchAssumption
  <2> HIDE DEF Step
  <2> QED
    BY <1>1, <2>1
<1> QED
  BY <1>1, <1>2

LEMMA StartModelStep ==
  ASSUME DispatchInvariant, NEW h \in Handlers, StartModel(h)
  PROVE  CallsSound'
<1> DEFINE o == call[h]
           S == o.plan[o.m].chans
           conv == o.plan[o.m].conv
           seen == IF conv = NoConv THEN NoKey ELSE affinity[conv]
           pref == IF seen # NoKey /\ ChannelOf(seen) \in S THEN seen ELSE NoKey
<1>1. CallSound(o) /\ o \in Calls /\ o.stage = "model" /\ CallsSound
  BY DEF DispatchInvariant, CallsSound, StartModel, Ready, CallSound
<1>2. /\ o.plan \in Plans /\ o.m \in 1..Len(o.plan)
      /\ S \in SUBSET Channels /\ conv \in Convs \cup {NoConv}
  BY <1>1, PlanShape DEF CallSound
<1>3. seen \in Keys \cup {NoKey}
  BY <1>2 DEF DispatchInvariant
<1> DEFINE r(order) ==
      [o EXCEPT !.stage = "channel", !.list = Attempts(order, seen), !.i = 1,
                !.keys = <<>>, !.j = 0, !.used = 0, !.tried = <<>>,
                !.passed = {}, !.calls = 0, !.injected = o.stream, !.answer = "none",
                !.pref = pref]
<1>4. PICK order \in Orders(S) : Moved(h, r(order))
  BY DEF StartModel
<1> DEFINE list == Attempts(order, seen)
<1> HIDE DEF S, conv, seen
<1>5. /\ list \in Seq(Channels) /\ Len(list) <= MaxAttempts
      /\ IsInjective(list) /\ ToSet(list) \subseteq S
      /\ pref = NoKey => \A c \in S, a \in DOMAIN list :
           Priority[c] > Priority[list[a]] => \E b \in 1..(a - 1) : list[b] = c
      /\ pref # NoKey => list # <<>> /\ list[1] = ChannelOf(pref)
      /\ Len(list) = MaxAttempts \/ S \subseteq ToSet(list)
  BY <1>2, <1>3, ListShape
<1>6. pref \in Keys \cup {NoKey}
  BY <1>3
<1> HIDE DEF list, pref
<1> DEFINE n == r(order)
<1>7. /\ n \in Calls /\ n.stage = "channel" /\ n.plan = o.plan /\ n.m = o.m
      /\ n.list = list /\ n.i = 1 /\ n.tried = <<>> /\ n.pref = pref
      /\ n.used = 0 /\ n.calls = 0 /\ n.injected \in BOOLEAN
  <2>1. n = [o EXCEPT !.stage = "channel", !.list = list, !.i = 1,
                      !.keys = <<>>, !.j = 0, !.used = 0, !.tried = <<>>,
                      !.passed = {}, !.calls = 0, !.injected = o.stream, !.answer = "none",
                      !.pref = pref]
    BY DEF list
  <2> HIDE DEF n, o
  <2>2. o \in Calls
    BY <1>1
  <2> QED
    <3>1. n \in Calls
      <4>1. /\ "channel" \in Stages /\ "none" \in Outcomes \cup {"none"}
            /\ <<>> \in Seq(Keys) /\ 0 \in Nat /\ 1 \in Nat
            /\ list \in Seq(Channels) /\ o.stream \in BOOLEAN /\ pref \in Keys \cup {NoKey}
        BY <1>5, <1>6, <2>2 DEF Stages, Calls
      <4> QED
        BY <2>1, <2>2, <4>1, Zenon DEF Calls
    <3>2. /\ n.stage = "channel" /\ n.plan = o.plan /\ n.m = o.m
          /\ n.list = list /\ n.i = 1 /\ n.tried = <<>> /\ n.pref = pref
          /\ n.used = 0 /\ n.calls = 0 /\ n.injected \in BOOLEAN
      BY <2>1, <2>2 DEF Calls
    <3> QED
      BY <3>1, <3>2
<1> HIDE DEF n, o
<1>8. Planned(n)
  BY <1>2, <1>7 DEF Planned
<1>9. Listed(n)
  BY <1>5, <1>7 DEF Listed, ChansOf, InLoop, S
<1>10. Keyed(n) /\ Limited(n)
  BY <1>7, DispatchAssumption DEF Keyed, Limited, WithKeys
<1>12. NoneDropped(n)
  BY <1>7 DEF NoneDropped, WithKeys
<1>11. Accounted(n)
  BY <1>7 DEF Accounted, IsInjective, Behind, InLoop, ToSet
<1> QED
  BY <1>1, <1>4, <1>7, <1>8, <1>9, <1>10, <1>11, <1>12, MovedSound DEF CallSound, n

LEMMA NextChannelStep ==
  ASSUME CallsSound, NEW h \in Handlers, NextChannel(h)
  PROVE  CallsSound'
<1> DEFINE o == call[h]
           c == o.list[o.i]
<1>1. CallSound(o) /\ o \in Calls /\ o.stage = "channel" /\ o.i <= Len(o.list)
  BY DEF CallsSound, NextChannel, CallSound
<1>2. /\ o.i \in 1..Len(o.list) /\ IsInjective(o.list) /\ o.list \in Seq(Channels)
      /\ o.usable \in SUBSET Keys /\ c \in Channels
  BY <1>1 DEF CallSound, Listed, InLoop, Calls
<1>3. PICK q \in Available(c, o.usable) :
        Moved(h, IF q = <<>> THEN [o EXCEPT !.i = @ + 1]
                 ELSE [o EXCEPT !.stage = "key", !.keys = KeyFirst(q, o.pref), !.j = 1,
                                !.passed = @ \cup Deferred(c, o.usable)])
  BY DEF NextChannel
<1>4. /\ q \in Seq(Keys) /\ IsInjective(q) /\ ToSet(q) \subseteq KeysOf(c) \cap o.usable
      /\ q = <<>> => KeysOf(c) \cap o.usable = {}
      /\ KeysOf(c) \cap o.usable \subseteq ToSet(q) \cup Deferred(c, o.usable)
  BY <1>2, <1>3, AvailableShape
<1>5. CASE q = <<>>
  <2> DEFINE r == [o EXCEPT !.i = @ + 1]
  <2>1. /\ r \in Calls /\ r.stage = "channel" /\ r.i = o.i + 1 /\ r.plan = o.plan /\ r.m = o.m
        /\ r.list = o.list /\ r.tried = o.tried /\ r.usable = o.usable
        /\ r.passed = o.passed /\ r.pref = o.pref
        /\ r.used = o.used /\ r.calls = o.calls /\ r.injected = o.injected
    <3>1. o.i + 1 \in Nat
      BY <1>2
    <3>2. r \in Calls
      BY <1>1, <3>1, Zenon DEF Calls
    <3> QED
      BY <1>1, <3>2 DEF Calls
  <2>2. Moved(h, r)
    BY <1>3, <1>5
  <2> HIDE DEF r, o
  <2>3. Planned(r) /\ Limited(r) /\ Keyed(r)
    BY <1>1, <2>1 DEF CallSound, Planned, Limited, Keyed, WithKeys
  <2>4. Listed(r)
    BY <1>1, <1>2, <2>1 DEF CallSound, Listed, InLoop, ChansOf
  <2>5. Accounted(r)
    <3>1. Behind(o) = {} /\ Behind(r) = {}
      BY <1>1, <2>1 DEF Behind
    <3>2. \A a \in 1..(r.i - 1) : a \in 1..(o.i - 1) \/ a = o.i
      BY <1>2, <2>1
    <3>3. \A a \in 1..(o.i - 1) : a \in 1..(r.i - 1)
      BY <1>2, <2>1
    <3> QED
      BY <1>1, <1>4, <1>5, <2>1, <3>1, <3>2, <3>3 DEF CallSound, Accounted, InLoop
  <2>6. NoneDropped(r)
    <3>1. \A a \in 1..(r.i - 1) : a \in 1..(o.i - 1) \/ a = o.i
      BY <1>2, <2>1
    <3> QED
      BY <1>1, <1>4, <1>5, <2>1, <3>1 DEF CallSound, NoneDropped, InLoop, WithKeys
  <2> QED
    BY <2>1, <2>2, <2>3, <2>4, <2>5, <2>6, MovedSound DEF CallSound
<1>6. CASE q # <<>>
  <2> DEFINE keys == KeyFirst(q, o.pref)
             over == o.passed \cup Deferred(c, o.usable)
             r == [o EXCEPT !.stage = "key", !.keys = keys, !.j = 1, !.passed = over]
  <2>1. keys \in Seq(Keys) /\ IsInjective(keys) /\ ToSet(keys) = ToSet(q) /\ keys # <<>>
    BY <1>4, <1>6, KeyFirstShape
  <2>2. Moved(h, r)
    BY <1>3, <1>6
  <2>a. over \subseteq Keys
    BY <1>1, <1>2 DEF Calls, Deferred
  <2> HIDE DEF keys, over
  <2>3. /\ r \in Calls /\ r.stage = "key" /\ r.keys = keys /\ r.j = 1 /\ r.i = o.i
        /\ r.plan = o.plan /\ r.m = o.m
        /\ r.list = o.list /\ r.tried = o.tried /\ r.usable = o.usable /\ r.passed = over
        /\ r.pref = o.pref
        /\ r.used = o.used /\ r.calls = o.calls /\ r.injected = o.injected
    BY <1>1, <2>1, <2>a DEF Calls, Stages
  <2> HIDE DEF r, o
  <2>4. Planned(r) /\ Limited(r)
    BY <1>1, <2>3 DEF CallSound, Planned, Limited
  <2>5. Listed(r)
    BY <1>1, <1>2, <2>3 DEF CallSound, Listed, InLoop, ChansOf
  <2>6. Keyed(r)
    <3>1. r.j \in 1..(Len(r.keys) + 1) /\ DOMAIN r.list = 1..Len(r.list)
      BY <1>2, <2>1, <2>3
    <3> QED
      BY <1>2, <1>4, <2>1, <2>3, <3>1 DEF Keyed, WithKeys, c
  <2>7. Accounted(r)
    <3>1. Behind(o) = {} /\ Behind(r) = {}
      BY <1>1, <2>3 DEF Behind
    <3> QED
      BY <1>1, <2>3, <3>1 DEF CallSound, Accounted, InLoop
  <2>8. NoneDropped(r)
    BY <1>1, <1>4, <2>1, <2>3 DEF CallSound, NoneDropped, InLoop, WithKeys, c, over
  <2> QED
    BY <2>2, <2>3, <2>4, <2>5, <2>6, <2>7, <2>8, MovedSound DEF CallSound
<1> QED
  BY <1>5, <1>6

\* The next key, or on to the next channel when all of this one are behind.
LEMMA NextKeyStep ==
  ASSUME CallsSound, NEW h \in Handlers, NextKey(h)
  PROVE  CallsSound'
<1> DEFINE o == call[h]
<1>1. CallSound(o) /\ o \in Calls /\ o.stage = "key"
  BY DEF CallsSound, NextKey, Ready, CallSound
<1>2. /\ o.i \in 1..Len(o.list) /\ IsInjective(o.list) /\ o.list \in Seq(Channels)
      /\ o.j \in 1..(Len(o.keys) + 1) /\ IsInjective(o.keys) /\ o.keys \in Seq(Keys)
      /\ o.keys # <<>> /\ ToSet(o.keys) \subseteq KeysOf(o.list[o.i])
      /\ o.tried \in Seq(Keys) /\ o.used \in Nat /\ o.calls \in Nat
  BY <1>1 DEF CallSound, Listed, Keyed, InLoop, WithKeys, Calls
<1>3. CASE o.j > Len(o.keys) /\ Moved(h, [o EXCEPT !.stage = "channel", !.i = @ + 1])
  <2> DEFINE r == [o EXCEPT !.stage = "channel", !.i = @ + 1]
  <2>1. /\ r \in Calls /\ r.stage = "channel" /\ r.i = o.i + 1 /\ r.plan = o.plan /\ r.m = o.m
        /\ r.list = o.list /\ r.tried = o.tried /\ r.usable = o.usable
        /\ r.passed = o.passed /\ r.pref = o.pref
        /\ r.used = o.used /\ r.calls = o.calls /\ r.injected = o.injected
    <3>1. o.i + 1 \in Nat /\ "channel" \in Stages
      BY <1>2 DEF Stages
    <3>2. r \in Calls
      BY <1>1, <3>1, Zenon DEF Calls
    <3> QED
      BY <1>1, <3>2 DEF Calls
  <2>2. Moved(h, r)
    BY <1>3
  <2> HIDE DEF r, o
  <2>3. Planned(r) /\ Limited(r) /\ Keyed(r)
    BY <1>1, <2>1 DEF CallSound, Planned, Limited, Keyed, WithKeys
  <2>4. Listed(r)
    BY <1>1, <1>2, <2>1 DEF CallSound, Listed, InLoop, ChansOf
  <2>5. Accounted(r)
    <3>1. Behind(r) = {} /\ Behind(o) = {o.keys[b] : b \in 1..(o.j - 1)}
      BY <1>1, <2>1 DEF Behind
    <3>2. Behind(o) \subseteq KeysOf(o.list[o.i])
      <4>1. 1..(o.j - 1) \subseteq DOMAIN o.keys
        BY <1>2
      <4> QED
        BY <1>2, <3>1, <4>1 DEF ToSet
    <3>3. o.keys[1] \in Behind(o)
      <4>1. 1 \in 1..(o.j - 1)
        BY <1>2, <1>3
      <4> QED
        BY <3>1, <4>1
    <3>4. \A a \in 1..(r.i - 1) : a \in 1..(o.i - 1) \/ a = o.i
      BY <1>2, <2>1
    <3>5. (\A a \in 1..(o.i - 1) : a \in 1..(r.i - 1)) /\ o.i \in 1..(r.i - 1)
      BY <1>2, <2>1
    <3>6. Behind(o) \subseteq ToSet(o.tried)
      BY <1>1 DEF CallSound, Accounted, InLoop
    <3>7. \A k \in ToSet(r.tried) \ Behind(r) : \E a \in 1..(r.i - 1) : k \in KeysOf(r.list[a])
      BY <1>1, <2>1, <3>1, <3>2, <3>5 DEF CallSound, Accounted, InLoop
    <3>8. \A a \in 1..(r.i - 1) : KeysOf(r.list[a]) \cap r.usable # {}
            => KeysOf(r.list[a]) \cap ToSet(r.tried) # {}
      BY <1>1, <2>1, <3>2, <3>3, <3>4, <3>6 DEF CallSound, Accounted, InLoop
    <3> QED
      BY <1>1, <2>1, <3>1, <3>7, <3>8 DEF CallSound, Accounted, InLoop
  <2>6. NoneDropped(r)
    <3>1. ToSet(o.keys) \subseteq ToSet(o.tried)
      <4>1. Behind(o) = {o.keys[b] : b \in 1..(o.j - 1)}
        BY <1>1 DEF Behind
      <4>2. DOMAIN o.keys \subseteq 1..(o.j - 1)
        BY <1>2, <1>3
      <4>3. Behind(o) \subseteq ToSet(o.tried)
        BY <1>1 DEF CallSound, Accounted, InLoop
      <4> QED
        BY <4>1, <4>2, <4>3 DEF ToSet
    <3>2. \A a \in 1..(r.i - 1) : a \in 1..(o.i - 1) \/ a = o.i
      BY <1>2, <2>1
    <3> QED
      BY <1>1, <2>1, <3>1, <3>2 DEF CallSound, NoneDropped, InLoop, WithKeys
  <2> QED
    BY <2>1, <2>2, <2>3, <2>4, <2>5, <2>6, MovedSound DEF CallSound
<1>4. CASE /\ o.j <= Len(o.keys) /\ o.used < MaxAttempts
           /\ Moved(h, [o EXCEPT !.stage = "calling", !.used = @ + 1, !.calls = @ + 1,
                                 !.tried = Append(@, Key(h))])
  <2> DEFINE k == o.keys[o.j]
             r == [o EXCEPT !.stage = "calling", !.used = @ + 1, !.calls = @ + 1,
                            !.tried = Append(@, k)]
  <2>1. o.j \in 1..Len(o.keys) /\ k \in Keys /\ k \in KeysOf(o.list[o.i])
    BY <1>2, <1>4 DEF ToSet
  <2>2. Moved(h, r)
    BY <1>4 DEF Key
  <2>a. Append(o.tried, k) \in Seq(Keys)
    BY <1>2, <2>1
  <2> HIDE DEF k
  <2>3. /\ r \in Calls /\ r.stage = "calling" /\ r.keys = o.keys /\ r.j = o.j /\ r.i = o.i
        /\ r.plan = o.plan /\ r.m = o.m
        /\ r.list = o.list /\ r.tried = Append(o.tried, k) /\ r.usable = o.usable
        /\ r.passed = o.passed /\ r.pref = o.pref
        /\ r.used = o.used + 1 /\ r.calls = o.calls + 1 /\ r.injected = o.injected
    <3>1. "calling" \in Stages /\ o.used + 1 \in Nat /\ o.calls + 1 \in Nat
      BY <1>2 DEF Stages
    <3>2. r \in Calls
      BY <1>1, <2>a, <3>1, Zenon DEF Calls
    <3> QED
      BY <1>1, <3>2 DEF Calls
  <2> HIDE DEF r, o
  <2>4. Planned(r) /\ Limited(r)
    <3>1. Limited(o) /\ Planned(o)
      BY <1>1 DEF CallSound
    <3>2. o.used + 1 <= MaxAttempts /\ o.calls + 1 <= o.used + 1 + 1
      <4>1. o.used < MaxAttempts /\ o.used \in Nat /\ o.calls \in Nat /\ MaxAttempts \in Nat
        BY <1>2, <1>4, DispatchAssumption
      <4>2. o.calls <= o.used + 1
        BY <3>1, Zenon DEF Limited
      <4> QED
        BY <4>1, <4>2
    <3>3. o.calls <= o.used => o.calls + 1 <= o.used + 1
      BY <1>2
    <3>4. r.injected => o.calls <= o.used
      BY <2>3, <3>1 DEF Limited
    <3> QED
      BY <1>1, <2>3, <3>1, <3>2, <3>3, <3>4 DEF Planned, Limited
  <2>5. Listed(r)
    BY <1>1, <1>2, <2>3 DEF CallSound, Listed, InLoop, ChansOf
  <2>6. Keyed(r)
    BY <1>1, <1>4, <2>3 DEF CallSound, Keyed, WithKeys
  <2>7. Behind(o) = {o.keys[b] : b \in 1..(o.j - 1)} /\ Behind(r) = {o.keys[b] : b \in 1..o.j}
    BY <1>1, <2>3 DEF Behind
  <2>8. Behind(r) = Behind(o) \cup {k} /\ k \notin Behind(o)
    <3>1. 1..o.j = 1..(o.j - 1) \cup {o.j} /\ 1..(o.j - 1) \subseteq DOMAIN o.keys
          /\ o.j \in DOMAIN o.keys /\ o.j \notin 1..(o.j - 1)
      BY <2>1, <1>2
    <3>2. Behind(r) = Behind(o) \cup {o.keys[o.j]}
      BY <2>7, <3>1
    <3>3. \A b \in 1..(o.j - 1) : o.keys[b] # o.keys[o.j]
      BY <1>2, <3>1 DEF IsInjective
    <3> QED
      BY <2>7, <3>2, <3>3 DEF k
  <2>9. ToSet(r.tried) = ToSet(o.tried) \cup {k}
    <3>1. r.tried = Append(o.tried, k) /\ o.tried \in Seq(Keys) /\ k \in Keys
      BY <1>2, <2>1, <2>3
    <3> QED
      BY <3>1, AppendShape
  <2>10. k \notin ToSet(o.tried)
    <3> SUFFICES ASSUME k \in ToSet(o.tried)
                 PROVE  FALSE
      OBVIOUS
    <3>1. PICK a \in 1..(o.i - 1) : k \in KeysOf(o.list[a])
      BY <1>1, <2>8 DEF CallSound, Accounted, InLoop
    <3>2. a \in DOMAIN o.list /\ o.i \in DOMAIN o.list /\ a # o.i
      BY <1>2
    <3>3. o.list[a] # o.list[o.i] /\ o.list[a] \in Channels /\ o.list[o.i] \in Channels
      BY <1>2, <3>2 DEF IsInjective
    <3> QED
      BY <2>1, <3>1, <3>3, DispatchAssumption DEF KeysOf
  <2>11. IsInjective(r.tried)
    <3>1. IsInjective(o.tried)
      BY <1>1 DEF CallSound, Accounted
    <3>2. \A b \in 1..Len(o.tried) : o.tried[b] # k
      BY <1>2, <2>10 DEF ToSet
    <3>3. /\ Len(o.tried) \in Nat /\ DOMAIN o.tried = 1..Len(o.tried)
          /\ DOMAIN r.tried = 1..(Len(o.tried) + 1)
          /\ r.tried[Len(o.tried) + 1] = k
          /\ \A b \in 1..Len(o.tried) : r.tried[b] = o.tried[b]
      BY <1>2, <2>3, <2>a
    <3>4. \A b \in 1..(Len(o.tried) + 1) : b \in 1..Len(o.tried) \/ b = Len(o.tried) + 1
      BY <3>3
    <3> QED
      BY <3>1, <3>2, <3>3, <3>4 DEF IsInjective
  <2>12. Accounted(r)
    BY <1>1, <2>3, <2>8, <2>9, <2>11 DEF CallSound, Accounted, InLoop
  <2>13. NoneDropped(r)
    BY <1>1, <2>3, <2>9 DEF CallSound, NoneDropped, InLoop, WithKeys
  <2> QED
    BY <2>2, <2>3, <2>4, <2>5, <2>6, <2>12, <2>13, MovedSound DEF CallSound
<1> QED
  BY <1>3, <1>4 DEF NextKey

\* The key at hand has failed.
LEMMA FailedStep ==
  ASSUME CallsSound, NEW h \in Handlers, call[h].stage = "calling",
         Moved(h, [call[h] EXCEPT !.stage = "key", !.j = @ + 1])
  PROVE  CallsSound'
<1> DEFINE o == call[h]
           r == [o EXCEPT !.stage = "key", !.j = @ + 1]
<1>1. CallSound(o) /\ o \in Calls /\ o.stage = "calling"
  BY DEF CallsSound, CallSound
<1>2. o.j \in 1..Len(o.keys) /\ o.keys \in Seq(Keys)
  BY <1>1 DEF CallSound, Keyed, WithKeys, Calls
<1>3. /\ r \in Calls /\ r.stage = "key" /\ r.keys = o.keys /\ r.j = o.j + 1 /\ r.i = o.i
      /\ r.plan = o.plan /\ r.m = o.m
      /\ r.list = o.list /\ r.tried = o.tried /\ r.usable = o.usable
      /\ r.passed = o.passed /\ r.pref = o.pref
      /\ r.used = o.used /\ r.calls = o.calls /\ r.injected = o.injected
  <2>1. o.j + 1 \in Nat /\ "key" \in Stages
    BY <1>2 DEF Stages
  <2>2. r \in Calls
    BY <1>1, <2>1, Zenon DEF Calls
  <2> QED
    BY <1>1, <2>2 DEF Calls
<1>4. Moved(h, r)
  OBVIOUS
<1> HIDE DEF r, o
<1>5. Planned(r) /\ Limited(r)
  BY <1>1, <1>3 DEF CallSound, Planned, Limited
<1>6. Listed(r)
  BY <1>1, <1>3 DEF CallSound, Listed, InLoop, ChansOf
<1>7. Keyed(r)
  <2>1. o.j + 1 \in 1..(Len(o.keys) + 1)
    BY <1>2
  <2> QED
    BY <1>1, <1>3, <2>1 DEF CallSound, Keyed, WithKeys
<1>8. Accounted(r)
  <2>1. Behind(o) = {o.keys[b] : b \in 1..o.j} /\ Behind(r) = {r.keys[b] : b \in 1..(r.j - 1)}
    BY <1>1, <1>3 DEF Behind
  <2>2. r.j - 1 = o.j
    BY <1>2, <1>3
  <2> QED
    BY <1>1, <1>3, <2>1, <2>2 DEF CallSound, Accounted, InLoop
<1>9. NoneDropped(r)
  BY <1>1, <1>3 DEF CallSound, NoneDropped, InLoop, WithKeys
<1> QED
  BY <1>3, <1>4, <1>5, <1>6, <1>7, <1>8, <1>9, MovedSound DEF CallSound

LEMMA CallAgainStep ==
  ASSUME CallsSound, NEW h \in Handlers, CallAgain(h)
  PROVE  CallsSound'
<1> DEFINE o == call[h]
           r == [o EXCEPT !.injected = FALSE, !.calls = @ + 1]
<1>1. CallSound(o) /\ o \in Calls /\ o.stage = "calling" /\ o.injected
  BY DEF CallsSound, CallSound, CallAgain, Ready
<1>2. o.used \in Nat /\ o.calls \in Nat /\ o.calls <= o.used
  BY <1>1 DEF CallSound, Limited, Calls
<1>3. /\ r \in Calls /\ r.stage = "calling" /\ r.keys = o.keys /\ r.j = o.j /\ r.i = o.i
      /\ r.plan = o.plan /\ r.m = o.m
      /\ r.list = o.list /\ r.tried = o.tried /\ r.usable = o.usable
      /\ r.passed = o.passed /\ r.pref = o.pref
      /\ r.used = o.used /\ r.calls = o.calls + 1 /\ r.injected = FALSE
  <2>1. o.calls + 1 \in Nat
    BY <1>2
  <2>2. r \in Calls
    BY <1>1, <2>1, Zenon DEF Calls
  <2> QED
    BY <1>1, <2>2 DEF Calls
<1>4. Moved(h, r)
  BY DEF CallAgain
<1> HIDE DEF r, o
<1>5. Planned(r) /\ Listed(r) /\ Keyed(r) /\ Accounted(r)
  BY <1>1, <1>3 DEF CallSound, Planned, Listed, Keyed, Accounted, Behind, InLoop, WithKeys, ChansOf
<1>7. NoneDropped(r)
  BY <1>1, <1>3 DEF CallSound, NoneDropped, InLoop, WithKeys
<1>6. Limited(r)
  <2>1. o.used <= MaxAttempts
    BY <1>1 DEF CallSound, Limited
  <2> QED
    BY <1>2, <1>3, <2>1 DEF Limited
<1> QED
  BY <1>3, <1>4, <1>5, <1>6, <1>7, MovedSound DEF CallSound

LEMMA KeepStep ==
  ASSUME CallsSound, NEW h \in Handlers, NEW outcome \in Answers, Keep(h, outcome)
  PROVE  CallsSound'
<1> DEFINE o == call[h]
           r == [o EXCEPT !.stage = "kept", !.answer = outcome]
<1>1. CallSound(o) /\ o \in Calls /\ o.stage = "calling"
  BY DEF CallsSound, CallSound, Keep, Ready
<1>2. /\ r \in Calls /\ r.stage = "kept" /\ r.keys = o.keys /\ r.j = o.j /\ r.i = o.i
      /\ r.plan = o.plan /\ r.m = o.m
      /\ r.list = o.list /\ r.tried = o.tried /\ r.usable = o.usable
      /\ r.passed = o.passed /\ r.pref = o.pref
      /\ r.used = o.used /\ r.calls = o.calls /\ r.injected = o.injected
  <2>1. outcome \in Outcomes \cup {"none"} /\ "kept" \in Stages
    BY DEF Outcomes, Stages
  <2>2. r \in Calls
    BY <1>1, <2>1, Zenon DEF Calls
  <2> QED
    BY <1>1, <2>2 DEF Calls
<1>3. Moved(h, r)
  BY DEF Keep
<1> HIDE DEF r, o
<1>4. Behind(r) = Behind(o)
  BY <1>1, <1>2 DEF Behind
<1>5. Planned(r) /\ Limited(r) /\ Keyed(r)
  BY <1>1, <1>2 DEF CallSound, Planned, Limited, Keyed, WithKeys
<1>6. Listed(r)
  BY <1>1, <1>2 DEF CallSound, Listed, InLoop, ChansOf
<1>7. Accounted(r)
  BY <1>1, <1>2, <1>4 DEF CallSound, Accounted, InLoop
<1>8. NoneDropped(r)
  BY <1>1, <1>2 DEF CallSound, NoneDropped, InLoop, WithKeys
<1> QED
  BY <1>2, <1>3, <1>5, <1>6, <1>7, <1>8, MovedSound DEF CallSound

\* A dispatch that is over: the next model, or the end of the request.
LEMMA LeaveStep ==
  ASSUME CallsSound, NEW h \in Handlers, call[h].stage \in InLoop,
         NEW stage \in {"model", "end"}, NEW m \in Nat, NEW answer \in Outcomes \cup {"none"},
         stage = "model" => m = call[h].m + 1 /\ call[h].m < Len(call[h].plan),
         stage = "end" => m = call[h].m,
         Moved(h, [call[h] EXCEPT !.stage = stage, !.m = m, !.answer = answer])
  PROVE  CallsSound'
<1> DEFINE o == call[h]
           r == [o EXCEPT !.stage = stage, !.m = m, !.answer = answer]
<1>1. CallSound(o) /\ o \in Calls /\ o.stage \in InLoop
  BY DEF CallsSound, CallSound
<1>2. o.stage \notin {"idle", "model"}
  BY <1>1 DEF InLoop
<1>3. /\ r \in Calls /\ r.stage = stage /\ r.plan = o.plan /\ r.m = m
      /\ r.list = o.list /\ r.tried = o.tried /\ r.pref = o.pref
      /\ r.used = o.used /\ r.calls = o.calls /\ r.injected = o.injected
  <2>1. stage \in Stages
    BY DEF Stages
  <2>2. r \in Calls
    BY <1>1, <2>1, Zenon DEF Calls
  <2> QED
    BY <1>1, <2>2 DEF Calls
<1>4. Moved(h, r)
  OBVIOUS
<1>5. o.plan \in Plans /\ o.m \in 1..Len(o.plan) /\ Len(o.plan) \in Nat
  <2>1. o.plan \in Plans /\ o.m \in 1..Len(o.plan)
    BY <1>1, <1>2 DEF CallSound, Planned
  <2> QED
    BY <2>1, DispatchAssumption
<1>6. m \in 1..Len(o.plan) /\ (stage = "end" => m = o.m)
  BY <1>5
<1> HIDE DEF r, o
<1>7. Planned(r) /\ Limited(r)
  BY <1>1, <1>3, <1>5, <1>6 DEF CallSound, Planned, Limited
<1>8. r.stage \notin InLoop /\ r.stage \notin WithKeys
  BY <1>3 DEF InLoop, WithKeys
<1>9. Keyed(r) /\ Accounted(r) /\ NoneDropped(r)
  BY <1>1, <1>3, <1>8 DEF CallSound, Keyed, Accounted, NoneDropped
<1>10. Listed(r)
  <2>1. stage = "end" => ChansOf(r) = ChansOf(o)
    BY <1>3, <1>6 DEF ChansOf
  <2>2. Listed(o)
    BY <1>1 DEF CallSound
  <2> QED
    BY <1>2, <1>3, <1>8, <2>1, <2>2 DEF Listed
<1> QED
  BY <1>3, <1>4, <1>7, <1>9, <1>10, MovedSound DEF CallSound

LEMMA ClientLeavesStep ==
  ASSUME CallsSound, NEW h \in Handlers, ClientLeaves(h)
  PROVE  CallsSound'
<1> DEFINE o == call[h]
           r == [o EXCEPT !.gone = TRUE]
<1>1. CallSound(o) /\ o \in Calls
  BY DEF CallsSound, CallSound
<1>2. /\ r \in Calls /\ r.stage = o.stage /\ r.keys = o.keys /\ r.j = o.j /\ r.i = o.i
      /\ r.plan = o.plan /\ r.m = o.m
      /\ r.list = o.list /\ r.tried = o.tried /\ r.usable = o.usable
      /\ r.passed = o.passed /\ r.pref = o.pref
      /\ r.used = o.used /\ r.calls = o.calls /\ r.injected = o.injected
  <2>1. r \in Calls
    BY <1>1, Zenon DEF Calls
  <2> QED
    BY <1>1, <2>1 DEF Calls
<1>3. Moved(h, r)
  BY DEF ClientLeaves
<1> HIDE DEF r, o
<1>4. Behind(r) = Behind(o)
  BY <1>2 DEF Behind
<1>5. Planned(r) /\ Limited(r) /\ Keyed(r)
  BY <1>1, <1>2 DEF CallSound, Planned, Limited, Keyed, WithKeys
<1>6. Listed(r)
  BY <1>1, <1>2 DEF CallSound, Listed, InLoop, ChansOf
<1>7. Accounted(r) /\ NoneDropped(r)
  BY <1>1, <1>2, <1>4 DEF CallSound, Accounted, NoneDropped, InLoop, WithKeys
<1> QED
  BY <1>2, <1>3, <1>5, <1>6, <1>7, MovedSound DEF CallSound

LEMMA KeyInUse ==
  ASSUME CallsSound, NEW h \in Handlers, call[h].stage \in {"calling", "kept"}
  PROVE  Key(h) \in Keys
<1>1. CallSound(call[h]) /\ call[h] \in Calls
  BY DEF CallsSound, CallSound
<1>2. call[h].keys \in Seq(Keys) /\ call[h].j \in 1..Len(call[h].keys)
  BY <1>1 DEF CallSound, Keyed, WithKeys, Calls
<1> QED
  BY <1>2 DEF Key

LEMMA ReturnStep ==
  ASSUME CallsSound, NEW h \in Handlers, Return(h)
  PROVE  CallsSound'
<1> DEFINE o == call[h]
           another == o.m < Len(o.plan) /\ o.answer # "ok"
<1>1. CallSound(o) /\ o \in Calls /\ o.stage = "kept" /\ o.stage \in InLoop
  BY DEF CallsSound, CallSound, Return, Ready, InLoop
<1>2. CASE another
  <2>1. Moved(h, [o EXCEPT !.stage = "model", !.m = @ + 1, !.answer = "none"])
    BY <1>2 DEF Return
  <2>2. Moved(h, [o EXCEPT !.stage = "model", !.m = o.m + 1, !.answer = "none"])
    BY <2>1
  <2>3. o.m + 1 \in Nat
    BY <1>1 DEF Calls
  <2> QED
    BY <1>1, <1>2, <2>2, <2>3, LeaveStep
<1>3. CASE ~another
  <2>1. Moved(h, [o EXCEPT !.stage = "end"])
    BY <1>3 DEF Return
  <2>2. [o EXCEPT !.stage = "end"] = [o EXCEPT !.stage = "end", !.m = o.m, !.answer = o.answer]
    BY <1>1 DEF Calls
  <2>3. o.m \in Nat /\ o.answer \in Outcomes \cup {"none"}
    BY <1>1 DEF Calls
  <2>4. Moved(h, [o EXCEPT !.stage = "end", !.m = o.m, !.answer = o.answer])
    BY <2>1, <2>2
  <2> QED
    BY <1>1, <2>3, <2>4, LeaveStep
<1> QED
  BY <1>2, <1>3

LEMMA GiveUpStep ==
  ASSUME CallsSound, NEW h \in Handlers, GiveUp(h)
  PROVE  CallsSound'
<1> DEFINE o == call[h]
<1>1. CallSound(o) /\ o \in Calls /\ o.stage \in InLoop
  BY DEF CallsSound, CallSound, GiveUp, GivesUp, Ready, InLoop
<1>2. /\ o.m \in Nat /\ o.m + 1 \in Nat /\ o.answer \in Outcomes \cup {"none"}
      /\ "error" \in Outcomes \cup {"none"}
  BY <1>1 DEF Calls, Outcomes
<1>3. CASE o.m < Len(o.plan)
  <2>1. Moved(h, [o EXCEPT !.stage = "model", !.m = @ + 1])
    BY <1>3 DEF GiveUp
  <2>2. [o EXCEPT !.stage = "model", !.m = @ + 1]
        = [o EXCEPT !.stage = "model", !.m = o.m + 1, !.answer = o.answer]
    BY <1>1 DEF Calls
  <2>3. Moved(h, [o EXCEPT !.stage = "model", !.m = o.m + 1, !.answer = o.answer])
    BY <2>1, <2>2
  <2> QED
    BY <1>1, <1>2, <1>3, <2>3, LeaveStep
<1>4. CASE ~(o.m < Len(o.plan))
  <2>1. Moved(h, [o EXCEPT !.stage = "end", !.answer = "error"])
    BY <1>4 DEF GiveUp
  <2>2. [o EXCEPT !.stage = "end", !.answer = "error"]
        = [o EXCEPT !.stage = "end", !.m = o.m, !.answer = "error"]
    BY <1>1 DEF Calls
  <2>3. Moved(h, [o EXCEPT !.stage = "end", !.m = o.m, !.answer = "error"])
    BY <2>1, <2>2
  <2> QED
    BY <1>1, <1>2, <2>3, LeaveStep
<1> QED
  BY <1>3, <1>4

-----------------------------------------------------------------------------
(* The invariant *)

LEMMA ProceedStep ==
  ASSUME DispatchInvariant, NEW h \in Handlers, Proceed(h)
  PROVE  DispatchInvariant'
<1>0. CallsSound
  BY DEF DispatchInvariant
<1>1. CASE StartModel(h) \/ NextChannel(h) \/ NextKey(h) \/ CallAgain(h) \/ GiveUp(h) \/ Finish(h)
  <2>1. CallsSound'
    <3>1. Finish(h) => Moved(h, NoCall)
      BY DEF Finish
    <3> QED
      BY <1>0, <1>1, <3>1, StartModelStep, NextChannelStep, NextKeyStep, CallAgainStep,
         GiveUpStep, NoCallSound, MovedSound
  <2>2. UNCHANGED <<affinity, starts, guilty>>
    BY <1>1 DEF StartModel, NextChannel, NextKey, CallAgain, GiveUp, Finish
  <2> QED
    BY <2>1, <2>2 DEF DispatchInvariant
<1>2. CASE CallFails(h)
  <2>1. CallsSound'
    BY <1>0, <1>2, FailedStep DEF CallFails, Ready
  <2>2. guilty' \subseteq Keys /\ UNCHANGED <<affinity, starts>>
    <3>1. Key(h) \in Keys
      BY <1>0, <1>2, KeyInUse DEF CallFails, Ready
    <3> QED
      BY <1>2, <3>1 DEF CallFails, DispatchInvariant
  <2> QED
    BY <2>1, <2>2 DEF DispatchInvariant
<1>3. ASSUME NEW outcome \in Answers, TurnAway(h, outcome)
      PROVE  DispatchInvariant'
  <2>1. CallsSound'
    BY <1>0, <1>3, FailedStep DEF TurnAway, Ready
  <2>2. guilty' \subseteq Keys /\ UNCHANGED <<affinity, starts>>
    <3>1. Key(h) \in Keys
      BY <1>0, <1>3, KeyInUse DEF TurnAway, Ready
    <3> QED
      BY <1>3, <3>1 DEF TurnAway, DispatchInvariant
  <2> QED
    BY <2>1, <2>2 DEF DispatchInvariant
<1>4. ASSUME NEW outcome \in Answers, Keep(h, outcome)
      PROVE  DispatchInvariant'
  <2>1. CallsSound'
    BY <1>0, <1>4, KeepStep
  <2>2. guilty' \subseteq Keys /\ UNCHANGED <<affinity, starts>>
    <3>1. Key(h) \in Keys
      BY <1>0, <1>4, KeyInUse DEF Keep, Ready
    <3> QED
      BY <1>4, <3>1 DEF Keep, DispatchInvariant
  <2> QED
    BY <2>1, <2>2 DEF DispatchInvariant
<1>5. CASE Return(h)
  <2>1. CallsSound'
    BY <1>0, <1>5, ReturnStep
  <2>2. affinity' \in [Convs -> Keys \cup {NoKey}] /\ UNCHANGED <<starts, guilty>>
    <3>1. Key(h) \in Keys
      BY <1>0, <1>5, KeyInUse DEF Return, Ready
    <3> QED
      BY <1>5, <3>1 DEF Return, DispatchInvariant
  <2> QED
    BY <2>1, <2>2 DEF DispatchInvariant
<1> QED
  BY <1>1, <1>2, <1>3, <1>4, <1>5 DEF Proceed

LEMMA NextStep ==
  DispatchInvariant /\ [Next]_vars => DispatchInvariant'
<1> SUFFICES ASSUME DispatchInvariant, [Next]_vars
             PROVE  DispatchInvariant'
  OBVIOUS
<1>0. CallsSound
  BY DEF DispatchInvariant
<1>1. ASSUME NEW h \in Handlers, NEW plan \in Plans, NEW stream \in BOOLEAN,
             Arrive(h, plan, stream)
      PROVE  DispatchInvariant'
  <2>1. CallsSound'
    BY <1>0, <1>1, ArriveStep
  <2>2. starts' \in 0..MaxStarts /\ UNCHANGED <<affinity, guilty>>
    BY <1>1, DispatchAssumption DEF Arrive, DispatchInvariant
  <2> QED
    BY <2>1, <2>2 DEF DispatchInvariant
<1>2. ASSUME NEW h \in Handlers, Proceed(h)
      PROVE  DispatchInvariant'
  BY <1>2, ProceedStep
<1>3. ASSUME NEW h \in Handlers, ClientLeaves(h)
      PROVE  DispatchInvariant'
  <2>1. CallsSound'
    BY <1>0, <1>3, ClientLeavesStep
  <2> QED
    BY <1>3, <2>1 DEF ClientLeaves, DispatchInvariant
<1>4. ASSUME NEW v \in Convs, Forget(v)
      PROVE  DispatchInvariant'
  <2>1. CallsSound'
    BY <1>0, <1>4 DEF Forget, CallsSound
  <2> QED
    BY <1>4, <2>1 DEF Forget, DispatchInvariant
<1>5. CASE Restart
  <2>1. call' = [h \in Handlers |-> NoCall] /\ affinity' = [v \in Convs |-> NoKey]
        /\ UNCHANGED <<starts, guilty>>
    BY <1>5 DEF Restart
  <2>2. CallsSound'
    BY <2>1, NoCallSound DEF CallsSound, CallSound
  <2> QED
    BY <2>1, <2>2 DEF DispatchInvariant
<1>6. CASE Background
  BY <1>6 DEF Background, DispatchInvariant, CallsSound
<1>7. CASE UNCHANGED vars
  BY <1>7 DEF vars, DispatchInvariant, CallsSound
<1> QED
  BY <1>1, <1>2, <1>3, <1>4, <1>5, <1>6, <1>7 DEF Next

LEMMA DispatchInvariantHolds == Spec => []DispatchInvariant
<1>1. Init => DispatchInvariant
  <2> SUFFICES ASSUME Init
               PROVE  DispatchInvariant
    OBVIOUS
  <2>1. CallsSound
    BY NoCallSound DEF Init, CallsSound, CallSound
  <2> QED
    BY <2>1, DispatchAssumption DEF Init, DispatchInvariant
<1> QED
  BY <1>1, NextStep, PTL DEF Spec

-----------------------------------------------------------------------------
(* What follows from it *)

\* The locals of every handler, the affinity map and the record of failed keys
\* keep their types, for any channels, keys and requests.
THEOREM TypeCorrect == Spec => []TypeOK
<1>1. DispatchInvariant => TypeOK
  <2> SUFFICES ASSUME DispatchInvariant
               PROVE  TypeOK
    OBVIOUS
  <2>1. ASSUME NEW h \in Handlers
        PROVE  LET r == call[h] IN
               /\ DOMAIN r = DOMAIN NoCall
               /\ r.stage \in Stages /\ r.answer \in Outcomes \cup {"none"}
               /\ r.stage # "idle" => r.plan \in Plans /\ r.m \in 1..Len(r.plan)
               /\ r.list \in Seq(Channels) /\ Len(r.list) <= MaxAttempts
               /\ r.keys \in Seq(Keys) /\ r.tried \in Seq(Keys)
               /\ r.stage = "calling" => r.i \in DOMAIN r.list /\ r.j \in DOMAIN r.keys
               /\ r.usable \subseteq Keys /\ r.passed \subseteq Keys
               /\ r.pref \in Keys \cup {NoKey}
    <3> DEFINE r == call[h]
    <3>1. CallSound(r) /\ r \in Calls
      BY DEF DispatchInvariant, CallsSound, CallSound
    <3>2. r.stage = "calling" => r.i \in DOMAIN r.list /\ r.j \in DOMAIN r.keys
      BY <3>1 DEF CallSound, Keyed, WithKeys, Calls
    <3>3. DOMAIN r = DOMAIN NoCall
      <4>1. NoCall \in Calls
        BY NoCallSound DEF CallSound
      <4> QED
        BY <3>1, <4>1 DEF Calls
    <3>4. /\ r.stage \in Stages /\ r.answer \in Outcomes \cup {"none"}
          /\ r.list \in Seq(Channels) /\ r.keys \in Seq(Keys) /\ r.tried \in Seq(Keys)
          /\ r.usable \subseteq Keys /\ r.passed \subseteq Keys
          /\ r.pref \in Keys \cup {NoKey}
      BY <3>1 DEF Calls
    <3>5. Len(r.list) <= MaxAttempts
      BY <3>1 DEF CallSound, Listed
    <3>6. r.stage # "idle" => r.plan \in Plans /\ r.m \in 1..Len(r.plan)
      BY <3>1 DEF CallSound, Planned
    <3> HIDE DEF r
    <3> QED
      BY <3>2, <3>3, <3>4, <3>5, <3>6 DEF r
  <2> QED
    BY <2>1 DEF TypeOK, DispatchInvariant
<1> QED
  BY <1>1, DispatchInvariantHolds, PTL

\* No dispatch repeats or drops a channel or a key, for any order, start of the
\* key rotation and remembered key.
THEOREM KeysTriedOnce == Spec => []EachKeyOnce
<1>1. DispatchInvariant => EachKeyOnce
  <2> SUFFICES ASSUME DispatchInvariant, NEW h \in Handlers
               PROVE  LET r == call[h] IN
                      /\ IsInjective(r.tried) /\ IsInjective(r.list)
                      /\ r.stage \notin {"idle", "model"} =>
                           \/ Len(r.list) = MaxAttempts
                           \/ r.plan[r.m].chans \subseteq ToSet(r.list)
                      /\ GivesUp(h) /\ r.used < MaxAttempts =>
                           \A c \in ToSet(r.list) :
                             ToSet(KeyList[c]) \cap r.usable \subseteq ToSet(r.tried) \cup r.passed
    BY DEF EachKeyOnce
  <2> DEFINE r == call[h]
  <2>1. CallSound(r) /\ r \in Calls
    BY DEF DispatchInvariant, CallsSound, CallSound
  <2>2. ASSUME GivesUp(h), r.used < MaxAttempts, NEW c \in ToSet(r.list)
        PROVE  KeysOf(c) \cap r.usable \subseteq ToSet(r.tried) \cup r.passed
    <3>1. r.used \in Nat /\ MaxAttempts \in Nat
      BY <2>1, DispatchAssumption DEF Calls
    <3>2. r.stage = "channel" /\ r.i > Len(r.list)
      BY <2>2, <3>1 DEF GivesUp
    <3>3. r.list \in Seq(Channels) /\ r.i \in 1..(Len(r.list) + 1)
      BY <2>1, <3>2 DEF CallSound, Listed, InLoop, Calls
    <3>4. PICK a \in DOMAIN r.list : r.list[a] = c
      BY DEF ToSet
    <3>5. a \in 1..(r.i - 1)
      BY <3>2, <3>3, <3>4
    <3> QED
      BY <2>1, <3>2, <3>4, <3>5 DEF CallSound, NoneDropped, InLoop
  <2>3. IsInjective(r.tried)
    BY <2>1 DEF CallSound, Accounted
  <2>4. /\ IsInjective(r.list)
        /\ r.stage \notin {"idle", "model"} =>
             Len(r.list) = MaxAttempts \/ r.plan[r.m].chans \subseteq ToSet(r.list)
    BY <2>1 DEF CallSound, Listed, ChansOf
  <2> HIDE DEF r
  <2> QED
    BY <2>2, <2>3, <2>4 DEF KeysOf, r
<1> QED
  BY <1>1, DispatchInvariantHolds, PTL

\* A dispatch that returns without a response before its attempts are used up
\* has tried a key of every listed channel that has an enabled one.
THEOREM AlwaysGivesUpLate == Spec => []GivesUpLate
<1>1. DispatchInvariant => GivesUpLate
  <2> SUFFICES ASSUME DispatchInvariant, NEW h \in Handlers, GivesUp(h),
                      call[h].used < MaxAttempts, NEW c \in ToSet(call[h].list),
                      ToSet(KeyList[c]) \cap call[h].usable # {}
               PROVE  ToSet(KeyList[c]) \cap ToSet(call[h].tried) # {}
    BY DEF GivesUpLate
  <2> DEFINE r == call[h]
  <2>1. CallSound(r) /\ r \in Calls
    BY DEF DispatchInvariant, CallsSound, CallSound
  <2>2. r.used \in Nat /\ MaxAttempts \in Nat
    BY <2>1, DispatchAssumption DEF Calls
  <2>3. r.stage = "channel" /\ r.i > Len(r.list)
    BY <2>2 DEF GivesUp
  <2>4. r.list \in Seq(Channels) /\ r.i \in 1..(Len(r.list) + 1)
    BY <2>1, <2>3 DEF CallSound, Listed, InLoop, Calls
  <2>5. PICK a \in DOMAIN r.list : r.list[a] = c
    BY DEF ToSet
  <2>6. a \in 1..(r.i - 1)
    BY <2>3, <2>4, <2>5
  <2> QED
    BY <2>1, <2>3, <2>5, <2>6 DEF CallSound, Accounted, InLoop, KeysOf
<1> QED
  BY <1>1, DispatchInvariantHolds, PTL

\* Without a remembered channel, no channel is called before one of a higher
\* priority that has an enabled key.
THEOREM HigherPriorityAlwaysFirst == Spec => []HigherPriorityFirst
<1>1. DispatchInvariant => HigherPriorityFirst
  <2> SUFFICES ASSUME DispatchInvariant, NEW h \in Handlers,
                      call[h].stage = "calling", call[h].pref = NoKey,
                      NEW c \in call[h].plan[call[h].m].chans,
                      Priority[c] > Priority[call[h].list[call[h].i]],
                      ToSet(KeyList[c]) \cap call[h].usable # {}
               PROVE  ToSet(KeyList[c]) \cap ToSet(call[h].tried) # {}
    BY DEF HigherPriorityFirst
  <2> DEFINE r == call[h]
  <2>1. CallSound(r)
    BY DEF DispatchInvariant, CallsSound
  <2>2. r.i \in DOMAIN r.list
    BY <2>1 DEF CallSound, Keyed, WithKeys
  <2>3. PICK b \in 1..(r.i - 1) : r.list[b] = c
    BY <2>1, <2>2 DEF CallSound, Listed, InLoop, ChansOf
  <2> QED
    BY <2>1, <2>3 DEF CallSound, Accounted, InLoop, KeysOf
<1> QED
  BY <1>1, DispatchInvariantHolds, PTL

\* A conversation goes back to the channel of its remembered key first.
THEOREM AlwaysStickyChannel == Spec => []StickyChannel
<1>1. DispatchInvariant => StickyChannel
  BY DEF DispatchInvariant, CallsSound, CallSound, Listed, StickyChannel
<1> QED
  BY <1>1, DispatchInvariantHolds, PTL

\* A dispatch makes at most one call more than its attempts.
THEOREM CallsAlwaysBounded == Spec => []CallsBounded
<1>1. DispatchInvariant => CallsBounded
  <2> SUFFICES ASSUME DispatchInvariant, NEW h \in Handlers
               PROVE  call[h].used <= MaxAttempts /\ call[h].calls <= MaxAttempts + 1
    BY DEF CallsBounded
  <2>1. /\ call[h].used <= MaxAttempts /\ call[h].calls <= call[h].used + 1
        /\ call[h] \in Calls
    BY Zenon DEF DispatchInvariant, CallsSound, CallSound, Limited
  <2>2. call[h].used \in Nat /\ call[h].calls \in Nat /\ MaxAttempts \in Nat
    BY <2>1, DispatchAssumption DEF Calls
  <2> QED
    BY <2>1, <2>2
<1> QED
  BY <1>1, DispatchInvariantHolds, PTL

\* Every step of the composition is a step of KeyHealth or leaves its variables
\* alone: handlers change the health of keys only by the two reports, and only
\* that of keys that exist.
THEOREM ImplementsKeyHealth == Spec => HealthImplemented
<1>1. Init => Health!Init
  BY DEF Init
<1>2. DispatchInvariant /\ [Next]_vars => [Health!Next]_(Health!vars)
  <2> SUFFICES ASSUME DispatchInvariant, [Next]_vars
               PROVE  Health!Next \/ UNCHANGED Health!vars
    BY DEF Health!vars
  <2>0. CallsSound
    BY DEF DispatchInvariant
  <2>1. ASSUME NEW h \in Handlers,
               NEW k \in Keys, Health!ReportFailure(h, k) \/ Health!ReportSuccess(h, k)
        PROVE  Health!Next
    <3>1. h \in Reporters \ {Prober}
      BY DispatchAssumption DEF Reporters
    <3> QED
      BY <2>1, <3>1 DEF Health!Next
  <2>2. UNCHANGED healthVars => UNCHANGED Health!vars
    BY DEF healthVars, Health!vars
  <2>3. ASSUME NEW h \in Handlers, Proceed(h)
        PROVE  Health!Next \/ UNCHANGED Health!vars
    <3>1. CASE StartModel(h) \/ NextChannel(h) \/ NextKey(h) \/ CallAgain(h) \/ Return(h)
               \/ GiveUp(h) \/ Finish(h)
      BY <2>2, <3>1 DEF StartModel, NextChannel, NextKey, CallAgain, Return, GiveUp, Finish
    <3>2. CASE CallFails(h)
      <4>1. Key(h) \in Keys /\ Health!ReportFailure(h, Key(h))
        BY <2>0, <3>2, KeyInUse DEF CallFails, Ready
      <4> QED
        BY <2>1, <4>1
    <3>3. ASSUME NEW outcome \in Answers, TurnAway(h, outcome)
          PROVE  Health!Next
      <4>1. Key(h) \in Keys /\ Health!ReportFailure(h, Key(h))
        BY <2>0, <3>3, KeyInUse DEF TurnAway, Ready
      <4> QED
        BY <2>1, <4>1
    <3>4. ASSUME NEW outcome \in Answers, Keep(h, outcome)
          PROVE  Health!Next
      <4>1. Key(h) \in Keys /\ Health!ReportSuccess(h, Key(h))
        BY <2>0, <3>4, KeyInUse DEF Keep, Ready
      <4> QED
        BY <2>1, <4>1
    <3> QED
      BY <2>3, <3>1, <3>2, <3>3, <3>4 DEF Proceed
  <2>4. ASSUME NEW h \in Handlers, NEW plan \in Plans, NEW stream \in BOOLEAN,
               Arrive(h, plan, stream)
        PROVE  UNCHANGED Health!vars
    BY <2>2, <2>4 DEF Arrive
  <2>5. ASSUME NEW h \in Handlers, ClientLeaves(h)
        PROVE  UNCHANGED Health!vars
    BY <2>2, <2>5 DEF ClientLeaves
  <2>6. ASSUME NEW v \in Convs, Forget(v)
        PROVE  UNCHANGED Health!vars
    BY <2>2, <2>6 DEF Forget
  <2>7. CASE Restart \/ Background
    BY <2>7 DEF Restart, Background, Health!Next
  <2>8. CASE UNCHANGED vars
    BY <2>2, <2>8 DEF vars
  <2> QED
    BY <2>3, <2>4, <2>5, <2>6, <2>7, <2>8 DEF Next
<1> QED
  BY <1>1, <1>2, DispatchInvariantHolds, PTL DEF Spec, HealthImplemented, Health!Spec
=============================================================================
