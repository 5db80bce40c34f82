-------------------------- MODULE ChannelStoreProofs --------------------------
(***************************************************************************)
(* Proofs about module ChannelStore: key ids are never given out twice,    *)
(* what an interrupted replacement leaves is a first part of its list, no  *)
(* switch is lost but in the ways that the model records, and no model is. *)
(***************************************************************************)
EXTENDS ChannelStore, TLAPS, FiniteSetTheorems, FunctionTheorems

\* Rows of channel_keys, stored or read, have the fields that count here and
\* an id below the next one.
Numbered(S) ==
  \A k \in S : /\ {"id", "chan", "secret"} \subseteq DOMAIN k
               /\ k.id \in Nat /\ k.id < nextId

\* Two sets of rows agree on what an id stands for.
Agree(S, T) == \A k \in S, l \in T : k.id = l.id => k.chan = l.chan /\ k.secret = l.secret

ReadersShaped ==
  /\ DOMAIN read = Readers
  /\ \A p \in Readers : "keys" \in DOMAIN read[p]

\* The inductive invariant: ids in use, and ids that requests hold, are below
\* nextId, so that a new row cannot meet either; rows among themselves and
\* rows against requests agree.
IdInvariant ==
  /\ nextId \in Nat
  /\ Numbered(keys) /\ Agree(keys, keys)
  /\ ReadersShaped
  /\ \A p \in Readers : Numbered(read[p].keys) /\ Agree(read[p].keys, keys)

LEMMA IdInit == Init => IdInvariant
<1> SUFFICES ASSUME Init
             PROVE  IdInvariant
  OBVIOUS
<1>1. Cardinality(Live0) \in Nat
  BY ChannelStoreAssumption, FS_Subset, FS_CardinalityType
<1>2. PICK s \in Secrets, id \in [Live0 -> 1..Cardinality(Live0)] :
        /\ \A c, d \in Live0 : id[c] = id[d] => c = d
        /\ keys = {[id |-> id[c], chan |-> c, secret |-> s, sort |-> 0, on |-> TRUE] : c \in Live0}
  BY DEF Init
<1>3. nextId = Cardinality(Live0) + 1
  BY DEF Init
<1>4. Numbered(keys) /\ Agree(keys, keys)
  BY <1>1, <1>2, <1>3 DEF Numbered, Agree
<1>5. ReadersShaped /\ \A p \in Readers : read[p].keys = {}
  BY DEF Init, ReadersShaped, NoRead
<1> QED
  BY <1>1, <1>3, <1>4, <1>5 DEF IdInvariant, Numbered, Agree

\* Deleting rows, or none, leaves the invariant alone, as long as no request
\* reads and no id is given out.
LEMMA FewerRows ==
  ASSUME IdInvariant, keys' \subseteq keys, nextId' = nextId, read' = read
  PROVE  IdInvariant'
BY DEF IdInvariant, Numbered, Agree, ReadersShaped

\* A new row gets an id that neither a row nor a request has.
LEMMA InsertKeepsIds ==
  ASSUME IdInvariant, NEW a \in Admins, InsertKey(a)
  PROVE  IdInvariant'
<1> DEFINE new == NewKey(op[a])
<1>1. keys' = keys \cup {new} /\ nextId' = nextId + 1 /\ read' = read
  BY DEF InsertKey, NextKeyId
<1>2. {"id", "chan", "secret"} \subseteq DOMAIN new /\ new.id = nextId
  BY DEF NewKey, NextKeyId
<1> HIDE DEF new
<1>3. nextId' \in Nat /\ Numbered(keys)'
  BY <1>1, <1>2 DEF IdInvariant, Numbered
<1>4. Agree(keys, keys)'
  BY <1>1, <1>2 DEF IdInvariant, Numbered, Agree
<1>5. ReadersShaped'
  BY <1>1 DEF IdInvariant, ReadersShaped
<1>6. \A p \in Readers : Numbered(read[p].keys)' /\ Agree(read[p].keys, keys)'
  BY <1>1, <1>2 DEF IdInvariant, Numbered, Agree
<1> QED
  BY <1>3, <1>4, <1>5, <1>6 DEF IdInvariant

\* A switch changes neither the id of a row nor what it stands for.
LEMMA SwitchKeepsIds ==
  ASSUME IdInvariant, NEW k \in keys, NEW on \in BOOLEAN, SwitchKey(k, on)
  PROVE  IdInvariant'
<1> DEFINE switched == [k EXCEPT !.on = on]
<1>1. keys' = (keys \ {k}) \cup {switched} /\ nextId' = nextId /\ read' = read
  BY DEF SwitchKey
<1>2. /\ DOMAIN switched = DOMAIN k
      /\ switched.id = k.id /\ switched.chan = k.chan /\ switched.secret = k.secret
  BY DEF IdInvariant, Numbered
<1> HIDE DEF switched
<1> QED
  BY <1>1, <1>2 DEF IdInvariant, Numbered, Agree, ReadersShaped

\* A request holds no row, or rows that are stored at that moment.
LEMMA ReadKeepsIds ==
  ASSUME IdInvariant, NEW p \in Readers, ListRows(p) \/ LoadKeys(p) \/ Answer(p)
  PROVE  IdInvariant'
<1>1. keys' = keys /\ nextId' = nextId
  BY DEF ListRows, LoadKeys, Answer
<1>2. \E v : /\ read' = [read EXCEPT ![p] = v]
             /\ "keys" \in DOMAIN v /\ v.keys \subseteq keys
  <2>1. CASE ListRows(p)
    <3> DEFINE v == [step |-> "rows", chans |-> {c \in Chans : state[c] = "live"}, keys |-> {}]
    <3>1. read' = [read EXCEPT ![p] = v] /\ "keys" \in DOMAIN v /\ v.keys = {}
      BY <2>1 DEF ListRows
    <3> QED
      BY <3>1
  <2>2. CASE LoadKeys(p)
    <3> DEFINE v == [read[p] EXCEPT !.step = "keys",
                                    !.keys = {k \in keys : k.chan \in read[p].chans}]
    <3>1. read' = [read EXCEPT ![p] = v]
      BY <2>2 DEF LoadKeys
    <3>2. "keys" \in DOMAIN v /\ v.keys \subseteq keys
      BY DEF IdInvariant, ReadersShaped
    <3> QED
      BY <3>1, <3>2
  <2>3. CASE Answer(p)
    <3>1. read' = [read EXCEPT ![p] = NoRead]
      BY <2>3 DEF Answer
    <3>2. "keys" \in DOMAIN NoRead /\ NoRead.keys \subseteq keys
      BY DEF NoRead
    <3> QED
      BY <3>1, <3>2
  <2> QED
    BY <2>1, <2>2, <2>3
<1>3. /\ ReadersShaped' /\ read'[p].keys \subseteq keys
      /\ \A q \in Readers \ {p} : read'[q] = read[q]
  BY <1>2 DEF IdInvariant, ReadersShaped
<1>4. Numbered(read[p].keys)' /\ Agree(read[p].keys, keys)'
  BY <1>1, <1>3 DEF IdInvariant, Numbered, Agree
<1>5. \A q \in Readers \ {p} : Numbered(read[q].keys)' /\ Agree(read[q].keys, keys)'
  BY <1>1, <1>3 DEF IdInvariant, Numbered, Agree
<1> QED
  BY <1>1, <1>3, <1>4, <1>5 DEF IdInvariant, Numbered, Agree

LEMMA ConsoleKeepsIds ==
  ASSUME IdInvariant, NEW a \in Admins, Console(a)
  PROVE  IdInvariant'
<1>1. CASE InsertKey(a)
  BY <1>1, InsertKeepsIds
<1>2. CASE DeleteKeys(a) \/ PurgeKeys(a)
  BY <1>2, FewerRows DEF DeleteKeys, PurgeKeys
<1>3. CASE GetKeys(a) \/ WriteRow(a) \/ ReadStates(a) \/ EndEarly(a)
  BY <1>3, FewerRows DEF GetKeys, WriteRow, ReadStates, EndEarly
<1>4. ASSUME NEW c \in Chans, DeleteRow(a, c) \/ \E u \in Updates : Create(a, c, u)
      PROVE  IdInvariant'
  BY <1>4, FewerRows DEF DeleteRow, Create
<1>5. ASSUME NEW c \in Chans, NEW kind, NEW arg, GetRow(a, c, kind, arg)
      PROVE  IdInvariant'
  BY <1>5, FewerRows DEF GetRow
<1> QED
  BY <1>1, <1>2, <1>3, <1>4, <1>5 DEF Console

LEMMA IdStep == IdInvariant /\ [Next]_vars => IdInvariant'
<1> SUFFICES ASSUME IdInvariant, [Next]_vars
             PROVE  IdInvariant'
  OBVIOUS
<1>1. ASSUME NEW a \in Admins, Console(a)
      PROVE  IdInvariant'
  BY <1>1, ConsoleKeepsIds
<1>2. ASSUME NEW k \in keys, NEW on \in BOOLEAN, SwitchKey(k, on)
      PROVE  IdInvariant'
  BY <1>2, SwitchKeepsIds
<1>3. ASSUME NEW p \in Readers, ListRows(p) \/ LoadKeys(p) \/ Answer(p)
      PROVE  IdInvariant'
  BY <1>3, ReadKeepsIds
<1>4. CASE UNCHANGED vars
  BY <1>4, FewerRows DEF vars
<1> QED
  BY <1>1, <1>2, <1>3, <1>4 DEF Next

\* A key id that a request has read never comes to name another key, for any
\* number of sessions, requests, replacements, deletions and interruptions:
\* what the request reports to the key health concerns the key it has used.
THEOREM IdsAlwaysKeepTheirSecret == Spec => []IdsKeepTheirSecret
<1>1. IdInvariant => IdsKeepTheirSecret
  BY DEF IdInvariant, Agree, IdsKeepTheirSecret
<1> QED
  BY <1>1, IdInit, IdStep, PTL DEF Spec

-----------------------------------------------------------------------------
(* The inductive invariant of the replacements *)

Ops ==
  [step : Steps, chan : Chans \cup {Nil},
   kind : {"none", "update", "disable", "enable", "create", "remove"},
   arg : Updates \cup Models \cup {Nil}, old : Rows, new : Rows,
   list : Seq(Secrets) \cup {Nil}, on : SUBSET Secrets, off : SUBSET Secrets, i : Nat]
Reads == [step : {"idle", "rows", "keys"}, chans : SUBSET Chans, keys : SUBSET KeyRows]
Counts == [ops : Nat, switches : Nat, reads : Nat, failures : Nat]

Shapes ==
  /\ state \in [Chans -> {"new", "live", "deleted"}] /\ row \in [Chans -> Rows]
  /\ keys \in SUBSET KeyRows /\ IsFiniteSet(keys)
  /\ op \in [Admins -> Ops] /\ read \in [Readers -> Reads] /\ count \in Counts
  /\ asked \in [Chans -> Seq(Secrets)] /\ off \in SUBSET (Chans \X Secrets)
  /\ fate \in [Chans -> SUBSET Fates]

\* What an operation has read and computed at each of its steps.
Computed(o) ==
  CASE o.kind = "update"  -> Updated(o.old, o.arg)
    [] o.kind = "disable" -> Disabled(o.old, o.arg)
    [] o.kind = "enable"  -> Enabled(o.old, o.arg)

OpSound(o, states) ==
  /\ o.step # "idle" => o.chan \in Chans /\ states[o.chan] # "new"
  /\ o.step \in {"row", "write"} =>
       \/ o.kind = "update" /\ o.arg \in Updates
       \/ o.kind \in {"disable", "enable"} /\ o.arg \in Models
  /\ o.step = "write" => o.new = Computed(o)
  /\ o.step \in {"states", "delete", "insert"} => o.list \in Seq(Secrets)
  /\ o.step = "insert" => o.i \in 1..Len(o.list)
  /\ o.step = "purge" => states[o.chan] = "deleted"

OpsSound == \A a \in Admins : OpSound(op[a], state)

\* The operations that are replacing the keys of a channel, and those of them
\* that have deleted the old ones.
Replacing(a, c) == op[a].chan = c /\ op[a].step \in {"delete", "insert"}
Inserting(a, c) == op[a].chan = c /\ op[a].step = "insert"

DistinctSecrets(c) == \A k, l \in KeysOf(c) : k.secret = l.secret => k = l

Alone(c) == \A a, b \in Admins : Replacing(a, c) /\ Replacing(b, c) => a = b

\* The rows S are some of the first n of the list, no place twice.
FrontRows(S, list, n) ==
  /\ \A k \in S : k.sort < n /\ k.secret = list[k.sort + 1]
  /\ \A k, l \in S : k.sort = l.sort => k = l

\* While keys are inserted, those that are there come from the front of the
\* list; the channel may have been deleted meanwhile, and its keys with it.
FrontInserted(c) ==
  \A a \in Admins : Inserting(a, c) =>
    /\ FrontRows(KeysOf(c), op[a].list, op[a].i - 1)
    /\ state[c] = "live" => asked[c] = op[a].list /\ RowsAre(KeysOf(c), op[a].list, op[a].i - 1)

PrefixThere(c) ==
  state[c] = "live" =>
    \E n \in 0..Len(asked[c]) :
      /\ RowsAre(KeysOf(c), asked[c], n)
      /\ "torn" \notin fate[c] /\ (\A a \in Admins : ~Inserting(a, c)) => n = Len(asked[c])

\* No list has named a key twice, so no two rows hold the same key.
SecretsOnce(c) ==
  "doubled" \notin fate[c] =>
    DistinctSecrets(c) /\ \A a \in Admins : Inserting(a, c) => IsInjective(op[a].list)

NothingYet(c) == state[c] = "new" => KeysOf(c) = {} /\ asked[c] = <<>>

KeysSound(c) ==
  "overlap" \notin fate[c] =>
    Alone(c) /\ SecretsOnce(c) /\ FrontInserted(c) /\ PrefixThere(c)

\* A key that is switched off has a row or is still to be inserted.
OffThere(c) ==
  fate[c] = {} =>
    \A s \in Secrets : <<c, s>> \in off =>
      \/ s \in SecretsOf(c)
      \/ \E a \in Admins : Inserting(a, c) /\ \E j \in op[a].i..Len(op[a].list) : s = op[a].list[j]

\* A replacement that is under way knows which keys are off.
OffKnown(c) ==
  fate[c] = {} =>
    /\ \A k \in KeysOf(c) : <<c, k.secret>> \in off => ~k.on
    /\ \A a \in Admins : Replacing(a, c) =>
         /\ op[a].step = "delete" => \A s \in Secrets : <<c, s>> \in off => s \in op[a].off
         /\ op[a].step = "insert" => \A j \in op[a].i..Len(op[a].list) :
              <<c, op[a].list[j]>> \in off => op[a].list[j] \in op[a].off

ChannelSound(c) == NothingYet(c) /\ KeysSound(c) /\ OffThere(c) /\ OffKnown(c)

StoreInvariant ==
  /\ IdInvariant /\ Shapes
  /\ \A k, l \in keys : k.id = l.id => k = l
  /\ OpsSound
  /\ \A c \in Chans : ChannelSound(c)

-----------------------------------------------------------------------------
(* The list of keys that GetChannel returns *)

LEMMA PlaceInjective ==
  ASSUME NEW c \in Chans, keys \in SUBSET KeyRows, IsFiniteSet(keys),
         \A k, l \in keys : k.id = l.id => k = l
  PROVE  [k \in KeysOf(c) |-> Place(c, k)] \in Injection(KeysOf(c), 1..Cardinality(KeysOf(c)))
<1> DEFINE S == KeysOf(c)
           below(k) == {l \in S : l = k \/ Before(l, k)}
<1>1. S \in SUBSET keys /\ IsFiniteSet(S) /\ Cardinality(S) \in Nat
  BY FS_Subset, FS_CardinalityType DEF KeysOf
<1>2. \A k, l \in S : k # l => Before(k, l) \/ Before(l, k)
  BY <1>1 DEF Before, KeyRows
<1>3. \A k, l, m \in S : Before(k, l) /\ Before(l, m) => Before(k, m)
  BY <1>1 DEF Before, KeyRows
<1>4. \A k, l \in S : Before(k, l) => ~Before(l, k) /\ k # l
  BY <1>1 DEF Before, KeyRows
<1>5. \A k \in S : /\ below(k) \in SUBSET S /\ k \in below(k) /\ IsFiniteSet(below(k))
                   /\ Cardinality(below(k)) \in 1..Cardinality(S)
  <2> TAKE k \in S
  <2>1. below(k) \in SUBSET S /\ k \in below(k)
    OBVIOUS
  <2> HIDE DEF below, S
  <2>2. IsFiniteSet(below(k)) /\ Cardinality(below(k)) <= Cardinality(S)
    BY <1>1, <2>1, FS_Subset
  <2>3. Cardinality(below(k)) \in Nat /\ Cardinality(below(k)) # 0
    BY <2>1, <2>2, FS_CardinalityType, FS_EmptySet
  <2> QED
    BY <1>1, <2>1, <2>2, <2>3
<1>6. \A k, l \in S : Before(k, l) => Cardinality(below(k)) # Cardinality(below(l))
  <2> SUFFICES ASSUME NEW k \in S, NEW l \in S, Before(k, l)
               PROVE  Cardinality(below(k)) # Cardinality(below(l))
    OBVIOUS
  <2>1. l \notin below(k) /\ l \in below(l)
    BY <1>4
  <2>2. below(k) \in SUBSET below(l)
    BY <1>3
  <2>3. IsFiniteSet(below(l))
    BY <1>5
  <2> HIDE DEF below, S
  <2> QED
    BY <2>1, <2>2, <2>3, FS_Subset
<1>7. \A k \in S : Place(c, k) = Cardinality(below(k))
  BY DEF Place
<1> HIDE DEF below, S
<1> DEFINE place == [k \in S |-> Place(c, k)]
<1>8. place \in [S -> 1..Cardinality(S)]
  BY <1>5, <1>7
<1>9. \A k, l \in S : place[k] = place[l] => k = l
  BY <1>2, <1>6, <1>7
<1> HIDE DEF place
<1>10. place \in Injection(S, 1..Cardinality(S))
  BY <1>8, <1>9, Fun_IsInj
<1> QED
  BY <1>10 DEF place, S

LEMMA ListedShape ==
  ASSUME NEW c \in Chans, keys \in SUBSET KeyRows, IsFiniteSet(keys),
         \A k, l \in keys : k.id = l.id => k = l
  PROVE  Listed(c) = Nil \/ Listed(c) \in Seq(Secrets)
<1> DEFINE S == KeysOf(c)
           n == Cardinality(S)
           place == [k \in S |-> Place(c, k)]
           at(i) == CHOOSE k \in S : Place(c, k) = i
           list == [i \in 1..n |-> at(i).secret]
<1>1. S \in SUBSET keys /\ IsFiniteSet(S) /\ n \in Nat
  BY FS_Subset, FS_CardinalityType DEF KeysOf
<1>2. IsFiniteSet(1..n) /\ Cardinality(1..n) = n
  BY <1>1, FS_Interval
<1>3. place \in Injection(S, 1..n)
  BY PlaceInjective
<1>4. place \in Surjection(S, 1..n)
  <2> HIDE DEF place, S
  <2> QED
    BY <1>1, <1>2, <1>3, FS_Injection
<1>5. \A i \in 1..n : \E k \in S : Place(c, k) = i
  BY <1>4 DEF Surjection
<1>6. \A i \in 1..n : at(i) \in S /\ Place(c, at(i)) = i
  BY <1>5
<1>7. \A k \in S : k.secret \in Secrets
  BY <1>1 DEF KeyRows
<1> HIDE DEF at, S
<1>8. list \in Seq(Secrets)
  BY <1>1, <1>6, <1>7
<1>9. Listed(c) = Nil \/ Listed(c) = list
  BY DEF Listed, S, at
<1> QED
  BY <1>8, <1>9

-----------------------------------------------------------------------------
(* The operations and their steps *)

LEMMA NoOpShape == NoOp \in Ops /\ NoOp.step = "idle"
<1>1. NoRow \in Rows
  BY DEF NoRow, Rows
<1>2. "idle" \in Steps /\ "none" \in {"none", "update", "disable", "enable", "create", "remove"}
      /\ Nil \in Chans \cup {Nil} /\ Nil \in Updates \cup Models \cup {Nil}
      /\ Nil \in Seq(Secrets) \cup {Nil} /\ {} \in SUBSET Secrets /\ 0 \in Nat
  BY DEF Steps
<1> HIDE DEF NoRow
<1>3. NoOp \in Ops
  BY <1>1, <1>2, Zenon DEF NoOp, Ops
<1> QED
  BY <1>3 DEF NoOp

\* Channels are created and deleted, and never come back.
StateMoves ==
  \A c \in Chans : \/ state'[c] = state[c]
                   \/ state[c] = "new" /\ state'[c] = "live"
                   \/ state[c] = "live" /\ state'[c] = "deleted"

\* No other operation moves.
OthersRest(a) == \A b \in Admins : b # a => op'[b] = op[b]

\* An operation that moves to a sound step leaves all of them sound.
LEMMA OpsKept ==
  ASSUME StoreInvariant, StateMoves,
         NEW a \in Admins, NEW o \in Ops, OpSound(o, state'), op' = [op EXCEPT ![a] = o]
  PROVE  op' \in [Admins -> Ops] /\ OpsSound' /\ op'[a] = o /\ OthersRest(a)
<1>1. op \in [Admins -> Ops] /\ \A b \in Admins : OpSound(op[b], state)
  BY DEF StoreInvariant, Shapes, OpsSound
<1>2. op' \in [Admins -> Ops] /\ \A b \in Admins : op'[b] = IF b = a THEN o ELSE op[b]
  BY <1>1
<1>3. ASSUME NEW p \in Ops, OpSound(p, state)
      PROVE  OpSound(p, state')
  <2>1. p.step # "idle" => p.chan \in Chans /\ state'[p.chan] # "new"
    BY <1>3 DEF OpSound, StateMoves
  <2>2. p.step = "purge" => state'[p.chan] = "deleted"
    BY <1>3, <2>1 DEF OpSound, StateMoves
  <2> QED
    BY <1>3, <2>1, <2>2 DEF OpSound
<1> QED
  BY <1>1, <1>2, <1>3 DEF OpsSound, OthersRest

LEMMA BodyShape ==
  ASSUME NEW u \in Updates
  PROVE  /\ u.models \in SUBSET Models /\ (u.disabled # Nil => u.disabled \in SUBSET Models)
         /\ u.list # Nil => u.list \in Seq(Secrets)
BY ChannelStoreAssumption

LEMMA CountsKept ==
  ASSUME count \in Counts
  PROVE  /\ [count EXCEPT !.ops = @ + 1] \in Counts
         /\ [count EXCEPT !.switches = @ + 1] \in Counts
         /\ [count EXCEPT !.reads = @ + 1] \in Counts
         /\ [count EXCEPT !.failures = @ + 1] \in Counts
BY DEF Counts

\* What goes wrong with a channel is a set of fates.
LEMMA FateKept ==
  ASSUME fate \in [Chans -> SUBSET Fates], NEW c \in Chans, NEW cond \in BOOLEAN,
         NEW what \in SUBSET Fates, Suffer(c, cond, what)
  PROVE  /\ fate' \in [Chans -> SUBSET Fates] /\ \A d \in Chans \ {c} : fate'[d] = fate[d]
         /\ fate'[c] = IF cond THEN fate[c] \cup what ELSE fate[c]
BY DEF Suffer

LEMMA GetRowShapes ==
  ASSUME StoreInvariant, NEW a \in Admins, NEW c \in Chans, NEW kind, NEW arg,
         \/ kind = "update" /\ arg \in Updates
         \/ kind \in {"disable", "enable"} /\ arg \in Models,
         GetRow(a, c, kind, arg)
  PROVE  Shapes' /\ OpsSound' /\ op'[a].step = "row" /\ OthersRest(a)
<1> DEFINE was == row[c]
           o == [NoOp EXCEPT !.step = "row", !.chan = c, !.kind = kind, !.arg = arg, !.old = was]
<1>1. /\ op' = [op EXCEPT ![a] = o] /\ state[c] = "live"
      /\ UNCHANGED <<state, row, keys, nextId, read, asked, off, fate>>
      /\ count' = [count EXCEPT !.ops = @ + 1]
  BY DEF GetRow, Started
<1>2. /\ "row" \in Steps /\ c \in Chans \cup {Nil} /\ arg \in Updates \cup Models \cup {Nil}
      /\ kind \in {"none", "update", "disable", "enable", "create", "remove"} /\ was \in Rows
  BY DEF Steps, StoreInvariant, Shapes
<1>3. NoOp \in Ops
  BY NoOpShape
<1> HIDE DEF NoOp, was
<1>4. o \in Ops
  BY <1>2, <1>3, Zenon DEF Ops
<1>5. o.step = "row" /\ o.chan = c /\ o.kind = kind /\ o.arg = arg
  BY <1>3 DEF Ops
<1> HIDE DEF o
<1>6. OpSound(o, state')
  BY <1>1, <1>5 DEF OpSound
<1>7. StateMoves
  BY <1>1 DEF StateMoves
<1>8. op' \in [Admins -> Ops] /\ OpsSound' /\ op'[a] = o /\ OthersRest(a)
  BY <1>1, <1>4, <1>6, <1>7, OpsKept
<1>9. count' \in Counts
  BY <1>1, CountsKept DEF StoreInvariant, Shapes
<1> QED
  BY <1>1, <1>5, <1>8, <1>9 DEF StoreInvariant, Shapes

LEMMA ComputedShape ==
  ASSUME NEW o, o.old \in Rows,
         \/ o.kind = "update" /\ o.arg \in Updates
         \/ o.kind \in {"disable", "enable"} /\ o.arg \in Models
  PROVE  Computed(o) \in Rows
<1>1. o.old.models \subseteq Models /\ o.old.disabled \subseteq Models
  BY DEF Rows
<1>2. \A m, d \in SUBSET Models : Normalized(m, d) \in Rows
  BY DEF Normalized, Rows
<1>3. CASE o.kind = "update" /\ o.arg \in Updates
  <2>1. Computed(o) = Updated(o.old, o.arg)
    BY <1>3 DEF Computed
  <2> QED
    BY <1>1, <1>2, <1>3, <2>1, BodyShape DEF Updated
<1>4. CASE o.kind = "disable" /\ o.arg \in Models
  <2>1. Computed(o) = Disabled(o.old, o.arg)
    BY <1>4 DEF Computed
  <2> QED
    BY <1>1, <1>2, <1>4, <2>1 DEF Disabled
<1>5. CASE o.kind = "enable" /\ o.arg \in Models
  <2>1. Computed(o) = Enabled(o.old, o.arg)
    BY <1>5 DEF Computed
  <2> QED
    BY <1>1, <1>2, <1>5, <2>1 DEF Enabled
<1> QED
  BY <1>3, <1>4, <1>5

LEMMA HandedShape ==
  ASSUME StoreInvariant, NEW c \in Chans, NEW list,
         list = Listed(c) \/ \E u \in Updates : list = Handed(c, u)
  PROVE  list = Nil \/ list \in Seq(Secrets)
<1>1. Listed(c) = Nil \/ Listed(c) \in Seq(Secrets)
  BY ListedShape DEF StoreInvariant, Shapes
<1>2. ASSUME NEW u \in Updates, list = Handed(c, u)
      PROVE  list = Listed(c) \/ list = Nil \/ list \in Seq(Secrets)
  BY <1>2, BodyShape DEF Handed
<1> QED
  BY <1>1, <1>2

LEMMA GetKeysShapes ==
  ASSUME StoreInvariant, NEW a \in Admins, GetKeys(a)
  PROVE  Shapes' /\ OpsSound' /\ op'[a].step = "write" /\ OthersRest(a)
<1> DEFINE p == op[a]
           new == Computed(p)
           list == IF p.kind = "update" THEN Handed(p.chan, p.arg) ELSE Listed(p.chan)
           o == [p EXCEPT !.step = "write", !.new = new, !.list = list]
<1>1. /\ op' = [op EXCEPT ![a] = o] /\ p.step = "row"
      /\ UNCHANGED <<state, row, keys, nextId, read, count, asked, off, fate>>
  BY DEF GetKeys, At, Computed
<1>2. p \in Ops /\ OpSound(p, state)
  BY DEF StoreInvariant, Shapes, OpsSound
<1>3. /\ p.chan \in Chans /\ state[p.chan] # "new" /\ p.old \in Rows
      /\ \/ p.kind = "update" /\ p.arg \in Updates
         \/ p.kind \in {"disable", "enable"} /\ p.arg \in Models
  BY <1>1, <1>2 DEF OpSound, Ops
<1>4. new \in Rows
  BY <1>3, ComputedShape
<1>5. list = Nil \/ list \in Seq(Secrets)
  <2>1. list = Listed(p.chan) \/ \E u \in Updates : list = Handed(p.chan, u)
    BY <1>3
  <2> HIDE DEF list
  <2> QED
    BY <1>3, <2>1, HandedShape
<1> HIDE DEF p, list
<1>6. "write" \in Steps /\ list \in Seq(Secrets) \cup {Nil}
  BY <1>5 DEF Steps
<1> HIDE DEF new
<1>7. o \in Ops
  BY <1>2, <1>4, <1>6, Zenon DEF Ops
<1>8. /\ o.step = "write" /\ o.chan = p.chan /\ o.kind = p.kind /\ o.arg = p.arg /\ o.old = p.old
      /\ o.new = new /\ o.list = list
  BY <1>2 DEF Ops
<1> HIDE DEF o
<1>9. OpSound(o, state')
  BY <1>1, <1>3, <1>5, <1>8 DEF OpSound, new, Computed
<1>10. StateMoves
  BY <1>1 DEF StateMoves
<1>11. op' \in [Admins -> Ops] /\ OpsSound' /\ op'[a] = o /\ OthersRest(a)
  BY <1>1, <1>7, <1>9, <1>10, OpsKept
<1> QED
  BY <1>1, <1>8, <1>11 DEF StoreInvariant, Shapes

\* An operation that ends.
LEMMA EndedShapes ==
  ASSUME StoreInvariant, NEW a \in Admins, Ended(a), StateMoves
  PROVE  op' \in [Admins -> Ops] /\ OpsSound' /\ op'[a].step = "idle" /\ OthersRest(a)
<1>1. NoOp \in Ops /\ NoOp.step = "idle" /\ OpSound(NoOp, state')
  BY NoOpShape DEF OpSound
<1> HIDE DEF NoOp
<1> QED
  BY <1>1, OpsKept DEF Ended

LEMMA WriteRowShapes ==
  ASSUME StoreInvariant, NEW a \in Admins, WriteRow(a)
  PROVE  Shapes' /\ OpsSound' /\ op'[a].step \in {"idle", "states"} /\ OthersRest(a)
<1> DEFINE p == op[a]
           o == [p EXCEPT !.step = "states"]
<1>1. p \in Ops /\ OpSound(p, state) /\ p.step = "write" /\ op \in [Admins -> Ops]
  BY DEF StoreInvariant, Shapes, OpsSound, WriteRow, At
<1>2. UNCHANGED <<state, keys, nextId, read, count, asked, off, fate>>
  BY DEF WriteRow
<1>3. StateMoves
  BY <1>2 DEF StateMoves
<1>4. row' \in [Chans -> Rows]
  <2>1. p.new \in Rows /\ p.chan \in Chans
    BY <1>1 DEF Ops, OpSound
  <2> QED
    BY <2>1 DEF WriteRow, StoreInvariant, Shapes
<1>5. Ended(a) \/ (p.list # Nil /\ op' = [op EXCEPT ![a] = o])
  BY <1>1 DEF WriteRow
<1>6. ASSUME p.list # Nil, op' = [op EXCEPT ![a] = o]
      PROVE  op' \in [Admins -> Ops] /\ OpsSound' /\ op'[a].step = "states" /\ OthersRest(a)
  <2> HIDE DEF p
  <2>1. "states" \in Steps
    BY DEF Steps
  <2>2. o \in Ops
    BY <1>1, <2>1, Zenon DEF Ops
  <2>3. o.step = "states" /\ o.chan = p.chan /\ o.list = p.list
    BY <1>1 DEF Ops
  <2> HIDE DEF o
  <2>4. p.list \in Seq(Secrets)
    BY <1>1, <1>6 DEF Ops
  <2>5. OpSound(o, state')
    BY <1>1, <1>2, <1>6, <2>3, <2>4 DEF OpSound
  <2> QED
    BY <1>3, <1>6, <2>2, <2>3, <2>5, OpsKept
<1>7. op' \in [Admins -> Ops] /\ OpsSound' /\ op'[a].step \in {"idle", "states"} /\ OthersRest(a)
  BY <1>3, <1>5, <1>6, EndedShapes
<1> QED
  BY <1>2, <1>4, <1>7 DEF StoreInvariant, Shapes

LEMMA CreateShapes ==
  ASSUME StoreInvariant, NEW a \in Admins, NEW c \in Chans, NEW u \in Updates, Create(a, c, u)
  PROVE  Shapes' /\ OpsSound' /\ op'[a].step = "states" /\ OthersRest(a)
<1> DEFINE list == IF u.list = Nil THEN <<>> ELSE u.list
           disabled == IF u.disabled = Nil THEN {} ELSE u.disabled
           made == Normalized(u.models, disabled)
           o == [NoOp EXCEPT !.step = "states", !.chan = c, !.kind = "create", !.list = list]
<1>1. /\ state[c] = "new" /\ state' = [state EXCEPT ![c] = "live"]
      /\ row' = [row EXCEPT ![c] = made] /\ op' = [op EXCEPT ![a] = o]
      /\ count' = [count EXCEPT !.ops = @ + 1]
      /\ UNCHANGED <<keys, nextId, read, asked, off, fate>>
  BY DEF Create, Started
<1>2. list \in Seq(Secrets)
  <2>1. <<>> \in Seq(Secrets)
    OBVIOUS
  <2> QED
    BY <2>1, BodyShape
<1>3. made \in Rows
  BY BodyShape DEF Normalized, Rows
<1>4. /\ "states" \in Steps /\ c \in Chans \cup {Nil} /\ list \in Seq(Secrets) \cup {Nil}
      /\ "create" \in {"none", "update", "disable", "enable", "create", "remove"}
  BY <1>2 DEF Steps
<1>5. NoOp \in Ops
  BY NoOpShape
<1> HIDE DEF NoOp, list, made
<1>6. o \in Ops
  BY <1>4, <1>5, Zenon DEF Ops
<1>7. o.step = "states" /\ o.chan = c /\ o.list = list
  BY <1>5 DEF Ops
<1> HIDE DEF o
<1>8. state' \in [Chans -> {"new", "live", "deleted"}] /\ state'[c] = "live" /\ StateMoves
  BY <1>1 DEF StoreInvariant, Shapes, StateMoves
<1>9. OpSound(o, state')
  BY <1>2, <1>7, <1>8 DEF OpSound
<1>10. op' \in [Admins -> Ops] /\ OpsSound' /\ op'[a] = o /\ OthersRest(a)
  BY <1>1, <1>6, <1>8, <1>9, OpsKept
<1>11. count' \in Counts /\ row' \in [Chans -> Rows]
  BY <1>1, <1>3, CountsKept DEF StoreInvariant, Shapes
<1> QED
  BY <1>1, <1>7, <1>8, <1>10, <1>11 DEF StoreInvariant, Shapes

LEMMA ReadStatesShapes ==
  ASSUME StoreInvariant, NEW a \in Admins, ReadStates(a)
  PROVE  /\ Shapes' /\ OpsSound'
         /\ op'[a].step = "delete" /\ op'[a].chan = op[a].chan
         /\ op'[a].off = {s \in SecretsOf(op[a].chan) : LastIs(op[a].chan, s, FALSE)}
         /\ OthersRest(a)
         /\ \A d \in Chans \ {op[a].chan} : fate'[d] = fate[d]
         /\ fate'[op[a].chan] = IF \E b \in Admins : Replacing(b, op[a].chan)
                                THEN fate[op[a].chan] \cup {"overlap"} ELSE fate[op[a].chan]
<1> DEFINE p == op[a]
           c == p.chan
           ons == {s \in SecretsOf(c) : LastIs(c, s, TRUE)}
           offs == {s \in SecretsOf(c) : LastIs(c, s, FALSE)}
           o == [p EXCEPT !.step = "delete", !.on = ons, !.off = offs]
<1>1. p \in Ops /\ OpSound(p, state) /\ p.step = "states" /\ op \in [Admins -> Ops]
  BY DEF StoreInvariant, Shapes, OpsSound, ReadStates, At
<1>2. /\ op' = [op EXCEPT ![a] = o]
      /\ Suffer(c, \E b \in Admins : Replacing(b, c), {"overlap"})
      /\ UNCHANGED <<state, row, keys, nextId, read, count, asked, off>>
  BY DEF ReadStates, Replacing
<1>3. c \in Chans /\ state[c] # "new" /\ p.list \in Seq(Secrets)
  BY <1>1 DEF OpSound
<1>4. "delete" \in Steps /\ ons \in SUBSET Secrets /\ offs \in SUBSET Secrets
  <2>1. SecretsOf(c) \subseteq Secrets
    BY DEF SecretsOf, KeysOf, StoreInvariant, Shapes, KeyRows
  <2> QED
    BY <2>1 DEF Steps
<1>5. c = p.chan
  OBVIOUS
<1> HIDE DEF p, c, ons, offs
<1>6. o \in Ops
  BY <1>1, <1>4, Zenon DEF Ops
<1>7. o.step = "delete" /\ o.chan = c /\ o.list = p.list /\ o.off = offs
  BY <1>1, <1>5 DEF Ops
<1> HIDE DEF o
<1>8. OpSound(o, state')
  BY <1>2, <1>3, <1>7 DEF OpSound
<1>9. StateMoves
  BY <1>2 DEF StateMoves
<1>10. op' \in [Admins -> Ops] /\ OpsSound' /\ op'[a] = o /\ OthersRest(a)
  BY <1>2, <1>6, <1>8, <1>9, OpsKept
<1>11. /\ fate' \in [Chans -> SUBSET Fates] /\ \A d \in Chans \ {c} : fate'[d] = fate[d]
       /\ fate'[c] = IF \E b \in Admins : Replacing(b, c) THEN fate[c] \cup {"overlap"} ELSE fate[c]
  <2>1. {"overlap"} \in SUBSET Fates
    BY DEF Fates
  <2> QED
    BY <1>2, <1>3, <2>1, FateKept DEF StoreInvariant, Shapes
<1>12. Shapes'
  BY <1>2, <1>10, <1>11 DEF StoreInvariant, Shapes
<1> QED
  BY <1>7, <1>10, <1>11, <1>12 DEF offs, c, p

\* What a list does to the keys of a channel that it replaces.
NewFates(o) ==
  (IF IsInjective(o.list) THEN {} ELSE {"doubled"})
  \cup (IF Named(o) \/ SecretsOf(o.chan) \subseteq ToSet(o.list) THEN {} ELSE {"stale"})

LEMMA DeleteKeysShapes ==
  ASSUME StoreInvariant, NEW a \in Admins, DeleteKeys(a)
  PROVE  /\ Shapes' /\ OpsSound'
         /\ op[a].chan \in Chans /\ op[a].list \in Seq(Secrets)
         /\ OthersRest(a)
         /\ \A d \in Chans \ {op[a].chan} : fate'[d] = fate[d]
         /\ fate'[op[a].chan] = fate[op[a].chan] \cup NewFates(op[a])
         /\ \/ op[a].list = <<>> /\ op'[a].step = "idle"
            \/ /\ op[a].list # <<>> /\ op'[a].step = "insert" /\ op'[a].i = 1
               /\ op'[a].chan = op[a].chan /\ op'[a].list = op[a].list /\ op'[a].off = op[a].off
<1> DEFINE p == op[a]
           c == p.chan
           o == [p EXCEPT !.step = "insert", !.i = 1]
<1>1. p \in Ops /\ OpSound(p, state) /\ p.step = "delete" /\ op \in [Admins -> Ops]
  BY DEF StoreInvariant, Shapes, OpsSound, DeleteKeys, At
<1>2. /\ keys' = keys \ KeysOf(c) /\ asked' = [asked EXCEPT ![c] = p.list] /\ off' \subseteq off
      /\ UNCHANGED <<state, row, nextId, read, count>>
      /\ \/ p.list = <<>> /\ Ended(a)
         \/ p.list # <<>> /\ op' = [op EXCEPT ![a] = o]
  BY DEF DeleteKeys
<1>3. c \in Chans /\ state[c] # "new" /\ p.list \in Seq(Secrets)
  BY <1>1 DEF OpSound
<1>a. fate' = [fate EXCEPT ![c] = @ \cup NewFates(p)]
  BY DEF DeleteKeys, NewFates
<1>b. NewFates(p) \subseteq Fates
  BY DEF NewFates, Fates
<1>4. StateMoves
  BY <1>2 DEF StateMoves
<1>5. /\ op' \in [Admins -> Ops] /\ OpsSound'
      /\ \/ p.list = <<>> /\ op'[a].step = "idle"
         \/ /\ p.list # <<>> /\ op'[a].step = "insert" /\ op'[a].i = 1
            /\ op'[a].chan = c /\ op'[a].list = p.list /\ op'[a].off = p.off
      /\ OthersRest(a)
  <2>1. CASE p.list = <<>> /\ Ended(a)
    <3>1. op' \in [Admins -> Ops] /\ OpsSound' /\ op'[a].step = "idle" /\ OthersRest(a)
      BY <1>4, <2>1, EndedShapes
    <3> QED
      BY <2>1, <3>1
  <2>2. CASE p.list # <<>> /\ op' = [op EXCEPT ![a] = o]
    <3>1. Len(p.list) \in Nat /\ 1 \in 1..Len(p.list) /\ "insert" \in Steps /\ 1 \in Nat
      BY <1>3, <2>2 DEF Steps
    <3> HIDE DEF p
    <3>2. o \in Ops
      BY <1>1, <3>1, Zenon DEF Ops
    <3>3. o.step = "insert" /\ o.chan = c /\ o.list = p.list /\ o.i = 1 /\ o.off = p.off
      BY <1>1 DEF Ops
    <3> HIDE DEF o, c
    <3>4. OpSound(o, state')
      BY <1>2, <1>3, <3>1, <3>3 DEF OpSound
    <3>5. op' \in [Admins -> Ops] /\ OpsSound' /\ op'[a] = o /\ OthersRest(a)
      BY <1>4, <2>2, <3>2, <3>4, OpsKept
    <3> QED
      BY <2>2, <3>3, <3>5
  <2> QED
    BY <1>2, <2>1, <2>2
<1> HIDE DEF p, o
<1>6. /\ keys' \in SUBSET KeyRows /\ IsFiniteSet(keys') /\ asked' \in [Chans -> Seq(Secrets)]
      /\ off' \in SUBSET (Chans \X Secrets)
  BY <1>2, <1>3, FS_Subset DEF StoreInvariant, Shapes
<1>7. /\ fate' \in [Chans -> SUBSET Fates] /\ \A d \in Chans \ {c} : fate'[d] = fate[d]
      /\ fate'[c] = fate[c] \cup NewFates(p)
  BY <1>3, <1>a, <1>b DEF StoreInvariant, Shapes
<1>8. Shapes'
  BY <1>2, <1>5, <1>6, <1>7 DEF StoreInvariant, Shapes
<1> QED
  BY <1>3, <1>5, <1>7, <1>8 DEF p, c

LEMMA InsertKeyShapes ==
  ASSUME StoreInvariant, NEW a \in Admins, InsertKey(a)
  PROVE  /\ Shapes' /\ OpsSound'
         /\ NewKey(op[a]) \in KeyRows
         /\ op[a].chan \in Chans /\ op[a].list \in Seq(Secrets) /\ op[a].i \in 1..Len(op[a].list)
         /\ OthersRest(a)
         /\ \/ op[a].i = Len(op[a].list) /\ op'[a].step = "idle"
            \/ /\ op[a].i # Len(op[a].list) /\ op'[a].step = "insert" /\ op'[a].i = op[a].i + 1
               /\ op'[a].chan = op[a].chan /\ op'[a].list = op[a].list /\ op'[a].off = op[a].off
<1> DEFINE p == op[a]
           o == [p EXCEPT !.i = @ + 1]
<1>1. p \in Ops /\ OpSound(p, state) /\ p.step = "insert" /\ op \in [Admins -> Ops]
  BY DEF StoreInvariant, Shapes, OpsSound, InsertKey, At
<1>2. /\ keys' = keys \cup {NewKey(p)}
      /\ UNCHANGED <<state, row, read, count, asked, off, fate>>
      /\ \/ p.i = Len(p.list) /\ Ended(a)
         \/ p.i # Len(p.list) /\ op' = [op EXCEPT ![a] = o]
  BY <1>1 DEF InsertKey, LastTurn
<1>3. /\ p.chan \in Chans /\ state[p.chan] # "new" /\ p.list \in Seq(Secrets)
      /\ p.i \in 1..Len(p.list)
  BY <1>1 DEF OpSound
<1>4. StateMoves
  BY <1>2 DEF StateMoves
<1>5. NewKey(p) \in KeyRows
  <2>1. nextId \in Nat /\ p.list[p.i] \in Secrets /\ p.i - 1 \in Nat
    BY <1>3 DEF StoreInvariant, IdInvariant
  <2> HIDE DEF p
  <2> QED
    BY <1>3, <2>1 DEF NewKey, NextKeyId, KeyRows
<1>6. /\ op' \in [Admins -> Ops] /\ OpsSound'
      /\ \/ p.i = Len(p.list) /\ op'[a].step = "idle"
         \/ /\ p.i # Len(p.list) /\ op'[a].step = "insert" /\ op'[a].i = p.i + 1
            /\ op'[a].chan = p.chan /\ op'[a].list = p.list /\ op'[a].off = p.off
      /\ OthersRest(a)
  <2>1. CASE p.i = Len(p.list) /\ Ended(a)
    <3>1. op' \in [Admins -> Ops] /\ OpsSound' /\ op'[a].step = "idle" /\ OthersRest(a)
      BY <1>4, <2>1, EndedShapes
    <3> QED
      BY <2>1, <3>1
  <2>2. CASE p.i # Len(p.list) /\ op' = [op EXCEPT ![a] = o]
    <3>1. p.i + 1 \in 1..Len(p.list) /\ p.i + 1 \in Nat
      BY <1>3, <2>2
    <3> DEFINE next == p.i + 1
    <3>a. o = [p EXCEPT !.i = next]
      BY <1>1 DEF Ops
    <3> HIDE DEF p, next, o
    <3>2. o \in Ops
      BY <1>1, <3>1, <3>a, Zenon DEF Ops, next
    <3>3. o.step = "insert" /\ o.chan = p.chan /\ o.list = p.list /\ o.i = next /\ o.off = p.off
      BY <1>1, <3>a DEF Ops
    <3>4. OpSound(o, state')
      BY <1>2, <1>3, <3>1, <3>3 DEF OpSound, next
    <3>5. op' \in [Admins -> Ops] /\ OpsSound' /\ op'[a] = o /\ OthersRest(a)
      BY <1>4, <2>2, <3>2, <3>4, OpsKept
    <3> QED
      BY <2>2, <3>3, <3>5 DEF next
  <2> QED
    BY <1>2, <2>1, <2>2
<1> HIDE DEF p, o
<1>7. keys' \in SUBSET KeyRows /\ IsFiniteSet(keys')
  BY <1>2, <1>5, FS_AddElement DEF StoreInvariant, Shapes
<1>8. Shapes'
  BY <1>2, <1>6, <1>7 DEF StoreInvariant, Shapes
<1> QED
  BY <1>3, <1>5, <1>6, <1>8 DEF p

LEMMA DeleteRowShapes ==
  ASSUME StoreInvariant, NEW a \in Admins, NEW c \in Chans, DeleteRow(a, c)
  PROVE  Shapes' /\ OpsSound' /\ op'[a].step = "purge" /\ OthersRest(a)
<1> DEFINE o == [NoOp EXCEPT !.step = "purge", !.chan = c, !.kind = "remove"]
<1>1. /\ state[c] = "live" /\ state' = [state EXCEPT ![c] = "deleted"]
      /\ op' = [op EXCEPT ![a] = o] /\ count' = [count EXCEPT !.ops = @ + 1]
      /\ UNCHANGED <<row, keys, nextId, read, asked, off, fate>>
  BY DEF DeleteRow, Started
<1>2. /\ "purge" \in Steps /\ c \in Chans \cup {Nil}
      /\ "remove" \in {"none", "update", "disable", "enable", "create", "remove"}
  BY DEF Steps
<1>3. NoOp \in Ops
  BY NoOpShape
<1> HIDE DEF NoOp
<1>4. o \in Ops
  BY <1>2, <1>3, Zenon DEF Ops
<1>5. o.step = "purge" /\ o.chan = c
  BY <1>3 DEF Ops
<1> HIDE DEF o
<1>6. /\ state' \in [Chans -> {"new", "live", "deleted"}] /\ state'[c] = "deleted" /\ StateMoves
  BY <1>1 DEF StoreInvariant, Shapes, StateMoves
<1>7. OpSound(o, state')
  BY <1>5, <1>6 DEF OpSound
<1>8. op' \in [Admins -> Ops] /\ OpsSound' /\ op'[a] = o /\ OthersRest(a)
  BY <1>1, <1>4, <1>6, <1>7, OpsKept
<1>9. count' \in Counts
  BY <1>1, CountsKept DEF StoreInvariant, Shapes
<1> QED
  BY <1>1, <1>5, <1>6, <1>8, <1>9 DEF StoreInvariant, Shapes

LEMMA PurgeKeysShapes ==
  ASSUME StoreInvariant, NEW a \in Admins, PurgeKeys(a)
  PROVE  Shapes' /\ OpsSound' /\ op'[a].step = "idle" /\ OthersRest(a)
<1>1. /\ keys' \subseteq keys /\ off' \subseteq off
      /\ UNCHANGED <<state, row, nextId, read, count, asked, fate>>
  BY DEF PurgeKeys
<1>2. StateMoves
  BY <1>1 DEF StateMoves
<1>3. op' \in [Admins -> Ops] /\ OpsSound' /\ op'[a].step = "idle" /\ OthersRest(a)
  BY <1>2, EndedShapes DEF PurgeKeys
<1>4. /\ keys' \in SUBSET KeyRows /\ IsFiniteSet(keys') /\ off' \in SUBSET (Chans \X Secrets)
  BY <1>1, FS_Subset DEF StoreInvariant, Shapes
<1> QED
  BY <1>1, <1>3, <1>4 DEF StoreInvariant, Shapes

LEMMA EndEarlyShapes ==
  ASSUME StoreInvariant, NEW a \in Admins, EndEarly(a)
  PROVE  /\ Shapes' /\ OpsSound' /\ op'[a].step = "idle" /\ OthersRest(a)
         /\ op[a].chan \in Chans
         /\ \A d \in Chans \ {op[a].chan} : fate'[d] = fate[d]
         /\ fate'[op[a].chan] = IF op[a].step = "insert"
                                THEN fate[op[a].chan] \cup {"torn"} ELSE fate[op[a].chan]
<1>1. /\ count' = [count EXCEPT !.failures = @ + 1]
      /\ Suffer(op[a].chan, op[a].step = "insert", {"torn"})
      /\ UNCHANGED <<state, row, keys, nextId, read, asked, off>>
  BY DEF EndEarly, At
<1>2. StateMoves
  BY <1>1 DEF StateMoves
<1>3. op' \in [Admins -> Ops] /\ OpsSound' /\ op'[a].step = "idle" /\ OthersRest(a)
  BY <1>2, EndedShapes DEF EndEarly
<1>4. count' \in Counts
  BY <1>1, CountsKept DEF StoreInvariant, Shapes
<1>5. op[a].chan \in Chans
  BY DEF EndEarly, At, StoreInvariant, OpsSound, OpSound
<1>6. /\ fate' \in [Chans -> SUBSET Fates] /\ \A d \in Chans \ {op[a].chan} : fate'[d] = fate[d]
      /\ fate'[op[a].chan] = IF op[a].step = "insert"
                             THEN fate[op[a].chan] \cup {"torn"} ELSE fate[op[a].chan]
  <2>1. {"torn"} \in SUBSET Fates
    BY DEF Fates
  <2> QED
    BY <1>1, <1>5, <2>1, FateKept DEF StoreInvariant, Shapes
<1> QED
  BY <1>1, <1>3, <1>4, <1>5, <1>6 DEF StoreInvariant, Shapes

\* A step after which every operation is where it was.
LEMMA OpsStill ==
  ASSUME StoreInvariant, op' = op, state' = state
  PROVE  op' \in [Admins -> Ops] /\ OpsSound'
BY DEF StoreInvariant, Shapes, OpsSound

LEMMA SwitchKeyFate ==
  ASSUME StoreInvariant, NEW k \in keys, NEW on \in BOOLEAN, SwitchKey(k, on)
  PROVE  /\ fate' \in [Chans -> SUBSET Fates] /\ \A d \in Chans \ {k.chan} : fate'[d] = fate[d]
         /\ fate'[k.chan] = IF \E a \in Admins : op[a].chan = k.chan /\ At(a, "delete")
                            THEN fate[k.chan] \cup {"raced"} ELSE fate[k.chan]
<1>1. k.chan \in Chans /\ {"raced"} \in SUBSET Fates
  BY DEF StoreInvariant, Shapes, KeyRows, Fates
<1>2. Suffer(k.chan, \E a \in Admins : op[a].chan = k.chan /\ At(a, "delete"), {"raced"})
  BY DEF SwitchKey
<1> QED
  BY <1>1, <1>2, FateKept DEF StoreInvariant, Shapes

\* Switching a key changes the switch of its row, and no other row.
LEMMA SwitchKeyShapes ==
  ASSUME StoreInvariant, NEW k \in keys, NEW on \in BOOLEAN, SwitchKey(k, on)
  PROVE  /\ Shapes' /\ OpsSound'
         /\ \E l : /\ l \in KeyRows /\ keys' = (keys \ {k}) \cup {l}
                   /\ l.id = k.id /\ l.chan = k.chan /\ l.secret = k.secret /\ l.sort = k.sort
                   /\ l.on = on
<1> DEFINE l == [k EXCEPT !.on = on]
<1>1. k \in KeyRows /\ k.chan \in Chans /\ k.secret \in Secrets
  BY DEF StoreInvariant, Shapes, KeyRows
<1>2. l \in KeyRows
  BY <1>1, Zenon DEF KeyRows
<1>3. /\ l.id = k.id /\ l.chan = k.chan /\ l.secret = k.secret /\ l.sort = k.sort
      /\ l.on = on
  BY <1>1 DEF KeyRows
<1>4. /\ keys' = (keys \ {k}) \cup {l} /\ count' = [count EXCEPT !.switches = @ + 1]
      /\ off' \subseteq off \cup {<<k.chan, k.secret>>}
      /\ UNCHANGED <<state, row, nextId, op, read, asked>>
  BY DEF SwitchKey
<1> HIDE DEF l
<1>5. keys' \in SUBSET KeyRows /\ IsFiniteSet(keys')
  <2>1. keys \ {k} \in SUBSET keys /\ IsFiniteSet(keys) /\ keys \in SUBSET KeyRows
    BY DEF StoreInvariant, Shapes
  <2>2. IsFiniteSet(keys \ {k})
    BY <2>1, FS_Subset
  <2> QED
    BY <1>2, <1>4, <2>1, <2>2, FS_AddElement
<1>6. count' \in Counts /\ off' \in SUBSET (Chans \X Secrets)
  BY <1>1, <1>4, CountsKept DEF StoreInvariant, Shapes
<1>7. op' \in [Admins -> Ops] /\ OpsSound'
  BY <1>4, OpsStill
<1>8. fate' \in [Chans -> SUBSET Fates]
  BY SwitchKeyFate
<1> QED
  BY <1>2, <1>3, <1>4, <1>5, <1>6, <1>7, <1>8 DEF StoreInvariant, Shapes

LEMMA ReaderShapes ==
  ASSUME StoreInvariant, NEW p \in Readers, ListRows(p) \/ LoadKeys(p) \/ Answer(p)
  PROVE  /\ Shapes' /\ OpsSound'
         /\ UNCHANGED <<state, keys, op, asked, off, fate>>
<1>1. UNCHANGED <<state, row, keys, nextId, op, asked, off, fate>>
  BY DEF ListRows, LoadKeys, Answer
<1>2. count' \in Counts
  BY CountsKept DEF ListRows, LoadKeys, Answer, StoreInvariant, Shapes
<1>3. op' \in [Admins -> Ops] /\ OpsSound'
  BY <1>1, OpsStill
<1>4. read[p] \in Reads /\ keys \in SUBSET KeyRows /\ read \in [Readers -> Reads]
  BY DEF StoreInvariant, Shapes
<1>5. read' \in [Readers -> Reads]
  <2>1. CASE ListRows(p)
    <3> DEFINE r == [step |-> "rows", chans |-> {c \in Chans : state[c] = "live"}, keys |-> {}]
    <3>1. r \in Reads
      BY DEF Reads
    <3>2. read' = [read EXCEPT ![p] = r]
      BY <2>1 DEF ListRows
    <3> HIDE DEF r
    <3> QED
      BY <1>4, <3>1, <3>2
  <2>2. CASE LoadKeys(p)
    <3> DEFINE seen == {k \in keys : k.chan \in read[p].chans}
               r == [read[p] EXCEPT !.step = "keys", !.keys = seen]
    <3>1. "keys" \in {"idle", "rows", "keys"} /\ seen \in SUBSET KeyRows
      BY <1>4
    <3>2. read' = [read EXCEPT ![p] = r]
      BY <2>2 DEF LoadKeys
    <3> HIDE DEF seen
    <3>3. r \in Reads
      BY <1>4, <3>1, Zenon DEF Reads
    <3> HIDE DEF r
    <3> QED
      BY <1>4, <3>2, <3>3
  <2>3. CASE Answer(p)
    <3>1. NoRead \in Reads
      BY DEF NoRead, Reads
    <3>2. read' = [read EXCEPT ![p] = NoRead]
      BY <2>3 DEF Answer
    <3> QED
      BY <1>4, <3>1, <3>2
  <2> QED
    BY <2>1, <2>2, <2>3
<1> QED
  BY <1>1, <1>2, <1>3, <1>5 DEF StoreInvariant, Shapes

-----------------------------------------------------------------------------
(* Steps that a channel does not notice *)

Unnoticed(d) ==
  /\ KeysOf(d)' = KeysOf(d) /\ state'[d] = state[d] /\ asked'[d] = asked[d]
  /\ \A s : <<d, s>> \in off' => <<d, s>> \in off
  /\ fate'[d] = fate[d]
  /\ \A b \in Admins : \/ op'[b] = op[b]
                       \/ ~Replacing(b, d) /\ ~Replacing(b, d)'

LEMMA UnnoticedSound ==
  ASSUME NEW d \in Chans, ChannelSound(d), Unnoticed(d)
  PROVE  ChannelSound(d)'
<1>1. SecretsOf(d)' = SecretsOf(d) /\ DistinctSecrets(d)' = DistinctSecrets(d)
  BY DEF Unnoticed, SecretsOf, DistinctSecrets
<1>2. \A b \in Admins : /\ Replacing(b, d)' = Replacing(b, d) /\ Inserting(b, d)' = Inserting(b, d)
                        /\ Replacing(b, d) => op'[b] = op[b]
                        /\ Inserting(b, d) => Replacing(b, d)
  BY DEF Unnoticed, Replacing, Inserting
<1>3. NothingYet(d)'
  BY DEF ChannelSound, NothingYet, Unnoticed
<1>4. KeysSound(d)'
  <2> SUFFICES ASSUME "overlap" \notin fate'[d]
               PROVE  (Alone(d) /\ SecretsOnce(d) /\ FrontInserted(d) /\ PrefixThere(d))'
    BY DEF KeysSound
  <2>1. Alone(d) /\ SecretsOnce(d) /\ FrontInserted(d) /\ PrefixThere(d)
    BY DEF Unnoticed, ChannelSound, KeysSound
  <2>2. Alone(d)'
    BY <1>2, <2>1 DEF Alone
  <2>3. SecretsOnce(d)'
    BY <1>1, <1>2, <2>1 DEF SecretsOnce, Unnoticed
  <2>4. FrontInserted(d)'
    BY <1>2, <2>1 DEF FrontInserted, Unnoticed
  <2>5. PrefixThere(d)'
    BY <1>2, <2>1 DEF PrefixThere, Unnoticed
  <2> QED
    BY <2>2, <2>3, <2>4, <2>5
<1>5. OffThere(d)'
  <2> SUFFICES ASSUME fate'[d] = {}, NEW s \in Secrets, <<d, s>> \in off'
               PROVE  \/ s \in SecretsOf(d)
                      \/ \E a \in Admins : Inserting(a, d)' /\ \E j \in op'[a].i..Len(op'[a].list) :
                                                                 s = op'[a].list[j]
    BY <1>1 DEF OffThere
  <2>1. \/ s \in SecretsOf(d)
        \/ \E a \in Admins : Inserting(a, d) /\ \E j \in op[a].i..Len(op[a].list) : s = op[a].list[j]
    BY DEF Unnoticed, ChannelSound, OffThere
  <2> QED
    BY <1>2, <2>1
<1>6. OffKnown(d)'
  <2> SUFFICES ASSUME fate'[d] = {}
               PROVE  /\ \A k \in KeysOf(d) : <<d, k.secret>> \in off' => ~k.on
                      /\ \A a \in Admins : Replacing(a, d)' =>
                           /\ op'[a].step = "delete" => \A s \in Secrets : <<d, s>> \in off' => s \in op'[a].off
                           /\ op'[a].step = "insert" => \A j \in op'[a].i..Len(op'[a].list) :
                                <<d, op'[a].list[j]>> \in off' => op'[a].list[j] \in op'[a].off
    BY DEF OffKnown, Unnoticed
  <2>1. /\ \A k \in KeysOf(d) : <<d, k.secret>> \in off => ~k.on
        /\ \A a \in Admins : Replacing(a, d) =>
             /\ op[a].step = "delete" => \A s \in Secrets : <<d, s>> \in off => s \in op[a].off
             /\ op[a].step = "insert" => \A j \in op[a].i..Len(op[a].list) :
                  <<d, op[a].list[j]>> \in off => op[a].list[j] \in op[a].off
    BY DEF Unnoticed, ChannelSound, OffKnown
  <2>2. \A s : <<d, s>> \in off' => <<d, s>> \in off
    BY DEF Unnoticed
  <2> QED
    BY <1>2, <2>1, <2>2
<1> QED
  BY <1>3, <1>4, <1>5, <1>6 DEF ChannelSound

ChannelsSound == \A d \in Chans : ChannelSound(d)

\* A step of an operation that is replacing no keys, before or after it.
LEMMA QuietStep ==
  ASSUME StoreInvariant, NEW a \in Admins, OthersRest(a),
         op[a].step \notin {"delete", "insert"}, op'[a].step \notin {"delete", "insert"},
         UNCHANGED <<state, keys, asked, off, fate>>
  PROVE  ChannelsSound'
<1>1. \A d \in Chans : Unnoticed(d)
  BY DEF Unnoticed, KeysOf, OthersRest, Replacing
<1> QED
  BY <1>1, UnnoticedSound DEF StoreInvariant, ChannelsSound

\* A step of an operation on a channel does not concern the others.
LEMMA OneChannel ==
  ASSUME StoreInvariant, NEW a \in Admins, NEW c \in Chans, OthersRest(a),
         \/ op[a].chan = c \/ op[a].step \notin {"delete", "insert"},
         \/ op'[a].chan = c \/ op'[a].step \notin {"delete", "insert"},
         \A k : k.chan # c => (k \in keys' <=> k \in keys),
         \A d \in Chans \ {c} : state'[d] = state[d] /\ asked'[d] = asked[d] /\ fate'[d] = fate[d],
         off' \subseteq off, ChannelSound(c)'
  PROVE  ChannelsSound'
<1>1. ASSUME NEW d \in Chans \ {c}
      PROVE  Unnoticed(d)
  <2>1. KeysOf(d)' = KeysOf(d)
    BY DEF KeysOf
  <2>2. \A b \in Admins : \/ op'[b] = op[b]
                          \/ ~Replacing(b, d) /\ ~Replacing(b, d)'
    BY DEF OthersRest, Replacing
  <2> QED
    BY <2>1, <2>2 DEF Unnoticed
<1>2. \A d \in Chans \ {c} : ChannelSound(d)'
  BY <1>1, UnnoticedSound DEF StoreInvariant
<1> QED
  BY <1>2 DEF ChannelsSound

LEMMA CreateSound ==
  ASSUME StoreInvariant, NEW a \in Admins, NEW c \in Chans, NEW u \in Updates, Create(a, c, u)
  PROVE  ChannelsSound'
<1>1. /\ op[a].step = "idle" /\ state[c] = "new" /\ state' = [state EXCEPT ![c] = "live"]
      /\ UNCHANGED <<keys, asked, off, fate>>
  BY DEF Create, At
<1>2. op'[a].step = "states" /\ OthersRest(a)
  BY CreateShapes
<1>3. \A d \in Chans : state'[d] = IF d = c THEN "live" ELSE state[d]
  BY <1>1 DEF StoreInvariant, Shapes
<1>5. KeysOf(c) = {} /\ asked[c] = <<>>
  BY <1>1 DEF StoreInvariant, ChannelSound, NothingYet
<1>6. KeysOf(c)' = {} /\ SecretsOf(c)' = {} /\ SecretsOf(c) = {}
  BY <1>1, <1>5 DEF KeysOf, SecretsOf
<1>7. \A b \in Admins : ~Replacing(b, c) /\ ~Replacing(b, c)' /\ ~Inserting(b, c) /\ ~Inserting(b, c)'
  <2>1. \A b \in Admins : op[b].chan = c => op[b].step = "idle"
    BY <1>1 DEF StoreInvariant, OpsSound, OpSound
  <2> QED
    BY <1>2, <2>1 DEF Replacing, Inserting, OthersRest
<1>8. ChannelSound(c)'
  <2>1. NothingYet(c)'
    BY <1>3 DEF NothingYet
  <2>2. PrefixThere(c)'
    <3>1. Len(<<>>) = 0 /\ RowsAre({}, <<>>, 0)
      BY DEF RowsAre
    <3>2. 0 \in 0..Len(asked'[c]) /\ RowsAre(KeysOf(c)', asked'[c], 0) /\ 0 = Len(asked'[c])
      BY <1>1, <1>5, <1>6, <3>1
    <3> QED
      BY <3>2 DEF PrefixThere
  <2>3. KeysSound(c)'
    BY <1>6, <1>7, <2>2 DEF KeysSound, Alone, SecretsOnce, DistinctSecrets, FrontInserted
  <2>4. OffThere(c)'
    BY <1>1, <1>6, <1>7 DEF StoreInvariant, ChannelSound, OffThere
  <2>5. OffKnown(c)'
    BY <1>6, <1>7 DEF OffKnown
  <2> QED
    BY <2>1, <2>3, <2>4, <2>5 DEF ChannelSound
<1> QED
  BY <1>1, <1>2, <1>3, <1>8, OneChannel

LEMMA DeleteRowSound ==
  ASSUME StoreInvariant, NEW a \in Admins, NEW c \in Chans, DeleteRow(a, c)
  PROVE  ChannelsSound'
<1>1. /\ op[a].step = "idle" /\ state' = [state EXCEPT ![c] = "deleted"]
      /\ UNCHANGED <<keys, asked, off, fate>>
  BY DEF DeleteRow, At
<1>2. op'[a].step = "purge" /\ OthersRest(a)
  BY DeleteRowShapes
<1>3. \A d \in Chans : state'[d] = IF d = c THEN "deleted" ELSE state[d]
  BY <1>1 DEF StoreInvariant, Shapes
<1>5. /\ KeysOf(c)' = KeysOf(c) /\ SecretsOf(c)' = SecretsOf(c)
      /\ DistinctSecrets(c)' = DistinctSecrets(c)
  BY <1>1 DEF KeysOf, SecretsOf, DistinctSecrets
<1>6. \A b \in Admins : /\ Replacing(b, c)' = Replacing(b, c) /\ Inserting(b, c)' = Inserting(b, c)
                        /\ Replacing(b, c) => op'[b] = op[b]
                        /\ Inserting(b, c) => Replacing(b, c)
  BY <1>1, <1>2 DEF Replacing, Inserting, OthersRest
<1>7. ChannelSound(c)
  BY DEF StoreInvariant
<1>8. ChannelSound(c)'
  <2>1. NothingYet(c)' /\ PrefixThere(c)'
    BY <1>3 DEF NothingYet, PrefixThere
  <2>2. "overlap" \notin fate[c] => Alone(c)' /\ SecretsOnce(c)' /\ FrontInserted(c)'
    BY <1>1, <1>3, <1>5, <1>6, <1>7 DEF ChannelSound, KeysSound, Alone, SecretsOnce, FrontInserted
  <2>3. KeysSound(c)'
    BY <1>1, <2>1, <2>2 DEF KeysSound
  <2>4. OffThere(c)'
    BY <1>1, <1>5, <1>6, <1>7 DEF ChannelSound, OffThere
  <2>5. OffKnown(c)'
    BY <1>1, <1>5, <1>6, <1>7 DEF ChannelSound, OffKnown
  <2> QED
    BY <2>1, <2>3, <2>4, <2>5 DEF ChannelSound
<1> QED
  BY <1>1, <1>2, <1>3, <1>8, OneChannel

LEMMA PurgeKeysSound ==
  ASSUME StoreInvariant, NEW a \in Admins, PurgeKeys(a)
  PROVE  ChannelsSound'
<1>a. op[a].step = "purge" /\ op[a].chan \in Chans /\ state[op[a].chan] = "deleted"
  BY DEF PurgeKeys, At, StoreInvariant, OpsSound, OpSound
<1> PICK c \in Chans : c = op[a].chan
  BY <1>a
<1>1. /\ op[a].step = "purge" /\ keys' = keys \ KeysOf(c) /\ off' = {x \in off : x[1] # c}
      /\ UNCHANGED <<state, asked, fate>>
  BY DEF PurgeKeys, At
<1>2. op'[a].step = "idle" /\ OthersRest(a)
  BY PurgeKeysShapes
<1>3. c \in Chans /\ state[c] = "deleted"
  BY <1>a
<1>4. KeysOf(c)' = {} /\ SecretsOf(c)' = {} /\ \A s : <<c, s>> \notin off'
  BY <1>1 DEF KeysOf, SecretsOf
<1>5. \A b \in Admins : /\ Replacing(b, c)' = Replacing(b, c) /\ Inserting(b, c)' = Inserting(b, c)
                        /\ Replacing(b, c) => op'[b] = op[b]
                        /\ Inserting(b, c) => Replacing(b, c)
  BY <1>1, <1>2 DEF Replacing, Inserting, OthersRest
<1>6. ChannelSound(c)
  BY <1>3 DEF StoreInvariant
<1>7. \A k : k.chan # c => (k \in keys' <=> k \in keys)
  BY <1>1 DEF KeysOf
<1>8. ChannelSound(c)'
  <2>1. NothingYet(c)' /\ PrefixThere(c)'
    BY <1>1, <1>3 DEF NothingYet, PrefixThere
  <2>2. "overlap" \notin fate[c] => Alone(c)' /\ SecretsOnce(c)'
    BY <1>1, <1>4, <1>5, <1>6 DEF ChannelSound, KeysSound, Alone, SecretsOnce, DistinctSecrets
  <2>3. FrontInserted(c)'
    BY <1>1, <1>3, <1>4 DEF FrontInserted, FrontRows
  <2>4. KeysSound(c)'
    BY <1>1, <2>1, <2>2, <2>3 DEF KeysSound
  <2>5. OffThere(c)' /\ OffKnown(c)'
    BY <1>4 DEF OffThere, OffKnown
  <2> QED
    BY <2>1, <2>4, <2>5 DEF ChannelSound
<1>9. off' \subseteq off
  BY <1>1
<1> QED
  BY <1>1, <1>2, <1>3, <1>7, <1>8, <1>9, OneChannel

LEMMA ReadStatesSound ==
  ASSUME StoreInvariant, NEW a \in Admins, ReadStates(a)
  PROVE  ChannelsSound'
<1>a. op[a].step = "states" /\ op[a].chan \in Chans /\ state[op[a].chan] # "new"
  BY DEF ReadStates, At, StoreInvariant, OpsSound, OpSound
<1> PICK c \in Chans : c = op[a].chan
  BY <1>a
<1>1. UNCHANGED <<state, keys, asked, off>>
  BY DEF ReadStates
<1>2. /\ op'[a].step = "delete" /\ op'[a].chan = c /\ OthersRest(a)
      /\ op'[a].off = {s \in SecretsOf(c) : LastIs(c, s, FALSE)}
      /\ \A d \in Chans \ {c} : fate'[d] = fate[d]
      /\ fate'[c] = IF \E b \in Admins : Replacing(b, c) THEN fate[c] \cup {"overlap"} ELSE fate[c]
  BY ReadStatesShapes
<1>3. /\ KeysOf(c)' = KeysOf(c) /\ SecretsOf(c)' = SecretsOf(c)
      /\ DistinctSecrets(c)' = DistinctSecrets(c)
  BY <1>1 DEF KeysOf, SecretsOf, DistinctSecrets
<1>4. ChannelSound(c)
  BY DEF StoreInvariant
<1>5. ChannelSound(c)'
  <2>1. NothingYet(c)'
    BY <1>a, <1>1 DEF NothingYet
  <2>2. CASE "overlap" \in fate'[c]
    BY <2>1, <2>2 DEF ChannelSound, KeysSound, OffThere, OffKnown
  <2>3. CASE "overlap" \notin fate'[c]
    <3>1. /\ fate'[c] = fate[c]
          /\ \A b \in Admins : ~Replacing(b, c) /\ ~Inserting(b, c)
      BY <1>2, <2>3 DEF Replacing, Inserting
    <3>2. /\ \A b \in Admins : ~Inserting(b, c)' /\ (Replacing(b, c)' => b = a)
      BY <1>2, <3>1 DEF Replacing, Inserting, OthersRest
    <3>3. KeysSound(c)'
      <4>1. PrefixThere(c)'
        BY <1>1, <1>3, <1>4, <2>3, <3>1, <3>2 DEF ChannelSound, KeysSound, PrefixThere
      <4>2. Alone(c)' /\ SecretsOnce(c)' /\ FrontInserted(c)'
        BY <1>3, <1>4, <2>3, <3>1, <3>2
           DEF ChannelSound, KeysSound, Alone, SecretsOnce, FrontInserted
      <4> QED
        BY <4>1, <4>2 DEF KeysSound
    <3>4. fate[c] = {} => \A s \in Secrets : <<c, s>> \in off => s \in SecretsOf(c)
      BY <1>4, <3>1 DEF ChannelSound, OffThere
    <3>5. OffThere(c)'
      BY <1>1, <1>3, <3>1, <3>4 DEF OffThere
    <3>6. OffKnown(c)'
      <4> SUFFICES ASSUME fate[c] = {}
                   PROVE  /\ \A k \in KeysOf(c) : <<c, k.secret>> \in off => ~k.on
                          /\ \A s \in Secrets : <<c, s>> \in off => s \in op'[a].off
        BY <1>1, <1>2, <1>3, <3>1, <3>2 DEF OffKnown
      <4>1. \A k \in KeysOf(c) : <<c, k.secret>> \in off => ~k.on
        BY <1>4, <3>1 DEF ChannelSound, OffKnown
      <4>2. ASSUME NEW s \in Secrets, <<c, s>> \in off
            PROVE  LastIs(c, s, FALSE)
        <5>1. PICK k \in KeysOf(c) : k.secret = s
          BY <3>4, <4>2 DEF SecretsOf
        <5>2. k.on = FALSE
          <6>1. k.on \in BOOLEAN
            BY DEF KeysOf, StoreInvariant, Shapes, KeyRows
          <6>2. ~k.on
            BY <4>1, <4>2, <5>1
          <6> QED
            BY <6>1, <6>2
        <5>3. \A l \in KeysOf(c) : l.secret = s => l = k
          BY <1>4, <5>1 DEF ChannelSound, KeysSound, SecretsOnce, DistinctSecrets
        <5> QED
          BY <5>1, <5>2, <5>3 DEF LastIs
      <4> QED
        BY <1>2, <3>4, <4>1, <4>2
    <3> QED
      BY <2>1, <3>3, <3>5, <3>6 DEF ChannelSound
  <2> QED
    BY <2>2, <2>3
<1> QED
  BY <1>1, <1>2, <1>5, OneChannel

LEMMA NoRows ==
  ASSUME NEW list
  PROVE  FrontRows({}, list, 0) /\ RowsAre({}, list, 0)
BY DEF FrontRows, RowsAre

\* One more row, at the next place of the list.
LEMMA NextRow ==
  ASSUME NEW S \in SUBSET KeyRows, NEW list, NEW n \in Nat \ {0},
         NEW k \in KeyRows, k.sort = n - 1, k.secret = list[n],
         FrontRows(S, list, n - 1)
  PROVE  /\ FrontRows(S \cup {k}, list, n)
         /\ RowsAre(S, list, n - 1) => RowsAre(S \cup {k}, list, n)
<1>1. \A l \in S : l.sort \in Nat /\ l.sort < n - 1 /\ l.sort < n
  BY DEF FrontRows, KeyRows
<1>2. (n - 1) + 1 = n /\ n - 1 < n
  OBVIOUS
<1>3. FrontRows(S \cup {k}, list, n)
  BY <1>1, <1>2 DEF FrontRows
<1>4. ASSUME RowsAre(S, list, n - 1)
      PROVE  \A i \in 0..(n - 1) : \E l \in S \cup {k} : l.sort = i
  <2>1. \A i \in 0..(n - 1) : i = n - 1 \/ i \in 0..((n - 1) - 1)
    OBVIOUS
  <2>2. \A i \in 0..((n - 1) - 1) : \E l \in S : l.sort = i
    BY <1>4 DEF RowsAre
  <2> QED
    BY <2>1, <2>2
<1> QED
  BY <1>3, <1>4 DEF FrontRows, RowsAre

\* A row in the place of one that has the same place and the same key.
LEMMA SwitchedRow ==
  ASSUME NEW S, NEW k \in S, NEW l, l.sort = k.sort, l.secret = k.secret, NEW list, NEW n
  PROVE  /\ FrontRows(S, list, n) => FrontRows((S \ {k}) \cup {l}, list, n)
         /\ RowsAre(S, list, n) => RowsAre((S \ {k}) \cup {l}, list, n)
BY DEF FrontRows, RowsAre

\* The next key of a list without repetitions is not among those before it.
LEMMA NextIsNew ==
  ASSUME NEW S \in SUBSET KeyRows, NEW list \in Seq(Secrets), IsInjective(list),
         NEW n \in 1..Len(list), NEW j \in n..Len(list), FrontRows(S, list, n - 1)
  PROVE  \A k \in S : k.secret # list[j]
<1> SUFFICES ASSUME NEW k \in S
             PROVE  k.secret # list[j]
  OBVIOUS
<1>1. k.sort \in Nat /\ k.sort < n - 1 /\ k.secret = list[k.sort + 1]
  BY DEF FrontRows, KeyRows
<1>2. k.sort + 1 \in DOMAIN list /\ j \in DOMAIN list /\ k.sort + 1 # j
  BY <1>1
<1> QED
  BY <1>1, <1>2 DEF IsInjective

LEMMA DeleteKeysSound ==
  ASSUME StoreInvariant, NEW a \in Admins, DeleteKeys(a)
  PROVE  ChannelsSound'
<1>a. op[a].step = "delete" /\ op[a].chan \in Chans /\ state[op[a].chan] # "new"
  BY DEF DeleteKeys, At, StoreInvariant, OpsSound, OpSound
<1> PICK c \in Chans : c = op[a].chan
  BY <1>a
<1> PICK list \in Seq(Secrets) : list = op[a].list
  BY DeleteKeysShapes
<1>1. /\ keys' = keys \ KeysOf(c) /\ asked' = [asked EXCEPT ![c] = list]
      /\ off' = IF Named(op[a]) THEN {x \in off : x[1] = c => Contains(list, x[2])} ELSE off
      /\ UNCHANGED state
  BY DEF DeleteKeys
<1>2. /\ OthersRest(a)
      /\ \A d \in Chans \ {c} : fate'[d] = fate[d]
      /\ fate'[c] = fate[c] \cup NewFates(op[a])
      /\ \/ list = <<>> /\ op'[a].step = "idle"
         \/ /\ list # <<>> /\ op'[a].step = "insert" /\ op'[a].i = 1
            /\ op'[a].chan = c /\ op'[a].list = list /\ op'[a].off = op[a].off
  BY DeleteKeysShapes
<1>3. /\ KeysOf(c)' = {} /\ SecretsOf(c)' = {} /\ DistinctSecrets(c)'
      /\ \A k : k.chan # c => (k \in keys' <=> k \in keys)
  BY <1>1 DEF KeysOf, SecretsOf, DistinctSecrets
<1>4. asked'[c] = list /\ \A d \in Chans \ {c} : asked'[d] = asked[d]
  BY <1>1 DEF StoreInvariant, Shapes
<1>5. ChannelSound(c)
  BY DEF StoreInvariant
<1>6. /\ fate[c] \subseteq fate'[c]
      /\ "doubled" \notin fate'[c] => IsInjective(list)
      /\ fate'[c] = {} => Named(op[a]) \/ SecretsOf(c) \subseteq ToSet(list)
  BY <1>2 DEF NewFates
<1>7. Len(list) \in Nat /\ \A s : Contains(list, s) \/ s \in ToSet(list) => \E j \in 1..Len(list) : list[j] = s
  BY DEF Contains, ToSet
<1>8. ChannelSound(c)'
  <2>1. NothingYet(c)'
    BY <1>a, <1>1 DEF NothingYet
  <2>2. CASE "overlap" \in fate'[c]
    BY <2>1, <2>2 DEF ChannelSound, KeysSound, OffThere, OffKnown
  <2>3. CASE "overlap" \notin fate'[c]
    <3>1. \A b \in Admins : Replacing(b, c) => b = a
      BY <1>a, <1>5, <1>6, <2>3 DEF ChannelSound, KeysSound, Alone, Replacing
    <3>2. \A b \in Admins : Replacing(b, c)' => b = a
      BY <1>2, <3>1 DEF OthersRest, Replacing
    <3>3. \A b \in Admins : Inserting(b, c)' => b = a /\ list # <<>>
      BY <1>2, <3>2 DEF Inserting, Replacing
    <3>4. Alone(c)'
      BY <3>2 DEF Alone
    <3>5. SecretsOnce(c)'
      BY <1>2, <1>3, <1>6, <3>3 DEF SecretsOnce
    <3>6. FrontInserted(c)'
      BY <1>2, <1>3, <1>4, <3>3, NoRows DEF FrontInserted
    <3>7. PrefixThere(c)'
      <4>1. 0 \in 0..Len(list) /\ RowsAre(KeysOf(c)', list, 0)
        BY <1>3, <1>7, NoRows
      <4>2. (\A b \in Admins : ~Inserting(b, c)') => 0 = Len(list)
        BY <1>2 DEF Inserting
      <4> QED
        BY <1>4, <4>1, <4>2 DEF PrefixThere
    <3>8. KeysSound(c)'
      BY <3>4, <3>5, <3>6, <3>7 DEF KeysSound
    <3>9. ASSUME fate'[c] = {}, NEW s \in Secrets, <<c, s>> \in off'
          PROVE  <<c, s>> \in off /\ \E j \in 1..Len(list) : list[j] = s
      <4>1. CASE Named(op[a])
        BY <1>1, <1>7, <3>9, <4>1
      <4>2. CASE ~Named(op[a])
        <5>1. <<c, s>> \in off /\ SecretsOf(c) \subseteq ToSet(list) /\ fate[c] = {}
          BY <1>1, <1>6, <3>9, <4>2
        <5>2. s \in SecretsOf(c)
          BY <1>a, <1>5, <3>1, <5>1 DEF ChannelSound, OffThere, Inserting, Replacing
        <5> QED
          BY <1>7, <5>1, <5>2
      <4> QED
        BY <4>1, <4>2
    <3>10. OffThere(c)'
      <4> SUFFICES ASSUME fate'[c] = {}, NEW s \in Secrets, <<c, s>> \in off'
                   PROVE  Inserting(a, c)' /\ \E j \in op'[a].i..Len(op'[a].list) : s = op'[a].list[j]
        BY DEF OffThere
      <4>1. PICK j \in 1..Len(list) : list[j] = s
        BY <3>9
      <4>2. list # <<>>
        BY <4>1
      <4> QED
        BY <1>2, <4>1, <4>2 DEF Inserting
    <3>11. OffKnown(c)'
      <4> SUFFICES ASSUME fate'[c] = {}
                   PROVE  op'[a].step = "insert" => \A j \in 1..Len(list) :
                            <<c, list[j]>> \in off' => list[j] \in op[a].off
        BY <1>2, <1>3, <3>2 DEF OffKnown
      <4>1. \A s \in Secrets : <<c, s>> \in off => s \in op[a].off
        BY <1>a, <1>5, <1>6 DEF ChannelSound, OffKnown, Replacing
      <4>2. \A j \in 1..Len(list) : list[j] \in Secrets
        OBVIOUS
      <4> QED
        BY <3>9, <4>1, <4>2
    <3> QED
      BY <2>1, <3>8, <3>10, <3>11 DEF ChannelSound
  <2> QED
    BY <2>2, <2>3
<1>9. off' \subseteq off /\ (op'[a].chan = c \/ op'[a].step \notin {"delete", "insert"})
  BY <1>1, <1>2
<1> QED
  BY <1>1, <1>2, <1>3, <1>4, <1>8, <1>9, OneChannel

LEMMA InsertKeySound ==
  ASSUME StoreInvariant, NEW a \in Admins, InsertKey(a)
  PROVE  ChannelsSound'
<1>a. op[a].step = "insert" /\ op[a].chan \in Chans /\ state[op[a].chan] # "new"
  BY DEF InsertKey, At, StoreInvariant, OpsSound, OpSound
<1> PICK c \in Chans : c = op[a].chan
  BY <1>a
<1> PICK list \in Seq(Secrets) : list = op[a].list
  BY InsertKeyShapes
<1> PICK n \in 1..Len(list) : n = op[a].i
  BY InsertKeyShapes
<1> PICK k \in KeyRows : k = NewKey(op[a])
  BY InsertKeyShapes
<1>1. keys' = keys \cup {k} /\ UNCHANGED <<state, asked, off, fate>>
  BY DEF InsertKey
<1>2. /\ OthersRest(a)
      /\ \/ n = Len(list) /\ op'[a].step = "idle"
         \/ /\ n # Len(list) /\ op'[a].step = "insert" /\ op'[a].i = n + 1
            /\ op'[a].chan = c /\ op'[a].list = list /\ op'[a].off = op[a].off
  BY InsertKeyShapes
<1>3. k.chan = c /\ k.secret = list[n] /\ k.sort = n - 1 /\ (k.on <=> list[n] \notin op[a].off)
  BY DEF NewKey
<1>4. KeysOf(c)' = KeysOf(c) \cup {k} /\ SecretsOf(c)' = SecretsOf(c) \cup {list[n]}
  BY <1>1, <1>3 DEF KeysOf, SecretsOf
<1>5. ChannelSound(c)
  BY DEF StoreInvariant
<1>6. Len(list) \in Nat /\ n \in Nat \ {0} /\ KeysOf(c) \in SUBSET KeyRows
  BY DEF StoreInvariant, Shapes, KeysOf
<1>8. ChannelSound(c)'
  <2>1. NothingYet(c)'
    BY <1>a, <1>1 DEF NothingYet
  <2>2. CASE "overlap" \in fate'[c]
    BY <2>1, <2>2 DEF ChannelSound, KeysSound, OffThere, OffKnown
  <2>3. CASE "overlap" \notin fate'[c]
    <3>1. \A b \in Admins : Replacing(b, c) => b = a
      BY <1>a, <1>1, <1>5, <2>3 DEF ChannelSound, KeysSound, Alone, Replacing
    <3>2. \A b \in Admins : Replacing(b, c)' => b = a
      BY <1>2, <3>1 DEF OthersRest, Replacing
    <3>3. \A b \in Admins : Inserting(b, c)' => b = a /\ n # Len(list)
      BY <1>2, <3>2 DEF Inserting, Replacing
    <3>4. /\ FrontRows(KeysOf(c), list, n - 1)
          /\ state[c] = "live" => asked[c] = list /\ RowsAre(KeysOf(c), list, n - 1)
      BY <1>a, <1>1, <1>5, <2>3 DEF ChannelSound, KeysSound, FrontInserted, Inserting
    <3>5. /\ FrontRows(KeysOf(c)', list, n)
          /\ state[c] = "live" => RowsAre(KeysOf(c)', list, n)
      <4> PICK S \in SUBSET KeyRows : S = KeysOf(c)
        BY <1>6
      <4>1. FrontRows(S, list, n - 1)
        BY <3>4
      <4>2. /\ FrontRows(S \cup {k}, list, n)
            /\ RowsAre(S, list, n - 1) => RowsAre(S \cup {k}, list, n)
        BY <1>3, <1>6, <4>1, NextRow
      <4> QED
        BY <1>4, <3>4, <4>2
    <3>6. ASSUME "doubled" \notin fate[c]
          PROVE  DistinctSecrets(c)' /\ IsInjective(list)
      <4>1. DistinctSecrets(c) /\ IsInjective(list)
        BY <1>a, <1>1, <1>5, <2>3, <3>6 DEF ChannelSound, KeysSound, SecretsOnce, Inserting
      <4>2. n \in n..Len(list)
        BY <1>6
      <4>3. \A l \in KeysOf(c) : l.secret # list[n]
        BY <1>6, <3>4, <4>1, <4>2, NextIsNew
      <4> QED
        BY <1>3, <1>4, <4>1, <4>3 DEF DistinctSecrets
    <3>7. SecretsOnce(c)'
      BY <1>1, <1>2, <3>3, <3>6 DEF SecretsOnce
    <3>8. Alone(c)'
      BY <3>2 DEF Alone
    <3>9. FrontInserted(c)'
      <4>1. (n + 1) - 1 = n
        BY <1>6
      <4> QED
        BY <1>1, <1>2, <3>3, <3>4, <3>5, <4>1 DEF FrontInserted
    <3>10. PrefixThere(c)'
      <4> SUFFICES ASSUME state[c] = "live"
                   PROVE  /\ n \in 0..Len(asked[c]) /\ RowsAre(KeysOf(c)', asked[c], n)
                          /\ (\A b \in Admins : ~Inserting(b, c)') => n = Len(asked[c])
        BY <1>1 DEF PrefixThere
      <4>1. asked[c] = list
        BY <3>4
      <4>2. op'[a].step = "insert" => Inserting(a, c)'
        BY <1>2 DEF Inserting
      <4> QED
        BY <1>2, <3>5, <4>1, <4>2
    <3>11. KeysSound(c)'
      BY <3>7, <3>8, <3>9, <3>10 DEF KeysSound
    <3>12. OffThere(c)'
      <4> SUFFICES ASSUME fate[c] = {}, NEW s \in Secrets, <<c, s>> \in off, s \notin SecretsOf(c)'
                   PROVE  Inserting(a, c)' /\ \E j \in op'[a].i..Len(op'[a].list) : s = op'[a].list[j]
        BY <1>1 DEF OffThere
      <4>1. PICK j \in n..Len(list) : s = list[j]
        BY <1>4, <1>5, <3>1 DEF ChannelSound, OffThere, Inserting, Replacing
      <4>2. j # n /\ n # Len(list) /\ j \in (n + 1)..Len(list)
        BY <1>4, <4>1
      <4> QED
        BY <1>2, <4>1, <4>2 DEF Inserting
    <3>13. OffKnown(c)'
      <4> SUFFICES ASSUME fate[c] = {}
                   PROVE  /\ \A l \in KeysOf(c) \cup {k} : <<c, l.secret>> \in off => ~l.on
                          /\ n # Len(list) => \A j \in (n + 1)..Len(list) :
                               <<c, list[j]>> \in off => list[j] \in op[a].off
        BY <1>1, <1>2, <1>4, <3>2 DEF OffKnown, Replacing
      <4>1. /\ \A l \in KeysOf(c) : <<c, l.secret>> \in off => ~l.on
            /\ \A j \in n..Len(list) : <<c, list[j]>> \in off => list[j] \in op[a].off
        BY <1>a, <1>5 DEF ChannelSound, OffKnown, Replacing
      <4>2. n \in n..Len(list) /\ \A j \in (n + 1)..Len(list) : j \in n..Len(list)
        OBVIOUS
      <4> QED
        BY <1>3, <4>1, <4>2
    <3> QED
      BY <2>1, <3>11, <3>12, <3>13 DEF ChannelSound
  <2> QED
    BY <2>2, <2>3
<1>9. /\ \A l : l.chan # c => (l \in keys' <=> l \in keys)
      /\ op'[a].chan = c \/ op'[a].step \notin {"delete", "insert"}
      /\ off' \subseteq off
  BY <1>1, <1>2, <1>3
<1> QED
  BY <1>1, <1>2, <1>8, <1>9, OneChannel

\* An operation that ends early leaves the rows as they are, and the switches
\* that its channel may lose are those of a torn one.
LEMMA EndEarlySound ==
  ASSUME StoreInvariant, NEW a \in Admins, EndEarly(a)
  PROVE  ChannelsSound'
<1>a. op[a].chan \in Chans
  BY EndEarlyShapes
<1> PICK c \in Chans : c = op[a].chan
  BY <1>a
<1>1. UNCHANGED <<state, keys, asked, off>>
  BY DEF EndEarly
<1>2. /\ op'[a].step = "idle" /\ OthersRest(a)
      /\ \A d \in Chans \ {c} : fate'[d] = fate[d]
      /\ fate'[c] = IF op[a].step = "insert" THEN fate[c] \cup {"torn"} ELSE fate[c]
  BY EndEarlyShapes
<1>3. /\ KeysOf(c)' = KeysOf(c) /\ SecretsOf(c)' = SecretsOf(c)
      /\ DistinctSecrets(c)' = DistinctSecrets(c)
  BY <1>1 DEF KeysOf, SecretsOf, DistinctSecrets
<1>4. \A b \in Admins : /\ Replacing(b, c)' => Replacing(b, c) /\ op'[b] = op[b]
                        /\ Inserting(b, c)' => Inserting(b, c) /\ op'[b] = op[b]
  BY <1>2 DEF Replacing, Inserting, OthersRest
<1>5. ChannelSound(c)
  BY DEF StoreInvariant
<1>6. "torn" \notin fate'[c] =>
        fate'[c] = fate[c] /\ \A b \in Admins : Inserting(b, c) => Inserting(b, c)' /\ op'[b] = op[b]
  BY <1>2 DEF Inserting, OthersRest
<1>7. ChannelSound(c)'
  <2>1. NothingYet(c)'
    BY <1>1, <1>3, <1>5 DEF ChannelSound, NothingYet
  <2>2. "overlap" \notin fate'[c] => "overlap" \notin fate[c]
    BY <1>2
  <2>3. "doubled" \notin fate'[c] => "doubled" \notin fate[c]
    BY <1>2
  <2>4. "overlap" \notin fate[c] => Alone(c)' /\ SecretsOnce(c)' /\ FrontInserted(c)'
    BY <1>1, <1>3, <1>4, <1>5, <2>3
       DEF ChannelSound, KeysSound, Alone, SecretsOnce, FrontInserted
  <2>5. "overlap" \notin fate[c] => PrefixThere(c)'
    BY <1>1, <1>3, <1>5, <1>6 DEF ChannelSound, KeysSound, PrefixThere
  <2>6. KeysSound(c)'
    BY <2>2, <2>4, <2>5 DEF KeysSound
  <2>7. OffThere(c)'
    BY <1>1, <1>3, <1>5, <1>6 DEF ChannelSound, OffThere
  <2>8. OffKnown(c)'
    BY <1>1, <1>3, <1>4, <1>5, <1>6 DEF ChannelSound, OffKnown
  <2> QED
    BY <2>1, <2>6, <2>7, <2>8 DEF ChannelSound
<1> QED
  BY <1>1, <1>2, <1>7, OneChannel

LEMMA SwitchKeySound ==
  ASSUME StoreInvariant, NEW k \in keys, NEW on \in BOOLEAN, SwitchKey(k, on)
  PROVE  ChannelsSound'
<1>1. k \in KeyRows /\ k.chan \in Chans /\ k.secret \in Secrets
  BY DEF StoreInvariant, Shapes, KeyRows
<1> PICK c \in Chans : c = k.chan
  BY <1>1
<1> PICK s \in Secrets : s = k.secret
  BY <1>1
<1>2. PICK l : /\ l \in KeyRows /\ keys' = (keys \ {k}) \cup {l}
               /\ l.id = k.id /\ l.chan = c /\ l.secret = s /\ l.sort = k.sort /\ l.on = on
  BY SwitchKeyShapes
<1>3. /\ off' = IF on THEN off \ {<<c, s>>} ELSE off \cup {<<c, s>>}
      /\ UNCHANGED <<state, op, asked>>
  BY DEF SwitchKey
<1>4. /\ \A d \in Chans \ {c} : fate'[d] = fate[d]
      /\ fate'[c] = IF \E a \in Admins : op[a].chan = c /\ op[a].step = "delete"
                    THEN fate[c] \cup {"raced"} ELSE fate[c]
  BY SwitchKeyFate DEF At
<1>5. ASSUME NEW d \in Chans \ {c}
      PROVE  ChannelSound(d)'
  <2>1. KeysOf(d)' = KeysOf(d)
    BY <1>2 DEF KeysOf
  <2>2. Unnoticed(d)
    BY <1>3, <1>4, <2>1 DEF Unnoticed
  <2> QED
    BY <2>2, UnnoticedSound DEF StoreInvariant
<1>6. ChannelSound(c)
  BY DEF StoreInvariant
<1>7. k \in KeysOf(c) /\ KeysOf(c)' = (KeysOf(c) \ {k}) \cup {l}
  BY <1>2 DEF KeysOf
<1>8. SecretsOf(c)' = SecretsOf(c) /\ s \in SecretsOf(c)
  BY <1>2, <1>7 DEF SecretsOf
<1>9. \A b \in Admins : /\ Replacing(b, c)' = Replacing(b, c) /\ Inserting(b, c)' = Inserting(b, c)
                        /\ op'[b] = op[b]
  BY <1>3 DEF Replacing, Inserting
<1>10. /\ <<c, s>> \in off' => ~on
       /\ \A t \in Secrets \ {s} : <<c, t>> \in off' => <<c, t>> \in off
  BY <1>3
<1>11. ChannelSound(c)'
  <2>1. NothingYet(c)'
    BY <1>3, <1>6, <1>7 DEF ChannelSound, NothingYet
  <2>2. CASE "overlap" \in fate'[c]
    BY <2>1, <2>2 DEF ChannelSound, KeysSound, OffThere, OffKnown
  <2>3. CASE "overlap" \notin fate'[c]
    <3>1. Alone(c) /\ SecretsOnce(c) /\ FrontInserted(c) /\ PrefixThere(c)
      BY <1>4, <1>6, <2>3 DEF ChannelSound, KeysSound
    <3>a. /\ "doubled" \notin fate'[c] => "doubled" \notin fate[c]
          /\ "torn" \notin fate'[c] => "torn" \notin fate[c]
          /\ fate'[c] = {} => fate[c] = {} /\ "doubled" \notin fate[c]
      BY <1>4
    <3>2. "doubled" \notin fate[c] => \A m \in KeysOf(c) \ {k} : m.secret # s
      BY <1>7, <3>1 DEF SecretsOnce, DistinctSecrets
    <3>3. SecretsOnce(c)'
      <4>1. "doubled" \notin fate[c] => DistinctSecrets(c)'
        BY <1>2, <1>7, <3>1, <3>2 DEF SecretsOnce, DistinctSecrets
      <4> QED
        BY <1>9, <3>1, <3>a, <4>1 DEF SecretsOnce
    <3>4. \A list, n : /\ FrontRows(KeysOf(c), list, n) => FrontRows(KeysOf(c)', list, n)
                       /\ RowsAre(KeysOf(c), list, n) => RowsAre(KeysOf(c)', list, n)
      <4> TAKE list, n
      <4>1. /\ FrontRows(KeysOf(c), list, n) => FrontRows((KeysOf(c) \ {k}) \cup {l}, list, n)
            /\ RowsAre(KeysOf(c), list, n) => RowsAre((KeysOf(c) \ {k}) \cup {l}, list, n)
        BY <1>2, <1>7, SwitchedRow
      <4> QED
        BY <1>7, <4>1
    <3>5. Alone(c)' /\ FrontInserted(c)' /\ PrefixThere(c)'
      <4>1. Alone(c)' /\ FrontInserted(c)'
        BY <1>3, <1>9, <3>1, <3>4 DEF Alone, FrontInserted
      <4>2. PrefixThere(c)'
        BY <1>3, <1>9, <3>1, <3>4, <3>a DEF PrefixThere
      <4> QED
        BY <4>1, <4>2
    <3>6. KeysSound(c)'
      BY <3>3, <3>5 DEF KeysSound
    <3>7. OffThere(c)'
      <4> SUFFICES ASSUME fate'[c] = {}, NEW t \in Secrets, <<c, t>> \in off', t \notin SecretsOf(c)
                   PROVE  \E a \in Admins : Inserting(a, c) /\ \E j \in op[a].i..Len(op[a].list) :
                                                                  t = op[a].list[j]
        BY <1>8, <1>9 DEF OffThere
      <4>1. <<c, t>> \in off
        BY <1>8, <1>10
      <4> QED
        BY <1>6, <3>a, <4>1 DEF ChannelSound, OffThere
    <3>8. OffKnown(c)'
      <4> SUFFICES ASSUME fate'[c] = {}
                   PROVE  /\ \A m \in KeysOf(c)' : <<c, m.secret>> \in off' => ~m.on
                          /\ \A a \in Admins : Replacing(a, c) =>
                               /\ op[a].step # "delete"
                               /\ op[a].step = "insert" => \A j \in op[a].i..Len(op[a].list) :
                                    <<c, op[a].list[j]>> \in off' => op[a].list[j] \in op[a].off
        BY <1>9 DEF OffKnown
      <4>1. fate[c] = {} /\ \A a \in Admins : Replacing(a, c) => op[a].step # "delete"
        BY <1>4, <3>a DEF Replacing
      <4>2. /\ \A m \in KeysOf(c) : <<c, m.secret>> \in off => ~m.on
            /\ \A a \in Admins : Replacing(a, c) /\ op[a].step = "insert" =>
                 \A j \in op[a].i..Len(op[a].list) :
                   <<c, op[a].list[j]>> \in off => op[a].list[j] \in op[a].off
        BY <1>6, <4>1 DEF ChannelSound, OffKnown
      <4>3. \A m \in KeysOf(c) : m.secret \in Secrets
        BY DEF KeysOf, StoreInvariant, Shapes, KeyRows
      <4>4. \A m \in KeysOf(c)' : <<c, m.secret>> \in off' => ~m.on
        BY <1>2, <1>7, <1>10, <3>2, <3>a, <4>2, <4>3
      <4>5. ASSUME NEW a \in Admins, Inserting(a, c), NEW j \in op[a].i..Len(op[a].list)
            PROVE  op[a].list[j] \in Secrets \ {s}
        <5>1. /\ op[a].list \in Seq(Secrets) /\ IsInjective(op[a].list)
              /\ op[a].i \in 1..Len(op[a].list) /\ KeysOf(c) \in SUBSET KeyRows
          BY <3>1, <3>a, <4>5
             DEF StoreInvariant, Shapes, KeysOf, OpsSound, OpSound, Inserting, SecretsOnce
        <5> PICK q \in Seq(Secrets) : q = op[a].list
          BY <5>1
        <5> PICK n \in 1..Len(q) : n = op[a].i
          BY <5>1
        <5>2. j \in n..Len(q) /\ q[j] \in Secrets
          BY <5>1
        <5>3. FrontRows(KeysOf(c), q, n - 1)
          BY <3>1, <4>5 DEF FrontInserted
        <5>4. \A m \in KeysOf(c) : m.secret # q[j]
          BY <5>1, <5>2, <5>3, NextIsNew
        <5> QED
          BY <1>7, <5>2, <5>4
      <4> QED
        BY <1>10, <4>1, <4>2, <4>4, <4>5 DEF Inserting, Replacing
    <3> QED
      BY <2>1, <3>6, <3>7, <3>8 DEF ChannelSound
  <2> QED
    BY <2>2, <2>3
<1> QED
  BY <1>5, <1>11 DEF ChannelsSound

-----------------------------------------------------------------------------
(* The invariant *)

LEMMA IdsUnique ==
  ASSUME StoreInvariant, [Next]_vars
  PROVE  \A k, l \in keys' : k.id = l.id => k = l
<1>1. CASE keys' \subseteq keys
  BY <1>1 DEF StoreInvariant
<1>2. ASSUME NEW a \in Admins, InsertKey(a)
      PROVE  \A k, l \in keys' : k.id = l.id => k = l
  <2>1. NewKey(op[a]).id = nextId
    BY DEF NewKey, NextKeyId
  <2>2. \A k \in keys : k.id # nextId
    BY DEF StoreInvariant, IdInvariant, Numbered
  <2>3. keys' = keys \cup {NewKey(op[a])}
    BY <1>2 DEF InsertKey
  <2> QED
    BY <2>1, <2>2, <2>3 DEF StoreInvariant
<1>3. ASSUME NEW k \in keys, NEW on \in BOOLEAN, SwitchKey(k, on)
      PROVE  \A m, l \in keys' : m.id = l.id => m = l
  BY <1>3, SwitchKeyShapes DEF StoreInvariant
<1>4. ASSUME NEW a \in Admins, Console(a), ~InsertKey(a)
      PROVE  keys' \subseteq keys
  BY <1>4 DEF Console, GetRow, Create, DeleteRow, GetKeys, WriteRow, ReadStates, DeleteKeys,
              PurgeKeys, EndEarly
<1>5. ASSUME NEW p \in Readers, ListRows(p) \/ LoadKeys(p) \/ Answer(p)
      PROVE  keys' \subseteq keys
  BY <1>5 DEF ListRows, LoadKeys, Answer
<1>6. UNCHANGED vars => keys' \subseteq keys
  BY DEF vars
<1> QED
  BY <1>1, <1>2, <1>3, <1>4, <1>5, <1>6 DEF Next

LEMMA ConsoleSound ==
  ASSUME StoreInvariant, NEW a \in Admins, Console(a)
  PROVE  Shapes' /\ OpsSound' /\ ChannelsSound'
<1>1. ASSUME NEW c \in Chans, NEW kind, NEW arg, GetRow(a, c, kind, arg),
             \/ kind = "update" /\ arg \in Updates
             \/ kind \in {"disable", "enable"} /\ arg \in Models
      PROVE  Shapes' /\ OpsSound' /\ ChannelsSound'
  <2>1. Shapes' /\ OpsSound' /\ op'[a].step = "row" /\ OthersRest(a)
    BY <1>1, GetRowShapes
  <2>2. op[a].step = "idle" /\ UNCHANGED <<state, keys, asked, off, fate>>
    BY <1>1 DEF GetRow, At
  <2> QED
    BY <2>1, <2>2, QuietStep
<1>2. CASE GetKeys(a)
  <2>1. Shapes' /\ OpsSound' /\ op'[a].step = "write" /\ OthersRest(a)
    BY <1>2, GetKeysShapes
  <2>2. op[a].step = "row" /\ UNCHANGED <<state, keys, asked, off, fate>>
    BY <1>2 DEF GetKeys, At
  <2> QED
    BY <2>1, <2>2, QuietStep
<1>3. CASE WriteRow(a)
  <2>1. Shapes' /\ OpsSound' /\ op'[a].step \in {"idle", "states"} /\ OthersRest(a)
    BY <1>3, WriteRowShapes
  <2>2. op[a].step = "write" /\ UNCHANGED <<state, keys, asked, off, fate>>
    BY <1>3 DEF WriteRow, At
  <2> QED
    BY <2>1, <2>2, QuietStep
<1>4. ASSUME NEW c \in Chans, NEW u \in Updates, Create(a, c, u)
      PROVE  Shapes' /\ OpsSound' /\ ChannelsSound'
  BY <1>4, CreateShapes, CreateSound
<1>5. ASSUME NEW c \in Chans, DeleteRow(a, c)
      PROVE  Shapes' /\ OpsSound' /\ ChannelsSound'
  BY <1>5, DeleteRowShapes, DeleteRowSound
<1>6. CASE ReadStates(a)
  BY <1>6, ReadStatesShapes, ReadStatesSound
<1>7. CASE DeleteKeys(a)
  BY <1>7, DeleteKeysShapes, DeleteKeysSound
<1>8. CASE InsertKey(a)
  BY <1>8, InsertKeyShapes, InsertKeySound
<1>9. CASE PurgeKeys(a)
  BY <1>9, PurgeKeysShapes, PurgeKeysSound
<1>10. CASE EndEarly(a)
  BY <1>10, EndEarlyShapes, EndEarlySound
<1> QED
  BY <1>1, <1>2, <1>3, <1>4, <1>5, <1>6, <1>7, <1>8, <1>9, <1>10 DEF Console

\* Steps of requests, and stuttering, concern no channel.
LEMMA StillSound ==
  ASSUME StoreInvariant, UNCHANGED <<state, keys, op, asked, off, fate>>
  PROVE  ChannelsSound'
<1>1. \A d \in Chans : Unnoticed(d)
  BY DEF Unnoticed, KeysOf
<1> QED
  BY <1>1, UnnoticedSound DEF StoreInvariant, ChannelsSound

LEMMA StoreStep == StoreInvariant /\ [Next]_vars => StoreInvariant'
<1> SUFFICES ASSUME StoreInvariant, [Next]_vars
             PROVE  StoreInvariant'
  OBVIOUS
<1>1. IdInvariant' /\ \A k, l \in keys' : k.id = l.id => k = l
  BY IdStep, IdsUnique DEF StoreInvariant
<1>2. Shapes' /\ OpsSound' /\ ChannelsSound'
  <2>1. ASSUME NEW a \in Admins, Console(a)
        PROVE  Shapes' /\ OpsSound' /\ ChannelsSound'
    BY <2>1, ConsoleSound
  <2>2. ASSUME NEW k \in keys, NEW on \in BOOLEAN, SwitchKey(k, on)
        PROVE  Shapes' /\ OpsSound' /\ ChannelsSound'
    BY <2>2, SwitchKeyShapes, SwitchKeySound
  <2>3. ASSUME NEW p \in Readers, ListRows(p) \/ LoadKeys(p) \/ Answer(p)
        PROVE  Shapes' /\ OpsSound' /\ ChannelsSound'
    BY <2>3, ReaderShapes, StillSound
  <2>4. CASE UNCHANGED vars
    BY <2>4, OpsStill, StillSound DEF vars, StoreInvariant, Shapes
  <2> QED
    BY <2>1, <2>2, <2>3, <2>4 DEF Next
<1> QED
  BY <1>1, <1>2 DEF StoreInvariant, ChannelsSound

LEMMA StoreInit == Init => StoreInvariant
<1> SUFFICES ASSUME Init
             PROVE  StoreInvariant
  OBVIOUS
<1>1. IsFiniteSet(Live0) /\ Cardinality(Live0) \in Nat
  BY ChannelStoreAssumption, FS_Subset, FS_CardinalityType
<1>2. PICK s \in Secrets, id \in [Live0 -> 1..Cardinality(Live0)] :
        /\ \A c, d \in Live0 : id[c] = id[d] => c = d
        /\ keys = {[id |-> id[c], chan |-> c, secret |-> s, sort |-> 0, on |-> TRUE] : c \in Live0}
        /\ asked = [c \in Chans |-> IF c \in Live0 THEN <<s>> ELSE <<>>]
  BY DEF Init
<1> DEFINE key(c) == [id |-> id[c], chan |-> c, secret |-> s, sort |-> 0, on |-> TRUE]
<1>3. \A c \in Live0 : c \in Chans /\ key(c) \in KeyRows /\ key(c).chan = c /\ key(c).secret = s
                       /\ key(c).id = id[c] /\ key(c).sort = 0
  BY <1>1, <1>2, ChannelStoreAssumption DEF KeyRows
<1>4. keys = {key(c) : c \in Live0}
  BY <1>2
<1> HIDE DEF key
<1>5. keys \in SUBSET KeyRows /\ IsFiniteSet(keys)
  <2> DEFINE made == [c \in Live0 |-> key(c)]
  <2>1. made \in [Live0 -> keys] /\ \A k \in keys : \E c \in Live0 : made[c] = k
    BY <1>4
  <2> HIDE DEF made
  <2>2. made \in Surjection(Live0, keys)
    BY <2>1 DEF Surjection
  <2>3. IsFiniteSet(keys)
    BY <1>1, <2>2, FS_Surjection
  <2> QED
    BY <1>3, <1>4, <2>3
<1>6. \A k, l \in keys : k.id = l.id => k = l
  BY <1>2, <1>3, <1>4
<1>7. /\ state = [c \in Chans |-> IF c \in Live0 THEN "live" ELSE "new"]
      /\ row = [c \in Chans |-> IF c \in Live0 THEN [models |-> Models, disabled |-> {}] ELSE NoRow]
      /\ op = [a \in Admins |-> NoOp] /\ read = [p \in Readers |-> NoRead]
      /\ count = [ops |-> 0, switches |-> 0, reads |-> 0, failures |-> 0]
      /\ off = {} /\ fate = [c \in Chans |-> {}]
  BY DEF Init
<1>8. Shapes
  <2>1. row \in [Chans -> Rows]
    BY <1>7 DEF NoRow, Rows
  <2>2. read \in [Readers -> Reads]
    <3>1. NoRead \in Reads
      BY DEF NoRead, Reads
    <3> QED
      BY <1>7, <3>1
  <2>3. op \in [Admins -> Ops]
    BY <1>7, NoOpShape
  <2>4. asked \in [Chans -> Seq(Secrets)]
    <3>1. <<s>> \in Seq(Secrets) /\ <<>> \in Seq(Secrets)
      OBVIOUS
    <3> QED
      BY <1>2, <3>1
  <2>5. count \in Counts
    BY <1>7 DEF Counts
  <2>6. state \in [Chans -> {"new", "live", "deleted"}]
    BY <1>7
  <2> QED
    BY <1>5, <1>7, <2>1, <2>2, <2>3, <2>4, <2>5, <2>6 DEF Shapes
<1>9. \A a \in Admins : op[a].step = "idle"
  BY <1>7, NoOpShape
<1>10. OpsSound
  BY <1>9 DEF OpsSound, OpSound
<1>11. ASSUME NEW c \in Chans
       PROVE  ChannelSound(c)
  <2>1. \A b \in Admins : ~Replacing(b, c) /\ ~Inserting(b, c)
    BY <1>9 DEF Replacing, Inserting
  <2>2. KeysOf(c) = IF c \in Live0 THEN {key(c)} ELSE {}
    BY <1>3, <1>4 DEF KeysOf
  <2>3. NothingYet(c)
    BY <1>2, <1>7, <2>2 DEF NothingYet
  <2>4. DistinctSecrets(c)
    BY <2>2 DEF DistinctSecrets
  <2>5. PrefixThere(c)
    <3> SUFFICES ASSUME c \in Live0
                 PROVE  1 \in 0..Len(asked[c]) /\ RowsAre(KeysOf(c), asked[c], 1) /\ 1 = Len(asked[c])
      BY <1>7 DEF PrefixThere
    <3>1. asked[c] = <<s>> /\ KeysOf(c) = {key(c)} /\ key(c).sort = 0 /\ key(c).secret = s
      BY <1>2, <1>3, <2>2
    <3>2. RowsAre({key(c)}, <<s>>, 1)
      <4>1. 0 < 1 /\ <<s>>[0 + 1] = s /\ \A i \in 0..(1 - 1) : i = 0
        OBVIOUS
      <4> QED
        BY <3>1, <4>1 DEF RowsAre
    <3>3. Len(<<s>>) = 1 /\ 1 \in 0..1
      OBVIOUS
    <3> QED
      BY <3>1, <3>2, <3>3
  <2>6. KeysSound(c)
    BY <2>1, <2>4, <2>5 DEF KeysSound, Alone, SecretsOnce, FrontInserted
  <2>7. OffThere(c) /\ OffKnown(c)
    BY <1>7, <2>1 DEF OffThere, OffKnown
  <2> QED
    BY <2>3, <2>6, <2>7 DEF ChannelSound
<1> QED
  BY <1>6, <1>8, <1>10, <1>11, IdInit DEF StoreInvariant

LEMMA StoreAlways == Spec => []StoreInvariant
BY StoreInit, StoreStep, PTL DEF Spec

LEMMA ListedSecrets ==
  ASSUME NEW q \in Seq(Secrets)
  PROVE  ToSet(q) \subseteq Secrets /\ DOMAIN q = 1..Len(q)
BY DEF ToSet

\* Channels, rows, keys, operations in progress and what requests have read keep
\* their types; key ids are unique and below the next one.
THEOREM TypeCorrect == Spec => []TypeOK
<1>1. ASSUME StoreInvariant
      PROVE  TypeOK
  <2>1. Shapes /\ nextId \in Nat /\ Numbered(keys) /\ \A k, l \in keys : k.id = l.id => k = l
    BY <1>1 DEF StoreInvariant, IdInvariant
  <2>2. ASSUME NEW a \in Admins
        PROVE  /\ DOMAIN op[a] = DOMAIN NoOp
               /\ op[a].step \in Steps
               /\ op[a].step # "idle" => op[a].chan \in Chans
               /\ op[a].old \in Rows /\ op[a].new \in Rows
               /\ op[a].list = Nil \/ ToSet(op[a].list) \subseteq Secrets
               /\ op[a].step = "insert" => op[a].i \in DOMAIN op[a].list
               /\ op[a].on \subseteq Secrets /\ op[a].off \subseteq Secrets
    <3>1. op[a] \in Ops /\ OpSound(op[a], state)
      BY <1>1 DEF StoreInvariant, Shapes, OpsSound
    <3>2. DOMAIN op[a] = DOMAIN NoOp
      BY <3>1 DEF Ops, NoOp
    <3>3. op[a].list = Nil \/ ToSet(op[a].list) \subseteq Secrets
      BY <3>1, ListedSecrets DEF Ops
    <3>4. op[a].step = "insert" => op[a].i \in DOMAIN op[a].list
      BY <3>1, ListedSecrets DEF OpSound
    <3> QED
      BY <3>1, <3>2, <3>3, <3>4 DEF Ops, OpSound
  <2>3. \A p \in Readers : read[p].chans \subseteq Chans /\ read[p].keys \subseteq KeyRows
    BY <2>1 DEF Shapes, Reads
  <2>4. \A c \in Chans : ToSet(asked[c]) \subseteq Secrets
    BY <2>1, ListedSecrets DEF Shapes
  <2> QED
    BY <2>1, <2>2, <2>3, <2>4 DEF TypeOK, Shapes, Counts, Numbered
<1> QED
  BY <1>1, StoreAlways, PTL

\* Whatever operations run at the same time and wherever they end, the rows of a
\* channel are a first part of the list that was asked for last, one row for
\* each of its places, and all of it unless a replacement is under way or one
\* has ended between its statements.  The exception is a channel of which two
\* replacements have overlapped.  Lists may name a key any number of times.
THEOREM InterruptedKeysAlwaysPrefix == Spec => []InterruptedKeysArePrefix
<1>1. ASSUME StoreInvariant, NEW c \in Chans, state[c] = "live", "overlap" \notin fate[c]
      PROVE  \E n \in 0..Len(asked[c]) :
               /\ RowsAre(KeysOf(c), asked[c], n)
               /\ ~Busy(c) /\ "torn" \notin fate[c] => n = Len(asked[c])
  <2>1. PrefixThere(c)
    BY <1>1 DEF StoreInvariant, ChannelSound, KeysSound
  <2>2. (\A a \in Admins : ~Inserting(a, c)) <=> ~Busy(c)
    BY DEF Busy, Inserting, At
  <2> QED
    BY <1>1, <2>1, <2>2 DEF PrefixThere
<1>2. StoreInvariant => InterruptedKeysArePrefix
  BY <1>1 DEF InterruptedKeysArePrefix
<1> QED
  BY <1>2, StoreAlways, PTL

\* A key that was switched off by hand stays off through every update of its
\* channel, except in the five ways that "fate" records: replacements overlap,
\* the switch comes between the statements of one, one ends between its
\* statements, a list names a key twice, or an earlier list is written back
\* without a key.  Runs of the model show that the code turns keys on in those.
THEOREM SwitchAlwaysSurvives == Spec => []SwitchSurvivesUpdates
<1>1. ASSUME StoreInvariant, NEW k \in keys, <<k.chan, k.secret>> \in off, fate[k.chan] = {}
      PROVE  ~k.on
  <2>1. k.chan \in Chans /\ k \in KeysOf(k.chan)
    BY <1>1 DEF StoreInvariant, Shapes, KeyRows, KeysOf
  <2> QED
    BY <1>1, <2>1 DEF StoreInvariant, ChannelSound, OffKnown
<1>2. StoreInvariant => SwitchSurvivesUpdates
  BY <1>1 DEF SwitchSurvivesUpdates
<1> QED
  BY <1>2, StoreAlways, PTL

\* No write of the model lists loses a model of the row that was read, takes
\* another model out of service or narrows a channel for all models.
THEOREM NoModelEverLost == Spec => NoModelLost
<1> DEFINE Kept(a) ==
      LET o == op[a]
          c == o.chan
      IN  WriteRow(a) /\ state[c] = "live" /\ row[c] = o.old =>
            IF o.kind = "update"
            THEN o.arg.disabled = Nil =>
                   o.old.models \cup o.old.disabled \subseteq row'[c].models \cup row'[c].disabled
            ELSE \A m \in Models \ {o.arg} : Serves(row[c], m) => Serves(row'[c], m)
<1>1. ASSUME StoreInvariant, NEW a \in Admins, WriteRow(a), state[op[a].chan] = "live",
             row[op[a].chan] = op[a].old
      PROVE  IF op[a].kind = "update"
             THEN op[a].arg.disabled = Nil =>
                    op[a].old.models \cup op[a].old.disabled
                      \subseteq row'[op[a].chan].models \cup row'[op[a].chan].disabled
             ELSE \A m \in Models \ {op[a].arg} :
                    Serves(row[op[a].chan], m) => Serves(row'[op[a].chan], m)
  <2> DEFINE o == op[a]
             new == row'[o.chan]
  <2>1. /\ o.chan \in Chans
        /\ \/ o.kind = "update" /\ o.arg \in Updates
           \/ o.kind \in {"disable", "enable"} /\ o.arg \in Models
        /\ o.new = Computed(o)
    BY <1>1 DEF StoreInvariant, OpsSound, OpSound, WriteRow, At
  <2>2. new = Computed(o)
    BY <1>1, <2>1 DEF WriteRow, StoreInvariant, Shapes
  <2> HIDE DEF o, new
  <2>3. CASE o.kind = "update"
    <3>1. new = Updated(o.old, o.arg)
      BY <2>2, <2>3 DEF Computed
    <3>2. o.arg.disabled = Nil =>
            /\ new.disabled = (o.old.disabled \cup o.old.models) \ o.arg.models
            /\ new.models = o.arg.models \ new.disabled
      BY <3>1 DEF Updated, Normalized
    <3>3. o.arg.disabled = Nil =>
            o.old.models \cup o.old.disabled \subseteq new.models \cup new.disabled
      BY <3>2
    <3> QED
      BY <2>3, <3>3 DEF o, new
  <2>4. CASE o.kind = "disable" /\ o.arg \in Models
    <3>1. new = Disabled(o.old, o.arg)
      BY <2>2, <2>4 DEF Computed
    <3>2. /\ new.disabled = o.old.disabled \cup {o.arg}
          /\ new.models = (o.old.models \ {o.arg}) \ new.disabled
      BY <3>1 DEF Disabled, Normalized
    <3>3. \A m \in Models \ {o.arg} : Serves(o.old, m) => Serves(new, m)
      BY <3>2 DEF Serves
    <3> QED
      BY <1>1, <2>4, <3>3 DEF o, new
  <2>5. CASE o.kind = "enable" /\ o.arg \in Models
    <3>1. new = Enabled(o.old, o.arg)
      BY <2>2, <2>5 DEF Computed
    <3>2. /\ new.disabled = o.old.disabled \ {o.arg}
          /\ new.models = (IF o.old.models = {} THEN {} ELSE o.old.models \cup {o.arg}) \ new.disabled
      BY <3>1 DEF Enabled, Normalized
    <3>3. \A m \in Models \ {o.arg} : Serves(o.old, m) => Serves(new, m)
      BY <3>2 DEF Serves
    <3> QED
      BY <1>1, <2>5, <3>3 DEF o, new
  <2> QED
    BY <2>1, <2>3, <2>4, <2>5
<1>2. StoreInvariant => \A a \in Admins : Kept(a)
  BY <1>1
<1>3. StoreInvariant /\ [Next]_vars => [\A a \in Admins : Kept(a)]_vars
  BY <1>2
<1> QED
  BY <1>3, StoreAlways, PTL DEF Spec, NoModelLost
=============================================================================
