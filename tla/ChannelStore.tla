----------------------------- MODULE ChannelStore -----------------------------
(***************************************************************************)
(* Channels and their keys in SQLite (internal/store/channels.go) with the *)
(* console operations that change them (internal/api/admin.go, and the     *)
(* import of ops.go) and the requests that read them.                      *)
(*                                                                         *)
(* An operation consists of several SQL statements and uses no             *)
(* transaction.  Each statement is one step here: the pool has a single    *)
(* connection.  Between two statements other operations and requests may   *)
(* come, and an operation may end early, because a statement fails or the  *)
(* process dies.                                                           *)
(*                                                                         *)
(* UpdateChannel replaces the keys of a channel by deleting and inserting  *)
(* all of them again, under new ids, whenever it is handed any key; what   *)
(* it is handed is what GetChannel has read before, unless the request     *)
(* names keys.  Of a channel's columns only the two model lists are kept,  *)
(* as sets.                                                                *)
(***************************************************************************)
EXTENDS Integers, Sequences, FiniteSets, FiniteSetsExt, SequencesExt

CONSTANTS
  Chans,        \* channel ids; AUTOINCREMENT never gives one out twice
  Live0,        \* the channels that exist at the start
  Secrets,      \* upstream keys in plain text
  Models,       \* model names
  Admins,       \* goroutines that serve the console
  Readers,      \* goroutines that serve requests
  Updates,      \* bodies of PUT and POST requests: models, disabled, list
  Nil,          \* a Go nil: the field is not given
  MaxOps,       \* bound: operations of the console
  MaxSwitches,  \* bound: switches of single keys
  MaxReads,     \* bound: requests
  MaxFailures   \* bound: operations that end early

ASSUME ChannelStoreAssumption ==
  /\ IsFiniteSet(Chans) /\ Live0 \subseteq Chans
  /\ \A u \in Updates :
       /\ u.models \subseteq Models
       /\ u.disabled = Nil \/ u.disabled \subseteq Models
       /\ u.list = Nil \/ u.list \in Seq(Secrets)
  /\ MaxOps \in Nat /\ MaxSwitches \in Nat /\ MaxReads \in Nat /\ MaxFailures \in Nat

VARIABLES
  state,    \* state[c]: "new" before its INSERT, "live", "deleted"
  row,      \* row[c]: the model lists of channels.c
  keys,     \* the rows of channel_keys
  nextId,   \* the next key id
  op,       \* op[a]: the operation a is in, and what it has read
  read,     \* read[p]: what ListChannels has returned so far
  count,    \* how often the bounded actions have happened
  asked,    \* history: asked[c]: the list that last replaced the keys of c
  off,      \* history: <<c, s>> for keys that the console has switched off
  fate      \* history: fate[c]: what went wrong with replacements of the keys of c

vars == <<state, row, keys, nextId, op, read, count, asked, off, fate>>

Rows == [models : SUBSET Models, disabled : SUBSET Models]
NoRow == [models |-> {}, disabled |-> {}]
KeyRows == [id : Nat, chan : Chans, secret : Secrets, sort : Nat, on : BOOLEAN]

KeysOf(c) == {k \in keys : k.chan = c}
SecretsOf(c) == {k.secret : k \in KeysOf(c)}
Before(k, l) == k.sort < l.sort \/ (k.sort = l.sort /\ k.id < l.id)

Steps == {"idle", "row", "write", "states", "delete", "insert", "purge"}
NoOp == [step |-> "idle", chan |-> Nil, kind |-> "none", arg |-> Nil,
         old |-> NoRow, new |-> NoRow, list |-> Nil, on |-> {}, off |-> {}, i |-> 0]

\* Two replacements overlapped; a key was switched inside one; one ended before
\* its last INSERT; one was given a list that names a key twice; one wrote back
\* a list it had read, and dropped a key that had come since.
Fates == {"overlap", "raced", "torn", "doubled", "stale"}

NoRead == [step |-> "idle", chans |-> {}, keys |-> {}]

TypeOK ==
  /\ state \in [Chans -> {"new", "live", "deleted"}]
  /\ row \in [Chans -> Rows]
  /\ keys \subseteq KeyRows
  /\ nextId \in Nat /\ \A k \in keys : k.id < nextId
  /\ \A k, l \in keys : k.id = l.id => k = l
  /\ \A a \in Admins :
       /\ DOMAIN op[a] = DOMAIN NoOp
       /\ op[a].step \in Steps
       /\ op[a].step # "idle" => op[a].chan \in Chans
       /\ op[a].old \in Rows /\ op[a].new \in Rows
       /\ op[a].list = Nil \/ ToSet(op[a].list) \subseteq Secrets
       /\ op[a].step = "insert" => op[a].i \in DOMAIN op[a].list
       /\ op[a].on \subseteq Secrets /\ op[a].off \subseteq Secrets
  /\ \A p \in Readers : read[p].chans \subseteq Chans /\ read[p].keys \subseteq KeyRows
  /\ count \in [ops : Nat, switches : Nat, reads : Nat, failures : Nat]
  /\ \A c \in Chans : ToSet(asked[c]) \subseteq Secrets
  /\ off \subseteq Chans \X Secrets
  /\ fate \in [Chans -> SUBSET Fates]

\* One key each, which is in use, for the channels that exist already; they
\* list every model.
Init ==
  /\ state = [c \in Chans |-> IF c \in Live0 THEN "live" ELSE "new"]
  /\ row = [c \in Chans |-> IF c \in Live0 THEN [models |-> Models, disabled |-> {}] ELSE NoRow]
  /\ \E s \in Secrets, id \in [Live0 -> 1..Cardinality(Live0)] :
       /\ \A c, d \in Live0 : id[c] = id[d] => c = d
       /\ keys = {[id |-> id[c], chan |-> c, secret |-> s, sort |-> 0, on |-> TRUE] : c \in Live0}
       /\ asked = [c \in Chans |-> IF c \in Live0 THEN <<s>> ELSE <<>>]
  /\ nextId = Cardinality(Live0) + 1
  /\ op = [a \in Admins |-> NoOp]
  /\ read = [p \in Readers |-> NoRead]
  /\ count = [ops |-> 0, switches |-> 0, reads |-> 0, failures |-> 0]
  /\ off = {}
  /\ fate = [c \in Chans |-> {}]

At(a, step) == op[a].step = step
Suffer(c, cond, what) == fate' = [fate EXCEPT ![c] = IF cond THEN @ \cup what ELSE @]
Ended(a) == op' = [op EXCEPT ![a] = NoOp]
Started == count.ops < MaxOps /\ count' = [count EXCEPT !.ops = @ + 1]

-----------------------------------------------------------------------------
(* What an update makes of the model lists *)

\* normalizeModels: the disabled list wins.
Normalized(models, disabled) == [models |-> models \ disabled, disabled |-> disabled]

\* Mutant of Updated: models that leave the list are not kept as disabled.
UpdatedForgetful(old, u) ==
  Normalized(u.models, IF u.disabled # Nil THEN u.disabled ELSE old.disabled \ u.models)

\* updateChannel: the disabled list of the request, or else the old one with
\* the models that have left the list and without those that are in it.
Updated(old, u) ==
  Normalized(u.models,
             IF u.disabled # Nil THEN u.disabled
             ELSE (old.disabled \cup old.models) \ u.models)

Disabled(old, m) == Normalized(old.models \ {m}, old.disabled \cup {m})

\* A channel without a list serves every model, and stays like that.
Enabled(old, m) ==
  Normalized(IF old.models = {} THEN {} ELSE old.models \cup {m}, old.disabled \ {m})

\* ServesModel
Serves(r, m) == m \notin r.disabled /\ (r.models = {} \/ m \in r.models)

-----------------------------------------------------------------------------
(* Console operations, one statement per step *)

\* The first statement of GetChannel.
GetRow(a, c, kind, arg) ==
  /\ At(a, "idle")
  /\ Started
  /\ state[c] = "live"
  /\ op' = [op EXCEPT ![a] = [NoOp EXCEPT !.step = "row", !.chan = c, !.kind = kind,
                                          !.arg = arg, !.old = row[c]]]
  /\ UNCHANGED <<state, row, keys, nextId, read, asked, off, fate>>

\* The keys in their order; a channel without any gives nil.
Place(c, k) == Cardinality({l \in KeysOf(c) : l = k \/ Before(l, k)})
Listed(c) ==
  IF KeysOf(c) = {} THEN Nil
  ELSE [i \in 1..Cardinality(KeysOf(c)) |-> (CHOOSE k \in KeysOf(c) : Place(c, k) = i).secret]

\* The keys that UpdateChannel is handed: those of the request or the old
\* ones.  An empty list in the request leaves newKeys nil.
Handed(c, u) ==
  IF u.list = Nil THEN Listed(c) ELSE IF u.list = <<>> THEN Nil ELSE u.list

\* loadChannelKeys, the second statement of GetChannel, and what the operation
\* computes from the result.
GetKeys(a) ==
  LET o == op[a] IN
  /\ At(a, "row")
  /\ op' = [op EXCEPT ![a] =
              [o EXCEPT !.step = "write",
                        !.new = CASE o.kind = "update" -> Updated(o.old, o.arg)
                                  [] o.kind = "disable" -> Disabled(o.old, o.arg)
                                  [] o.kind = "enable" -> Enabled(o.old, o.arg),
                        !.list = IF o.kind = "update" THEN Handed(o.chan, o.arg)
                                 ELSE Listed(o.chan)]]
  /\ UNCHANGED <<state, row, keys, nextId, read, count, asked, off, fate>>

\* The UPDATE of the row, which does not look at what it replaces.
WriteRow(a) ==
  LET o == op[a] IN
  /\ At(a, "write")
  /\ IF state[o.chan] # "live"
     THEN Ended(a) /\ UNCHANGED row
     ELSE /\ row' = [row EXCEPT ![o.chan] = o.new]
          /\ IF o.list = Nil THEN Ended(a)
             ELSE op' = [op EXCEPT ![a].step = "states"]
  /\ UNCHANGED <<state, keys, nextId, read, count, asked, off, fate>>

\* CreateChannel inserts the row and then replaces the keys it does not have.
Create(a, c, u) ==
  /\ At(a, "idle")
  /\ Started
  /\ state[c] = "new"
  /\ state' = [state EXCEPT ![c] = "live"]
  /\ row' = [row EXCEPT ![c] = Normalized(u.models, IF u.disabled = Nil THEN {} ELSE u.disabled)]
  /\ op' = [op EXCEPT ![a] =
              [NoOp EXCEPT !.step = "states", !.chan = c, !.kind = "create",
                           !.list = IF u.list = Nil THEN <<>> ELSE u.list]]
  /\ UNCHANGED <<keys, nextId, read, asked, off, fate>>

\* channelKeyStates: by plain text, and the last row wins.
LastIs(c, s, on) ==
  \E k \in KeysOf(c) : /\ k.secret = s /\ k.on = on
                       /\ \A l \in KeysOf(c) : l.secret = s => l = k \/ Before(l, k)

ReadStates(a) ==
  LET c == op[a].chan IN
  /\ At(a, "states")
  /\ op' = [op EXCEPT ![a] = [@ EXCEPT !.step = "delete",
                                       !.on = {s \in SecretsOf(c) : LastIs(c, s, TRUE)},
                                       !.off = {s \in SecretsOf(c) : LastIs(c, s, FALSE)}]]
  /\ Suffer(c, \E b \in Admins : op[b].chan = c /\ op[b].step \in {"delete", "insert"},
            {"overlap"})
  /\ UNCHANGED <<state, row, keys, nextId, read, count, asked, off>>

\* The request itself names the keys of the channel, so that those it leaves
\* out are to go.  Otherwise the list is the one that GetChannel has read.
Named(o) == o.kind = "create" \/ (o.kind = "update" /\ o.arg.list # Nil)

DeleteKeys(a) ==
  LET c == op[a].chan
      list == op[a].list
  IN
  /\ At(a, "delete")
  /\ keys' = keys \ KeysOf(c)
  /\ asked' = [asked EXCEPT ![c] = list]
  /\ off' = IF Named(op[a]) THEN {x \in off : x[1] = c => Contains(list, x[2])} ELSE off
  /\ fate' = [fate EXCEPT ![c] = @
                \cup (IF IsInjective(list) THEN {} ELSE {"doubled"})
                \cup (IF Named(op[a]) \/ SecretsOf(c) \subseteq ToSet(list)
                      THEN {} ELSE {"stale"})]
  /\ IF op[a].list = <<>> THEN Ended(a)
     ELSE op' = [op EXCEPT ![a] = [@ EXCEPT !.step = "insert", !.i = 1]]
  /\ UNCHANGED <<state, row, nextId, read, count>>

\* Mutant of NextKeyId: without AUTOINCREMENT an id may come back.
FreeKeyId == 1 + Max({k.id : k \in keys} \cup {0})

\* AUTOINCREMENT: above every id that was ever given out.
NextKeyId == nextId

\* Mutants of NewKey: the old state of the key is not looked up; every turn of
\* the loop inserts the first key.
NewKeyOn(o) ==
  [id |-> NextKeyId, chan |-> o.chan, secret |-> o.list[o.i], sort |-> o.i - 1, on |-> TRUE]
NewKeyFirst(o) ==
  [id |-> NextKeyId, chan |-> o.chan, secret |-> o.list[1], sort |-> o.i - 1,
   on |-> o.list[1] \notin o.off]

\* The row of the key at hand: a key that was there keeps its state.
NewKey(o) ==
  [id |-> NextKeyId, chan |-> o.chan, secret |-> o.list[o.i], sort |-> o.i - 1,
   on |-> o.list[o.i] \notin o.off]

\* Mutant of LastTurn: the loop goes on behind the end of the list.
LastTurnLate(o) == o.i > Len(o.list)
LastTurn(o) == o.i = Len(o.list)

InsertKey(a) ==
  LET o == op[a] IN
  /\ At(a, "insert")
  /\ keys' = keys \cup {NewKey(o)}
  /\ nextId' = NextKeyId + 1
  /\ IF LastTurn(o) THEN Ended(a) ELSE op' = [op EXCEPT ![a].i = @ + 1]
  /\ UNCHANGED <<state, row, read, count, asked, off, fate>>

\* DeleteChannel: the channel, then its keys.
DeleteRow(a, c) ==
  /\ At(a, "idle")
  /\ Started
  /\ state[c] = "live"
  /\ state' = [state EXCEPT ![c] = "deleted"]
  /\ op' = [op EXCEPT ![a] = [NoOp EXCEPT !.step = "purge", !.chan = c, !.kind = "remove"]]
  /\ UNCHANGED <<row, keys, nextId, read, asked, off, fate>>
PurgeKeys(a) ==
  /\ At(a, "purge")
  /\ keys' = keys \ KeysOf(op[a].chan)
  /\ off' = {x \in off : x[1] # op[a].chan}
  /\ Ended(a)
  /\ UNCHANGED <<state, row, nextId, read, count, asked, fate>>

\* SetChannelKeyEnabled, by the id the console has shown.
SwitchKey(k, on) ==
  /\ count.switches < MaxSwitches
  /\ k \in keys /\ k.on # on
  /\ count' = [count EXCEPT !.switches = @ + 1]
  /\ keys' = (keys \ {k}) \cup {[k EXCEPT !.on = on]}
  /\ off' = IF on THEN off \ {<<k.chan, k.secret>>} ELSE off \cup {<<k.chan, k.secret>>}
  /\ Suffer(k.chan, \E a \in Admins : op[a].chan = k.chan /\ At(a, "delete"), {"raced"})
  /\ UNCHANGED <<state, row, nextId, op, read, asked>>

\* The next statement fails, or the process dies before it: no rollback.
EndEarly(a) ==
  /\ ~At(a, "idle")
  /\ count.failures < MaxFailures
  /\ count' = [count EXCEPT !.failures = @ + 1]
  /\ Ended(a)
  /\ Suffer(op[a].chan, At(a, "insert"), {"torn"})
  /\ UNCHANGED <<state, row, keys, nextId, read, asked, off>>

-----------------------------------------------------------------------------
(* Requests: ListChannels reads the rows, then the keys of those rows *)

ListRows(p) ==
  /\ read[p].step = "idle"
  /\ count.reads < MaxReads
  /\ count' = [count EXCEPT !.reads = @ + 1]
  /\ read' = [read EXCEPT ![p] =
                [step |-> "rows", chans |-> {c \in Chans : state[c] = "live"}, keys |-> {}]]
  /\ UNCHANGED <<state, row, keys, nextId, op, asked, off, fate>>

LoadKeys(p) ==
  /\ read[p].step = "rows"
  /\ read' = [read EXCEPT ![p] = [@ EXCEPT !.step = "keys",
                                           !.keys = {k \in keys : k.chan \in read[p].chans}]]
  /\ UNCHANGED <<state, row, keys, nextId, op, count, asked, off, fate>>

\* The request has been answered; until then it reports by the ids it has read.
Answer(p) ==
  /\ read[p].step = "keys"
  /\ read' = [read EXCEPT ![p] = NoRead]
  /\ UNCHANGED <<state, row, keys, nextId, op, count, asked, off, fate>>

Console(a) ==
  \/ \E c \in Chans :
       \/ \E u \in Updates : GetRow(a, c, "update", u) \/ Create(a, c, u)
       \/ \E m \in Models, kind \in {"disable", "enable"} : GetRow(a, c, kind, m)
       \/ DeleteRow(a, c)
  \/ GetKeys(a) \/ WriteRow(a)
  \/ ReadStates(a) \/ DeleteKeys(a) \/ InsertKey(a)
  \/ PurgeKeys(a)
  \/ EndEarly(a)

Next ==
  \/ \E a \in Admins : Console(a)
  \/ \E k \in keys, on \in BOOLEAN : SwitchKey(k, on)
  \/ \E p \in Readers : ListRows(p) \/ LoadKeys(p) \/ Answer(p)

Spec == Init /\ [][Next]_vars

-----------------------------------------------------------------------------
(* Properties *)

\* Health is kept by channel and key id (khKey): a request reports its failure
\* by the id it has read, and that id never names another key meanwhile,
\* however often the keys were deleted and inserted again.
IdsKeepTheirSecret ==
  \A p \in Readers : \A k \in read[p].keys, l \in keys :
    k.id = l.id => k.chan = l.chan /\ k.secret = l.secret

Busy(c) == \E a \in Admins : op[a].chan = c /\ At(a, "insert")

\* The rows S are the first n of the list: a row for each place, and no more.
RowsAre(S, list, n) ==
  /\ \A k \in S : k.sort < n /\ k.secret = list[k.sort + 1]
  /\ \A i \in 0..(n - 1) : \E k \in S : k.sort = i
  /\ \A k, l \in S : k.sort = l.sort => k = l

\* channels.go:149 promises a full replacement: unless two of them overlap,
\* the rows of a channel are a first part of the list that was asked for last,
\* in its order and with the keys it names twice standing twice; and they are
\* all of it when none is under way and none has ended between its statements.
InterruptedKeysArePrefix ==
  \A c \in Chans :
    state[c] = "live" /\ "overlap" \notin fate[c] =>
      \E n \in 0..Len(asked[c]) :
        /\ RowsAre(KeysOf(c), asked[c], n)
        /\ ~Busy(c) /\ "torn" \notin fate[c] => n = Len(asked[c])

\* channels.go:149: a key that was switched off by hand stays off through
\* updates that do not leave it out, except in these five ways: replacements
\* overlap; the switch comes between the statements of one; one ends between
\* its DELETE and its last INSERT, and a later one finds no row to take the
\* state from; the key stands twice, and the row read last decides for both;
\* or a list that was read earlier is written back without the key.
SwitchSurvivesUpdates ==
  \A k \in keys :
    <<k.chan, k.secret>> \in off /\ fate[k.chan] = {} => ~k.on

\* README.md:128 and channels.go:149 promise that a full replacement keeps the
\* state of the keys, also if an earlier one failed: whoever repeats the update
\* that ended with an error finds the key off that was off.
SwitchAlwaysKept ==
  \A k \in keys :
    <<k.chan, k.secret>> \in off /\ fate[k.chan] \subseteq {"torn"} => ~k.on

\* Writing back the model lists loses nothing of the row that was read: a
\* model that leaves the list is kept as disabled (admin.go:478) unless the
\* request has its own disabled list; switching one model takes no other out
\* of service; and enabling one on a channel for all models does not narrow
\* it to that model (channels.go:232).
NoModelLost ==
  [][\A a \in Admins :
       LET o == op[a]
           c == o.chan
       IN  WriteRow(a) /\ state[c] = "live" /\ row[c] = o.old =>
             IF o.kind = "update"
             THEN o.arg.disabled = Nil =>
                    o.old.models \cup o.old.disabled \subseteq row'[c].models \cup row'[c].disabled
             ELSE \A m \in Models \ {o.arg} : Serves(row[c], m) => Serves(row'[c], m)]_vars
=============================================================================
