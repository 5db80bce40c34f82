------------------------------- MODULE Dispatch -------------------------------
(***************************************************************************)
(* Forwarding and failover (serveBody and dispatch in                      *)
(* internal/api/proxy.go, with affinity.go), on top of the key health of   *)
(* module KeyHealth.                                                       *)
(*                                                                         *)
(* A request comes with a plan: the models it may be answered with (more   *)
(* than one only for model "auto" in priority mode), and for each of them  *)
(* the channels that serve it and the affinity key of the conversation.    *)
(* For each model in turn, dispatch orders the channels, tries the keys of *)
(* each, reports every outcome to KeyHealth, and stops at the first        *)
(* response it keeps.  Channels and keys are those the handler read from   *)
(* the database at its start; the health of the keys and the affinity map  *)
(* are shared with all other handlers and read when they are needed.       *)
(*                                                                         *)
(* What an upstream answers is one of                                      *)
(*   ok     a status below 400                                             *)
(*   bad    400                                                            *)
(*   other  any other status that is passed through, such as 404 or 422    *)
(*   auth   401 or 403                                                     *)
(*   retry  408, 429 or 5xx                                                *)
(*   error  no response: transport failure, timeout, or the client is gone *)
(***************************************************************************)
EXTENDS Integers, Sequences, FiniteSets, SequencesExt, InPlaceFilter

CONSTANTS
  Channels,     \* upstream channels
  ChannelList,  \* all of them, as ListChannels orders them
  Priority,     \* Priority[c]
  KeyList,      \* KeyList[c]: the keys of channel c by id
  Handlers,     \* handler goroutines
  Plans,        \* the plans of the requests that may arrive
  Convs,        \* affinity keys of conversations
  NoConv,       \* the request is no continuation of a conversation
  NoKey,        \* no key remembered
  MaxAttempts,  \* maxProxyAttempts
  MaxStarts,    \* bound: requests that arrive
  Keys, Prober, Base, MaxCool, Threshold, MaxClock, MaxReports, MaxChanges,
  MaxRestarts, MaxWriteErrors

Reporters == Handlers \cup {Prober}

ASSUME DispatchAssumption ==
  /\ NoKey \notin Keys /\ NoConv \notin Convs /\ Prober \notin Handlers
  /\ ChannelList \in Seq(Channels) /\ IsInjective(ChannelList)
  /\ Channels \subseteq ToSet(ChannelList)
  /\ Priority \in [Channels -> Int]
  /\ \A i, j \in DOMAIN ChannelList :
       i < j => Priority[ChannelList[i]] >= Priority[ChannelList[j]]
  \* A key belongs to one channel.
  /\ KeyList \in [Channels -> Seq(Keys)]
  /\ \A c \in Channels : IsInjective(KeyList[c])
  /\ \A c, d \in Channels : c # d => ToSet(KeyList[c]) \cap ToSet(KeyList[d]) = {}
  /\ Keys \subseteq UNION {ToSet(KeyList[c]) : c \in Channels}
  /\ Plans \subseteq Seq([chans : SUBSET Channels, conv : Convs \cup {NoConv}]) \ {<<>>}
  /\ MaxAttempts \in Nat \ {0} /\ MaxStarts \in Nat

VARIABLES
  clock, fails, until, save, setting, probe, enabled, healthy, count,
  failedAt, alerts, latest,  \* the state of KeyHealth
  call,      \* call[h]: the locals of serveBody and dispatch
  affinity,  \* affinity[v]: the key remembered for a conversation (affinityMap)
  starts,    \* how many requests have arrived
  guilty     \* history: keys with which an upstream has failed

Health == INSTANCE KeyHealth

healthVars == <<clock, fails, until, save, setting, probe, enabled, healthy,
                count, failedAt, alerts, latest>>
vars == <<healthVars, call, affinity, starts, guilty>>

-----------------------------------------------------------------------------
(* Orders *)

Rotated(q, n) == SubSeq(q, n + 1, Len(q)) \o SubSeq(q, 1, n)

\* Mutant of Orders: the weighted draw ignores the priorities.
OrdersAnyhow(S) == SetToSeqs(S)

\* orderCandidates: the channels of the highest priority in a random order
\* (every order has a positive weight), then the others as listed.
Orders(S) ==
  LET top == {c \in S : \A d \in S : Priority[d] <= Priority[c]}
  IN  {q \o Only(ChannelList, S \ top) : q \in SetToSeqs(top)}

\* The channel of the remembered key is brought to the front; what stood
\* before it goes to the back.
ChannelOf(k) == CHOOSE c \in Channels : Contains(KeyList[c], k)

Preferred(order, k) ==
  IF k = NoKey \/ ~ Contains(order, ChannelOf(k)) THEN order
  ELSE Rotated(order, Place(order, ChannelOf(k)) - 1)

\* Mutant of Attempts: the list is cut before the channel is brought forward.
AttemptsCutFirst(order, k) ==
  Preferred(SubSeq(order, 1, IF Len(order) < MaxAttempts THEN Len(order) ELSE MaxAttempts), k)

\* The channels that will be tried.
Attempts(order, k) ==
  LET all == Preferred(order, k)
  IN  SubSeq(all, 1, IF Len(all) < MaxAttempts THEN Len(all) ELSE MaxAttempts)

\* Mutant of Available: a channel all of whose keys cool is passed over.
AvailableReady(c, usable) ==
  LET ready == Only(KeyList[c], {k \in usable : ~ Health!Cooling(k)})
  IN  IF ready = <<>> THEN {<<>>} ELSE {Rotated(ready, n) : n \in 0..(Len(ready) - 1)}

\* available: the enabled keys that do not cool, or all enabled ones when all
\* of them cool, from a random start.
Available(c, usable) ==
  LET on == Only(KeyList[c], usable)
      ready == Only(KeyList[c], {k \in usable : ~ Health!Cooling(k)})
      all == IF ready = <<>> THEN on ELSE ready
  IN  IF all = <<>> THEN {<<>>} ELSE {Rotated(all, n) : n \in 0..(Len(all) - 1)}

\* Mutant of KeyFirst: what stood before the remembered key is cut off.
KeyFirstDrops(q, k) ==
  IF Contains(q, k) THEN SubSeq(q, Place(q, k), Len(q)) ELSE q

\* rotateKeyFirst
KeyFirst(q, k) ==
  IF Contains(q, k) THEN Rotated(q, Place(q, k) - 1) ELSE q

-----------------------------------------------------------------------------
(* The state of a handler *)

Answers == {"ok", "bad", "other", "auth", "retry"}
Outcomes == Answers \cup {"error"}
Stages == {"idle", "model", "channel", "key", "calling", "kept", "end"}

NoCall ==
  [stage |-> "idle", plan |-> <<>>, m |-> 0, list |-> <<>>, i |-> 0,
   keys |-> <<>>, j |-> 0, usable |-> {}, pref |-> NoKey, used |-> 0,
   calls |-> 0, stream |-> FALSE, injected |-> FALSE, answer |-> "none", tried |-> <<>>,
   gone |-> FALSE,
   passed |-> {}]  \* history: keys that cooled when their channel's turn came, others not

\* The variables of KeyHealth keep their types because this module implements
\* it (HealthImplemented).
TypeOK ==
  /\ \A h \in Handlers :
       LET r == call[h] IN
       /\ DOMAIN r = DOMAIN NoCall
       /\ r.stage \in Stages /\ r.answer \in Outcomes \cup {"none"}
       /\ r.stage # "idle" => r.plan \in Plans /\ r.m \in 1..Len(r.plan)
       /\ r.list \in Seq(Channels) /\ Len(r.list) <= MaxAttempts
       /\ r.keys \in Seq(Keys) /\ r.tried \in Seq(Keys)
       /\ r.stage = "calling" => r.i \in DOMAIN r.list /\ r.j \in DOMAIN r.keys
       /\ r.usable \subseteq Keys /\ r.passed \subseteq Keys /\ r.pref \in Keys \cup {NoKey}
  /\ affinity \in [Convs -> Keys \cup {NoKey}]
  /\ starts \in 0..MaxStarts
  /\ guilty \subseteq Keys

Init ==
  /\ Health!Init
  /\ call = [h \in Handlers |-> NoCall]
  /\ affinity = [v \in Convs |-> NoKey]
  /\ starts = 0
  /\ guilty = {}

\* The key in use.
Key(h) == call[h].keys[call[h].j]
MultiKey(h) ==
  Cardinality(ToSet(KeyList[call[h].list[call[h].i]]) \cap call[h].usable) > 1

\* shouldRotate, and whether there is another key or channel in the lists.
ShouldRotate(h, outcome) == outcome = "retry" \/ (outcome = "auth" /\ MultiKey(h))
Spare(h) == call[h].j < Len(call[h].keys) \/ call[h].i < Len(call[h].list)

\* A handler goes on once the save of its last report is done.
Ready(h, stage) == call[h].stage = stage /\ Health!Idle(h)
Moved(h, r) == call' = [call EXCEPT ![h] = r]

-----------------------------------------------------------------------------
(* serveBody up to the candidate loop: the channels and keys are read *)

Arrive(h, plan, stream) ==
  /\ call[h].stage = "idle"
  /\ starts < MaxStarts
  /\ starts' = starts + 1
  /\ Moved(h, [NoCall EXCEPT !.stage = "model", !.plan = plan, !.m = 1,
                             !.stream = stream,
                             !.usable = {k \in Keys : enabled[k]}])
  /\ UNCHANGED <<healthVars, affinity, guilty>>

\* dispatch starts: a fresh count of attempts, and the affinity map is read.
StartModel(h) ==
  LET r == call[h]
      step == r.plan[r.m]
      pref == IF step.conv = NoConv THEN NoKey ELSE affinity[step.conv]
  IN
  /\ Ready(h, "model")
  /\ \E order \in Orders(step.chans) :
       Moved(h, [r EXCEPT !.stage = "channel", !.list = Attempts(order, pref), !.i = 1,
                          !.keys = <<>>, !.j = 0, !.used = 0, !.tried = <<>>,
                          !.passed = {}, !.calls = 0, !.injected = r.stream, !.answer = "none",
                          !.pref = IF pref # NoKey /\ ChannelOf(pref) \in step.chans
                                    THEN pref ELSE NoKey])
  /\ UNCHANGED <<healthVars, affinity, starts, guilty>>

\* The enabled keys of channel c that may be left out now: the cooling ones,
\* when another one does not cool.
Deferred(c, usable) ==
  LET on == ToSet(KeyList[c]) \cap usable
      cooling == {k \in on : Health!Cooling(k)}
  IN  IF cooling = on THEN {} ELSE cooling

\* The outer loop: the next channel, and its keys as they are now.
NextChannel(h) ==
  LET r == call[h] IN
  /\ call[h].stage = "channel"
  /\ r.i <= Len(r.list)
  /\ \E q \in Available(r.list[r.i], r.usable) :
       Moved(h, IF q = <<>> THEN [r EXCEPT !.i = @ + 1]
                ELSE [r EXCEPT !.stage = "key", !.keys = KeyFirst(q, r.pref), !.j = 1,
                               !.passed = @ \cup Deferred(r.list[r.i], r.usable)])
  /\ UNCHANGED <<healthVars, affinity, starts, guilty>>

\* The inner loop: the next key, unless the attempts are used up.
NextKey(h) ==
  LET r == call[h] IN
  /\ Ready(h, "key")
  /\ \/ /\ r.j > Len(r.keys)
        /\ Moved(h, [r EXCEPT !.stage = "channel", !.i = @ + 1])
     \/ /\ r.j <= Len(r.keys)
        /\ r.used < MaxAttempts
        /\ Moved(h, [r EXCEPT !.stage = "calling", !.used = @ + 1, !.calls = @ + 1,
                              !.tried = Append(@, Key(h))])
  /\ UNCHANGED <<healthVars, affinity, starts, guilty>>

-----------------------------------------------------------------------------
(* What comes back from the upstream *)

\* The upstream failed, or the client's departure cancelled the call: in both
\* cases the key is reported and the loop goes on.
CallFails(h) ==
  /\ Ready(h, "calling")
  /\ Health!ReportFailure(h, Key(h))
  /\ Moved(h, [call[h] EXCEPT !.stage = "key", !.j = @ + 1])
  /\ guilty' = IF call[h].gone THEN guilty ELSE guilty \cup {Key(h)}
  /\ UNCHANGED <<affinity, starts>>

\* Mutant of CallAgain: the body without stream_options is not remembered.
CallAgainInjected(h) ==
  /\ Ready(h, "calling")
  /\ ~call[h].gone
  /\ call[h].injected
  /\ Moved(h, [call[h] EXCEPT !.calls = @ + 1])
  /\ UNCHANGED <<healthVars, affinity, starts, guilty>>

\* The upstream does not know stream_options: once more without them.
CallAgain(h) ==
  /\ Ready(h, "calling")
  /\ ~call[h].gone
  /\ call[h].injected
  /\ Moved(h, [call[h] EXCEPT !.injected = FALSE, !.calls = @ + 1])
  /\ UNCHANGED <<healthVars, affinity, starts, guilty>>

\* Mutant of TurnAway: the failure is counted outside reportFailure, and the
\* cooldown it would have started is not.
TurnAwayUncooled(h, outcome) ==
  /\ Ready(h, "calling")
  /\ ~call[h].gone
  /\ ~(outcome = "bad" /\ call[h].injected)
  /\ ShouldRotate(h, outcome) /\ Spare(h)
  /\ fails' = [fails EXCEPT ![Key(h)] = @ + 1]
  /\ Moved(h, [call[h] EXCEPT !.stage = "key", !.j = @ + 1])
  /\ guilty' = guilty \cup {Key(h)}
  /\ UNCHANGED <<clock, until, save, setting, probe, enabled, healthy, count,
                 failedAt, alerts, latest, affinity, starts>>

\* A response that asks for another key, while the lists hold one.
TurnAway(h, outcome) ==
  /\ Ready(h, "calling")
  /\ ~call[h].gone
  /\ ~(outcome = "bad" /\ call[h].injected)
  /\ ShouldRotate(h, outcome) /\ Spare(h)
  /\ Health!ReportFailure(h, Key(h))
  /\ Moved(h, [call[h] EXCEPT !.stage = "key", !.j = @ + 1])
  /\ guilty' = guilty \cup {Key(h)}
  /\ UNCHANGED <<affinity, starts>>

\* Any other response is kept, and the key is reported as successful.
Keep(h, outcome) ==
  /\ Ready(h, "calling")
  /\ ~call[h].gone
  /\ ~(outcome = "bad" /\ call[h].injected)
  /\ ~(ShouldRotate(h, outcome) /\ Spare(h))
  /\ Health!ReportSuccess(h, Key(h))
  /\ Moved(h, [call[h] EXCEPT !.stage = "kept", !.answer = outcome])
  /\ guilty' = IF ShouldRotate(h, outcome) THEN guilty \cup {Key(h)} ELSE guilty
  /\ UNCHANGED <<affinity, starts>>

\* Mutant of Return: the last model is not told from the others.
ReturnAlwaysNext(h) ==
  LET r == call[h]
      conv == r.plan[r.m].conv
  IN
  /\ Ready(h, "kept")
  /\ affinity' = IF conv = NoConv THEN affinity ELSE [affinity EXCEPT ![conv] = Key(h)]
  /\ Moved(h, IF r.answer # "ok"
              THEN [r EXCEPT !.stage = "model", !.m = @ + 1, !.answer = "none"]
              ELSE [r EXCEPT !.stage = "end"])
  /\ UNCHANGED <<healthVars, starts, guilty>>

\* The affinity map learns the key, then dispatch returns the response:
\* serveBody takes the next model instead when this one answered 4xx or 5xx.
Return(h) ==
  LET r == call[h]
      conv == r.plan[r.m].conv
      another == r.m < Len(r.plan) /\ r.answer # "ok"
  IN
  /\ Ready(h, "kept")
  /\ affinity' = IF conv = NoConv THEN affinity ELSE [affinity EXCEPT ![conv] = Key(h)]
  /\ Moved(h, IF another THEN [r EXCEPT !.stage = "model", !.m = @ + 1, !.answer = "none"]
              ELSE [r EXCEPT !.stage = "end"])
  /\ UNCHANGED <<healthVars, starts, guilty>>

\* Mutant of GivesUp: used-up attempts end the inner loop only.
GivesUpAfterLists(h) == call[h].stage = "channel" /\ call[h].i > Len(call[h].list)

\* dispatch returns without a response: the lists or the attempts are used up.
GivesUp(h) ==
  \/ call[h].stage = "channel" /\ call[h].i > Len(call[h].list)
  \/ /\ Ready(h, "key")
     /\ call[h].j <= Len(call[h].keys) /\ call[h].used >= MaxAttempts
GiveUp(h) ==
  LET r == call[h] IN
  /\ GivesUp(h)
  /\ Moved(h, IF r.m < Len(r.plan) THEN [r EXCEPT !.stage = "model", !.m = @ + 1]
              ELSE [r EXCEPT !.stage = "end", !.answer = "error"])
  /\ UNCHANGED <<healthVars, affinity, starts, guilty>>

\* The response, or the 502, has been sent and logged.
Finish(h) ==
  /\ call[h].stage = "end"
  /\ Moved(h, NoCall)
  /\ UNCHANGED <<healthVars, affinity, starts, guilty>>

-----------------------------------------------------------------------------
(* Around the handlers *)

ClientLeaves(h) ==
  /\ call[h].stage # "idle"
  /\ ~call[h].gone
  /\ Moved(h, [call[h] EXCEPT !.gone = TRUE])
  /\ UNCHANGED <<healthVars, affinity, starts, guilty>>

\* An entry is older than affinityTTL, or a full table has been reset.
Forget(v) ==
  /\ affinity[v] # NoKey
  /\ affinity' = [affinity EXCEPT ![v] = NoKey]
  /\ UNCHANGED <<healthVars, call, starts, guilty>>

Restart ==
  /\ Health!Restart
  /\ call' = [h \in Handlers |-> NoCall]
  /\ affinity' = [v \in Convs |-> NoKey]
  /\ UNCHANGED <<starts, guilty>>

Background == Health!Background /\ UNCHANGED <<call, affinity, starts, guilty>>

Proceed(h) ==
  \/ StartModel(h) \/ NextChannel(h) \/ NextKey(h)
  \/ CallFails(h) \/ CallAgain(h)
  \/ \E outcome \in Answers : TurnAway(h, outcome) \/ Keep(h, outcome)
  \/ Return(h) \/ GiveUp(h) \/ Finish(h)

Next ==
  \/ \E h \in Handlers : \/ \E plan \in Plans, stream \in BOOLEAN : Arrive(h, plan, stream)
                         \/ Proceed(h)
                         \/ ClientLeaves(h)
  \/ \E v \in Convs : Forget(v)
  \/ Restart
  \/ Background

Spec == Init /\ [][Next]_vars

\* ResponseHeaderTimeout ends the wait for a status, but by default nothing
\* ends the reading of a response that is drained (proxy.go:387, 495, 507) or
\* copied to the client.  All of it hangs on the client's context: once the
\* client has left, every read and call of its handler returns.
Fairness ==
  /\ \A h \in Handlers : WF_vars(call[h].gone /\ Proceed(h))
  /\ \A p \in Reporters : WF_vars(Health!Saving(p) /\ UNCHANGED <<call, affinity, starts, guilty>>)
FairSpec == Spec /\ Fairness

-----------------------------------------------------------------------------
(* Properties *)

\* Handlers and their failovers change key health only through reportFailure
\* and reportSuccess: what KeyHealth promises holds here.
HealthImplemented == Health!Spec

\* Failover and affinity neither repeat nor drop a channel or a key: no key is
\* tried twice in one dispatch; the list holds every channel of the model, or
\* as many as are tried; and a dispatch that gives up with attempts left has
\* tried every enabled key of its list but those passed over as cooling.
EachKeyOnce ==
  \A h \in Handlers :
    LET r == call[h] IN
    /\ IsInjective(r.tried) /\ IsInjective(r.list)
    /\ r.stage \notin {"idle", "model"} =>
         Len(r.list) = MaxAttempts \/ r.plan[r.m].chans \subseteq ToSet(r.list)
    /\ GivesUp(h) /\ r.used < MaxAttempts =>
         \A c \in ToSet(r.list) :
           ToSet(KeyList[c]) \cap r.usable \subseteq ToSet(r.tried) \cup r.passed

\* Giving up early would turn a working channel into a 502: before the
\* attempts are used up every listed channel with an enabled key has been
\* tried, even when all its keys cool.
GivesUpLate ==
  \A h \in Handlers :
    GivesUp(h) /\ call[h].used < MaxAttempts =>
      \A c \in ToSet(call[h].list) :
        ToSet(KeyList[c]) \cap call[h].usable # {} =>
          ToSet(KeyList[c]) \cap ToSet(call[h].tried) # {}

\* Priorities: without a remembered channel, no channel is tried before one of
\* a higher priority that has an enabled key.
HigherPriorityFirst ==
  \A h \in Handlers :
    call[h].stage = "calling" /\ call[h].pref = NoKey =>
      \A c \in call[h].plan[call[h].m].chans :
        /\ Priority[c] > Priority[call[h].list[call[h].i]]
        /\ ToSet(KeyList[c]) \cap call[h].usable # {}
        => ToSet(KeyList[c]) \cap ToSet(call[h].tried) # {}

\* Affinity: a conversation goes back to the channel of its remembered key
\* first, however far down the order that channel stands.
StickyChannel ==
  \A h \in Handlers :
    LET r == call[h] IN
    /\ r.stage \notin {"idle", "model"} /\ r.pref # NoKey
    => r.list # <<>> /\ r.list[1] = ChannelOf(r.pref)

\* proxy.go:441 caps the attempts; one call more may follow, the retry without
\* stream_options, which is not counted.
CallsBounded ==
  \A h \in Handlers : call[h].used <= MaxAttempts /\ call[h].calls <= MaxAttempts + 1

\* README.md:9, bad keys cool down: a key with which no upstream call has ever
\* failed does not cool.
OnlyGuiltyKeysCool == \A k \in Keys : until[k] # Health!NoCool => k \in guilty

\* A request whose client has left is over at last, whatever its upstreams do.
EveryAbandonedRequestEnds == \A h \in Handlers : call[h].gone ~> call[h].stage = "idle"
=============================================================================
