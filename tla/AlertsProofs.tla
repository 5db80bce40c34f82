---------------------------- MODULE AlertsProofs ----------------------------
(***************************************************************************)
(* The properties of module Alerts for any number of handlers, savers,     *)
(* events and configurations, any lengths of queue and windows.            *)
(***************************************************************************)
EXTENDS Alerts, InPlaceFilterProofs, TLAPS

USE AlertsAssumption

-----------------------------------------------------------------------------
(* Types *)

\* The prune of the error window keeps instants, and no more than there were.
LEMMA InsideType ==
  ASSUME NEW S, NEW times \in Seq(S)
  PROVE  Inside(times) \in Seq(S) /\ Len(Inside(times)) \in 0..Len(times)
<1> DEFINE keep == {i \in DOMAIN times : times[i] > now - Window}
<1>1. keep \in SUBSET DOMAIN times
  OBVIOUS
<1>2. /\ Cardinality(keep) \in 0..Len(times)
      /\ Filtered(times, keep) \in Seq(S) /\ Len(Filtered(times, keep)) = Cardinality(keep)
  BY <1>1, FilterType
<1> QED
  BY <1>2 DEF Inside

LEMMA OneOrNone ==
  ASSUME NEW S, NEW x \in S
  PROVE  <<x>> \in Seq(S) /\ <<>> \in Seq(S)
  OBVIOUS

\* A later clock keeps what is typed by the instants so far.
LEMMA LaterInstants ==
  ASSUME NEW q \in Seq(0..now), now \in Nat
  PROVE  q \in Seq(0..(now + 1))
  OBVIOUS

LEMMA TypeInit == Init => TypeOK
<1> SUFFICES ASSUME Init PROVE TypeOK
  OBVIOUS
<1>1. Resting \in Doing /\ Resting.stage = "idle"
  BY DEF Resting, Doing, Topics
<1>2. Nothing \in [Topics -> Int]
  BY DEF Nothing, Never, Topics
<1>3. count \in [{"requests", "raises", "saves", "restarts"} -> Nat]
  BY DEF Init
<1>4. DOMAIN last \subseteq Topics /\ \A e \in DOMAIN last : last[e] \in 0..now
  BY DEF Init
<1>5. queue \in Seq(Topics) /\ Len(queue) <= QueueCap /\ ewAt \in Seq(0..now) /\ bad \in Seq(0..now)
  BY DEF Init
<1>6. /\ act \in [Handlers -> Doing]
      /\ \A h \in Handlers : act[h].stage # "idle" => act[h].event \in Topics
  BY <1>1 DEF Init
<1>7. /\ now \in Nat /\ saving \in [Savers -> Configs \cup {Idle}]
      /\ row \in Configs \cup {Default} /\ cfg \in Configs \cup {Default}
      /\ ewBad \in Nat /\ {aged, reset, crossed} \subseteq BOOLEAN
      /\ passed \in [Topics -> Int]
  BY <1>2 DEF Init
<1> QED
  BY <1>3, <1>4, <1>5, <1>6, <1>7 DEF TypeOK

\* What a handler may be told to do next.
LEMMA RestType ==
  ASSUME TypeOK, NEW h \in Handlers, Rest(h)
  PROVE  /\ act' \in [Handlers -> Doing]
         /\ \A o \in Handlers : act'[o].stage # "idle" => act'[o].event \in Topics
<1>1. Resting \in Doing /\ Resting.stage = "idle"
  BY DEF Resting, Doing, Topics
<1> QED
  BY <1>1 DEF TypeOK, Rest

LEMMA GotoType ==
  ASSUME TypeOK, NEW h \in Handlers, NEW e \in Topics,
         NEW stage \in {"spike", "fire", "send"}, Goto(h, stage, e)
  PROVE  /\ act' \in [Handlers -> Doing]
         /\ \A o \in Handlers : act'[o].stage # "idle" => act'[o].event \in Topics
<1> DEFINE next == [Resting EXCEPT !.stage = stage, !.event = e]
<1>1. next \in Doing /\ next.event = e
  BY DEF Resting, Doing
<1>2. act' = [act EXCEPT ![h] = next]
  BY DEF Goto
<1> HIDE DEF next
<1> QED
  BY <1>1, <1>2 DEF TypeOK

LEMMA CountedType ==
  ASSUME TypeOK, NEW what \in {"requests", "raises", "saves", "restarts"}, Counted(what)
  PROVE  count' \in [{"requests", "raises", "saves", "restarts"} -> Nat]
<1> DEFINE D == {"requests", "raises", "saves", "restarts"}
<1>1. count \in [D -> Nat] /\ what \in D
  BY DEF TypeOK
<1>2. count' = [count EXCEPT ![what] = count[what] + 1]
  BY DEF Counted
<1> HIDE DEF D
<1>3. count' \in [D -> Nat]
  BY <1>1, <1>2
<1> QED
  BY <1>3 DEF D

LEMMA PutType ==
  ASSUME TypeOK, NEW e \in Topics
  PROVE  /\ DOMAIN Put(last, e, now) \subseteq Topics
         /\ \A x \in DOMAIN Put(last, e, now) : Put(last, e, now)[x] \in 0..now
<1>a. DOMAIN last \subseteq Topics /\ \A x \in DOMAIN last : last[x] \in 0..now
  BY Zenon DEF TypeOK
<1>b. now \in Nat
  BY Zenon DEF TypeOK
<1>c. now \in 0..now
  BY <1>b
<1>1. /\ DOMAIN last \subseteq Topics /\ \A x \in DOMAIN last : last[x] \in 0..now
      /\ now \in 0..now
  BY <1>a, <1>c, Zenon
<1>2. DOMAIN Put(last, e, now) = DOMAIN last \cup {e}
  BY DEF Put
<1>3. \A x \in DOMAIN last \cup {e} : Put(last, e, now)[x] = IF x = e THEN now ELSE last[x]
  BY DEF Put
<1> QED
  BY <1>1, <1>2, <1>3

\* The prune of the dedupe map changes no entry that it keeps.
LEMMA PrunedKeeps ==
  ASSUME NEW f
  PROVE  /\ DOMAIN Pruned(f) \subseteq DOMAIN f
         /\ \A x \in DOMAIN Pruned(f) : Pruned(f)[x] = f[x]
<1>1. CASE Cardinality(DOMAIN f) <= DedupeCap
  BY <1>1 DEF Pruned
<1>2. CASE ~(Cardinality(DOMAIN f) <= DedupeCap)
  <2> DEFINE kept == {y \in DOMAIN f : now - f[y] <= DedupeAge}
  <2>1. Pruned(f) = [x \in kept |-> f[x]]
    BY <1>2 DEF Pruned
  <2>2. kept \subseteq DOMAIN f
    OBVIOUS
  <2> HIDE DEF kept
  <2> QED
    BY <2>1, <2>2
<1> QED
  BY <1>1, <1>2

\* An event is marked, and old entries are removed or not.
Marked(e) == last' = Put(last, e, now) \/ last' = Pruned(Put(last, e, now))

LEMMA MarkedType ==
  ASSUME TypeOK, NEW e \in Topics, Marked(e)
  PROVE  DOMAIN last' \subseteq Topics /\ \A x \in DOMAIN last' : last'[x] \in 0..now
<1>1. /\ DOMAIN last' \subseteq DOMAIN Put(last, e, now)
      /\ \A x \in DOMAIN last' : last'[x] = Put(last, e, now)[x]
  BY PrunedKeeps DEF Marked
<1> QED
  BY <1>1, PutType

LEMMA CheckErrorRateType ==
  ASSUME TypeOK, NEW h \in Handlers, NEW failed \in BOOLEAN, CheckErrorRate(h, failed)
  PROVE  TypeOK'
<1> DEFINE at == Append(Inside(ewAt), now)
           fails == ewBad + IF failed THEN 1 ELSE 0
           over == fails > Len(at)
           counted == IF over THEN 0 ELSE fails
           one == IF failed THEN <<now>> ELSE <<>>
           real == Inside(bad) \o one
           older == aged \/ Len(Inside(bad)) < Len(bad)
           spike == [stage |-> "spike", event |-> Spike, fails |-> counted,
                     total |-> Len(at), truth |-> Len(real), sure |-> ~(~over /\ older)]
<1>1. Inside(ewAt) \in Seq(0..now) /\ Inside(bad) \in Seq(0..now)
  BY InsideType DEF TypeOK
<1>2. at \in Seq(0..now) /\ real \in Seq(0..now)
  <2>1. now \in 0..now
    BY DEF TypeOK
  <2>2. one = <<now>> \/ one = <<>>
    OBVIOUS
  <2> HIDE DEF one
  <2>3. one \in Seq(0..now)
    BY <2>1, <2>2, OneOrNone
  <2> QED
    BY <1>1, <2>1, <2>3
<1>3. Len(at) \in Nat /\ Len(real) \in Nat /\ counted \in Nat
  <2>1. ewBad \in Nat
    BY DEF TypeOK
  <2>2. counted \in Nat
    BY <2>1
  <2> HIDE DEF at, real, counted
  <2> QED
    BY <1>2, <2>2
<1>4. spike \in Doing /\ spike.event \in Topics
  BY <1>3 DEF Doing, Topics
<1>5. act' = [act EXCEPT ![h] = spike] \/ act' = act
  BY DEF CheckErrorRate
<1>6. /\ act' \in [Handlers -> Doing]
      /\ \A o \in Handlers : act'[o].stage # "idle" => act'[o].event \in Topics
  <2> HIDE DEF spike
  <2> QED
    BY <1>4, <1>5 DEF TypeOK
<1>7. /\ ewAt' = at /\ bad' = real /\ ewBad' = counted
      /\ aged' = (~over /\ older) /\ reset' = (reset \/ over)
      /\ Counted("requests") /\ UNCHANGED <<now, configVars, last, queue, passed>>
  BY DEF CheckErrorRate
<1>8. count' \in [{"requests", "raises", "saves", "restarts"} -> Nat]
  BY <1>7, CountedType
<1>9. aged' \in BOOLEAN /\ reset' \in BOOLEAN
  BY <1>7 DEF TypeOK
<1> HIDE DEF at, real, counted, over, older
<1> QED
  BY <1>2, <1>3, <1>6, <1>7, <1>8, <1>9 DEF TypeOK, configVars

LEMMA RaisingType ==
  ASSUME TypeOK, NEW h \in Handlers,
         FireErrorSpike(h) \/ Fire(h) \/ Send(h) \/ \E e \in Events : Raise(h, e)
  PROVE  TypeOK'
<1>1. CASE FireErrorSpike(h)
  <2>1. Spike \in Topics
    BY DEF Topics
  <2>2. /\ act' \in [Handlers -> Doing]
        /\ \A o \in Handlers : act'[o].stage # "idle" => act'[o].event \in Topics
    BY <1>1, <2>1, RestType, GotoType DEF FireErrorSpike
  <2>3. DOMAIN last' \subseteq Topics /\ \A e \in DOMAIN last' : last'[e] \in 0..now
    BY <1>1, <2>1, MarkedType DEF FireErrorSpike, TypeOK, Marked
  <2> QED
    BY <1>1, <2>2, <2>3 DEF FireErrorSpike, TypeOK, configVars, rateVars
<1>2. CASE Fire(h)
  <2>1. act[h].event \in Topics
    BY <1>2 DEF Fire, TypeOK
  <2>2. /\ act' \in [Handlers -> Doing]
        /\ \A o \in Handlers : act'[o].stage # "idle" => act'[o].event \in Topics
    BY <1>2, <2>1, RestType, GotoType DEF Fire
  <2>3. DOMAIN last' \subseteq Topics /\ \A e \in DOMAIN last' : last'[e] \in 0..now
    <3>1. last' = last \/ Marked(act[h].event)
      BY <1>2 DEF Fire, Marked
    <3>2. CASE last' = last
      BY <3>2, Zenon DEF TypeOK
    <3> QED
      BY <2>1, <3>1, <3>2, MarkedType
  <2>a. passed \in [Topics -> Int] /\ now \in Nat
    BY Zenon DEF TypeOK
  <2>b. \/ passed' = passed
        \/ passed' = [passed EXCEPT ![act[h].event] = now]
    BY <1>2 DEF Fire
  <2>4. passed' \in [Topics -> Int]
    BY <2>1, <2>a, <2>b
  <2> QED
    BY <1>2, <2>2, <2>3, <2>4 DEF Fire, TypeOK, configVars, rateVars
<1>3. CASE Send(h)
  <2>1. act[h].event \in Topics
    BY <1>3 DEF Send, TypeOK
  <2>2. /\ act' \in [Handlers -> Doing]
        /\ \A o \in Handlers : act'[o].stage # "idle" => act'[o].event \in Topics
    BY <1>3, RestType DEF Send
  <2>3. queue' \in Seq(Topics) /\ Len(queue') <= QueueCap
    <3>1. queue \in Seq(Topics) /\ Len(queue) <= QueueCap
      BY Zenon DEF TypeOK
    <3>2. queue' = IF Len(queue) < QueueCap THEN Append(queue, act[h].event) ELSE queue
      BY <1>3 DEF Send
    <3> QED
      BY <2>1, <3>1, <3>2
  <2>4. passed' \in [Topics -> Int]
    BY <1>3, <2>1 DEF Send, TypeOK
  <2> QED
    BY <1>3, <2>2, <2>3, <2>4 DEF Send, TypeOK, configVars, rateVars
<1>4. CASE \E e \in Events : Raise(h, e)
  <2> PICK e \in Events : Raise(h, e)
    BY <1>4
  <2>1. /\ act' \in [Handlers -> Doing]
        /\ \A o \in Handlers : act'[o].stage # "idle" => act'[o].event \in Topics
    BY GotoType DEF Raise, Topics
  <2>2. count' \in [{"requests", "raises", "saves", "restarts"} -> Nat]
    BY CountedType DEF Raise
  <2> QED
    BY <2>1, <2>2 DEF Raise, TypeOK, configVars, rateVars
<1> QED
  BY <1>1, <1>2, <1>3, <1>4

LEMMA RestartType == TypeOK /\ Restart => TypeOK'
<1> SUFFICES ASSUME TypeOK, Restart PROVE TypeOK'
  OBVIOUS
<1>1. Resting \in Doing /\ Resting.stage = "idle"
  BY DEF Resting, Doing, Topics
<1>2. Nothing \in [Topics -> Int]
  BY DEF Nothing, Never, Topics
<1>3. /\ act' \in [Handlers -> Doing]
      /\ \A h \in Handlers : act'[h].stage # "idle" => act'[h].event \in Topics
  BY <1>1 DEF Restart
<1>4. /\ DOMAIN last' \subseteq Topics /\ \A e \in DOMAIN last' : last'[e] \in 0..now
      /\ queue' \in Seq(Topics) /\ Len(queue') <= QueueCap
      /\ ewAt' \in Seq(0..now) /\ bad' \in Seq(0..now)
  BY DEF Restart
<1>5. count' \in [{"requests", "raises", "saves", "restarts"} -> Nat]
  BY CountedType DEF Restart
<1>6. saving' \in [Savers -> Configs \cup {Idle}] /\ passed' \in [Topics -> Int]
  BY <1>2 DEF Restart
<1> QED
  BY <1>3, <1>4, <1>5, <1>6 DEF Restart, TypeOK

LEMMA TypeStep == TypeOK /\ [Next]_vars => TypeOK'
<1> SUFFICES ASSUME TypeOK, [Next]_vars PROVE TypeOK'
  OBVIOUS
<1>1. CASE \E h \in Handlers, failed \in BOOLEAN : CheckErrorRate(h, failed)
  BY <1>1, CheckErrorRateType
<1>2. CASE \E h \in Handlers :
             FireErrorSpike(h) \/ Fire(h) \/ Send(h) \/ \E e \in Events : Raise(h, e)
  BY <1>2, RaisingType
<1>3. CASE Post
  <2>1. queue \in Seq(Topics) /\ queue # <<>> /\ Len(queue) <= QueueCap /\ queue' = Tail(queue)
    BY <1>3 DEF Post, TypeOK
  <2>2. queue' \in Seq(Topics) /\ Len(queue') = Len(queue) - 1 /\ Len(queue) \in Nat
    BY <2>1
  <2>3. Len(queue') <= QueueCap
    BY <2>1, <2>2
  <2> QED
    BY <1>3, <2>2, <2>3 DEF Post, TypeOK, configVars, rateVars
<1>4. CASE \E s \in Savers, c \in Configs : SaveRow(s, c)
  <2> PICK s \in Savers, c \in Configs : SaveRow(s, c)
    BY <1>4
  <2>1. count' \in [{"requests", "raises", "saves", "restarts"} -> Nat]
    BY CountedType DEF SaveRow
  <2>2. row' \in Configs /\ saving' \in [Savers -> Configs \cup {Idle}]
    BY DEF SaveRow, TypeOK
  <2>3. crossed' \in BOOLEAN
    BY DEF SaveRow
  <2>4. UNCHANGED <<now, cfg, rateVars, last, queue, act, passed>>
    BY DEF SaveRow
  <2> QED
    BY <2>1, <2>2, <2>3, <2>4 DEF TypeOK, rateVars
<1>5. CASE \E s \in Savers : SaveAssign(s)
  BY <1>5 DEF SaveAssign, TypeOK, rateVars
<1>6. CASE Restart
  BY <1>6, RestartType
<1>7. CASE Tick
  <2>1. now' = now + 1 /\ now \in Nat
    BY <1>7 DEF Tick, TypeOK
  <2>2. ewAt' \in Seq(0..now') /\ bad' \in Seq(0..now')
    BY <1>7, <2>1, LaterInstants DEF Tick, TypeOK, rateVars
  <2>3. DOMAIN last' \subseteq Topics /\ \A e \in DOMAIN last' : last'[e] \in 0..now'
    <3>1. DOMAIN last \subseteq Topics /\ \A e \in DOMAIN last : last[e] \in 0..now
      BY DEF TypeOK
    <3>2. last' = last
      BY <1>7 DEF Tick
    <3>3. 0..now \subseteq 0..now'
      BY <2>1
    <3> QED
      BY <3>1, <3>2, <3>3
  <2>4. /\ row' = row /\ cfg' = cfg /\ saving' = saving /\ crossed' = crossed
        /\ queue' = queue /\ act' = act /\ count' = count /\ passed' = passed
        /\ ewBad' = ewBad /\ aged' = aged /\ reset' = reset
    BY <1>7 DEF Tick, configVars, rateVars
  <2>5. now' \in Nat
    BY <2>1
  <2> QED
    BY <2>2, <2>3, <2>4, <2>5 DEF TypeOK
<1>8. CASE UNCHANGED vars
  BY <1>8 DEF vars, TypeOK
<1> QED
  BY <1>1, <1>2, <1>3, <1>4, <1>5, <1>6, <1>7, <1>8 DEF Next

\* The types of the dedupe map, the queue, the window and the configuration.
THEOREM TypeCorrect == Spec => []TypeOK
  BY TypeInit, TypeStep, PTL DEF Spec

-----------------------------------------------------------------------------
(* The configuration *)

\* Unless two saves have met, at most one is under way, and the table has its
\* configuration already; memory follows.
SavesSettle ==
  ~crossed =>
    \/ (\A s \in Savers : saving[s] = Idle) /\ cfg = row
    \/ \E s \in Savers : /\ saving[s] = row /\ saving[s] # Idle
                         /\ \A o \in Savers \ {s} : saving[o] = Idle

LEMMA SavesSettleStep == TypeOK /\ SavesSettle /\ [Next]_vars => SavesSettle'
<1> SUFFICES ASSUME TypeOK, SavesSettle, [Next]_vars PROVE SavesSettle'
  OBVIOUS
<1>1. ASSUME NEW s \in Savers, NEW c \in Configs, SaveRow(s, c) PROVE SavesSettle'
  <2>1. /\ saving' = [saving EXCEPT ![s] = c] /\ row' = c /\ c # Idle
        /\ crossed' = \E o \in Savers : saving[o] # Idle
    BY <1>1 DEF SaveRow
  <2>2. saving \in [Savers -> Configs \cup {Idle}]
    BY DEF TypeOK
  <2> QED
    BY <2>1, <2>2 DEF SavesSettle
<1>2. ASSUME NEW s \in Savers, SaveAssign(s) PROVE SavesSettle'
  <2>1. /\ saving[s] # Idle /\ cfg' = saving[s] /\ saving' = [saving EXCEPT ![s] = Idle]
        /\ row' = row /\ crossed' = crossed
    BY <1>2 DEF SaveAssign
  <2>2. saving \in [Savers -> Configs \cup {Idle}]
    BY DEF TypeOK
  <2> QED
    BY <2>1, <2>2 DEF SavesSettle
<1>3. CASE Restart
  BY <1>3 DEF Restart, SavesSettle
<1>4. CASE UNCHANGED configVars
  BY <1>4 DEF configVars, SavesSettle
<1>5. \/ \E s \in Savers, c \in Configs : SaveRow(s, c)
      \/ \E s \in Savers : SaveAssign(s)
      \/ Restart \/ UNCHANGED configVars
  BY DEF Next, vars, configVars, CheckErrorRate, Raise, FireErrorSpike, Fire, Send, Post, Tick
<1> QED
  BY <1>1, <1>2, <1>3, <1>4, <1>5

\* Save (alerts.go:113) leaves memory and table with the same configuration
\* whenever no other save was under way when it began.
THEOREM ConfigAlwaysSettled == Spec => []ConfigSettled
<1>1. Init => SavesSettle
  BY DEF Init, SavesSettle
<1>2. SavesSettle => ConfigSettled
  BY DEF SavesSettle, ConfigSettled
<1> QED
  BY <1>1, <1>2, TypeInit, TypeStep, SavesSettleStep, PTL DEF Spec

-----------------------------------------------------------------------------
(* Silence *)

\* A handler that is past the marking of an event and will queue or drop it.
OnItsWay(h, e) ==
  /\ act[h].event = e
  /\ act[h].stage = "send" \/ (e = Spike /\ act[h].stage = "fire")

MarksEarned ==
  \A e \in DOMAIN last : passed[e] >= last[e] \/ \E h \in Handlers : OnItsWay(h, e)

\* A handler that is not on its way with any event does not matter.
LEMMA OthersOnTheirWay ==
  ASSUME TypeOK, MarksEarned, NEW h \in Handlers, NEW next, act' = [act EXCEPT ![h] = next],
         \A e \in Topics : ~OnItsWay(h, e), last' = last, passed' = passed
  PROVE  MarksEarned'
<1> SUFFICES ASSUME NEW e \in DOMAIN last, ~(passed[e] >= last[e])
             PROVE  \E o \in Handlers : OnItsWay(o, e)'
  BY DEF MarksEarned
<1>1. PICK o \in Handlers : OnItsWay(o, e)
  BY DEF MarksEarned
<1>2. o # h /\ act \in [Handlers -> Doing]
  BY <1>1 DEF TypeOK
<1>3. act'[o] = act[o]
  BY <1>2
<1> QED
  BY <1>1, <1>3 DEF OnItsWay

\* A handler that marks an event, or that has queued or dropped it, at this moment.
LEMMA MarkedOrPassed ==
  ASSUME TypeOK, MarksEarned, NEW h \in Handlers, NEW e \in Topics,
         NEW next \in Doing, act' = [act EXCEPT ![h] = next],
         \A x \in Topics \ {e} : ~OnItsWay(h, x),
         last' = last \/ Marked(e),
         \A x \in Topics \ {e} : passed'[x] = passed[x],
         passed'[e] = now \/ OnItsWay(h, e)'
  PROVE  MarksEarned'
<1> SUFFICES ASSUME NEW x \in DOMAIN last'
             PROVE  passed'[x] >= last'[x] \/ \E o \in Handlers : OnItsWay(o, x)'
  BY DEF MarksEarned
<1>1. now \in Nat /\ DOMAIN last \subseteq Topics /\ \A y \in DOMAIN last : last[y] \in 0..now
  BY DEF TypeOK
<1>2. x \in DOMAIN last \cup {e} /\ (x # e => last'[x] = last[x])
  <2>1. CASE last' = last
    BY <2>1
  <2>2. CASE Marked(e)
    <3>1. x \in DOMAIN Put(last, e, now) /\ last'[x] = Put(last, e, now)[x]
      BY <2>2, PrunedKeeps DEF Marked
    <3> QED
      BY <3>1 DEF Put
  <2> QED
    BY <2>1, <2>2
<1>3. CASE x = e
  <2>1. last'[e] \in 0..now
    BY <1>1, <1>3, MarkedType
  <2> QED
    BY <1>1, <1>3, <2>1
<1>4. CASE x # e
  <2>1. x \in DOMAIN last /\ x \in Topics /\ passed'[x] = passed[x] /\ last'[x] = last[x]
    BY <1>1, <1>2, <1>4
  <2>2. CASE passed[x] >= last[x]
    BY <2>1, <2>2
  <2>3. CASE \E o \in Handlers : OnItsWay(o, x)
    <3>1. PICK o \in Handlers : OnItsWay(o, x)
      BY <2>3
    <3>2. o # h /\ act \in [Handlers -> Doing]
      BY <2>1, <3>1, <1>4 DEF TypeOK
    <3>3. act'[o] = act[o]
      BY <3>2
    <3>4. OnItsWay(o, x)'
      BY <3>1, <3>3 DEF OnItsWay
    <3> QED
      BY <3>4
  <2> QED
    BY <2>1, <2>2, <2>3 DEF MarksEarned
<1> QED
  BY <1>3, <1>4

LEMMA FireEarned ==
  ASSUME TypeOK, MarksEarned, NEW h \in Handlers, Fire(h)
  PROVE  MarksEarned'
<1> PICK e \in Topics : e = act[h].event
  BY DEF Fire, TypeOK
<1>1. act[h].event = e /\ act[h].stage = "fire" /\ passed \in [Topics -> Int]
  BY DEF Fire, TypeOK
<1>2. Resting \in Doing
  BY DEF Resting, Doing, Topics
<1>3. \A x \in Topics \ {e} : ~OnItsWay(h, x) /\ passed'[x] = passed[x]
  BY <1>1 DEF Fire, OnItsWay
<1>4. CASE ~cfg.enabled \/ (e # Spike /\ Recent(e, cfg.cool))
  <2>1. act' = [act EXCEPT ![h] = Resting] /\ last' = last
    BY <1>1, <1>4 DEF Fire, Rest
  <2>2. CASE e = Spike
    <3>1. passed'[e] = now
      BY <1>1, <1>4, <2>2 DEF Fire
    <3> QED
      BY <1>1, <1>2, <1>3, <2>1, <3>1, MarkedOrPassed
  <2>3. CASE e # Spike
    <3>1. passed' = passed /\ ~OnItsWay(h, e)
      BY <1>1, <2>3 DEF Fire, OnItsWay
    <3> QED
      BY <1>3, <2>1, <3>1, OthersOnTheirWay
  <2> QED
    BY <2>2, <2>3
<1>5. CASE ~(~cfg.enabled \/ (e # Spike /\ Recent(e, cfg.cool)))
  <2> DEFINE next == [Resting EXCEPT !.stage = "send", !.event = e]
  <2>1. act' = [act EXCEPT ![h] = next] /\ (last' = last \/ Marked(e))
    BY <1>1, <1>5 DEF Fire, Goto, Marked
  <2>2. next \in Doing /\ next.event = e /\ next.stage = "send"
    BY DEF Resting, Doing
  <2>3. act'[h] = next
    BY <2>1 DEF TypeOK
  <2>4. act'[h].event = e /\ act'[h].stage = "send"
    BY <2>2, <2>3
  <2> HIDE DEF next
  <2>5. OnItsWay(h, e)'
    BY <2>4 DEF OnItsWay
  <2> QED
    BY <1>1, <1>3, <2>1, <2>2, <2>5, MarkedOrPassed
<1> QED
  BY <1>4, <1>5

LEMMA MarksEarnedStep == TypeOK /\ MarksEarned /\ [Next]_vars => MarksEarned'
<1> SUFFICES ASSUME TypeOK, MarksEarned, [Next]_vars PROVE MarksEarned'
  OBVIOUS
<1>0. Resting \in Doing
  BY DEF Resting, Doing, Topics
<1>1. ASSUME NEW h \in Handlers, NEW failed \in BOOLEAN, CheckErrorRate(h, failed)
      PROVE  MarksEarned'
  <2>1. \A e \in Topics : ~OnItsWay(h, e)
    BY <1>1 DEF CheckErrorRate, OnItsWay
  <2>2. last' = last /\ passed' = passed
    BY <1>1 DEF CheckErrorRate
  <2>3. act' = act \/ \E next : act' = [act EXCEPT ![h] = next]
    BY <1>1 DEF CheckErrorRate
  <2>4. CASE act' = act
    BY <2>2, <2>4 DEF MarksEarned, OnItsWay
  <2> QED
    BY <2>1, <2>2, <2>3, <2>4, OthersOnTheirWay
<1>2. ASSUME NEW h \in Handlers, NEW e \in Events, Raise(h, e) PROVE MarksEarned'
  <2>1. \A x \in Topics : ~OnItsWay(h, x)
    BY <1>2 DEF Raise, OnItsWay
  <2>2. last' = last /\ passed' = passed /\ \E next : act' = [act EXCEPT ![h] = next]
    BY <1>2 DEF Raise, Goto
  <2> QED
    BY <2>1, <2>2, OthersOnTheirWay
<1>3. ASSUME NEW h \in Handlers, FireErrorSpike(h) PROVE MarksEarned'
  <2>1. \A x \in Topics : ~OnItsWay(h, x)
    BY <1>3 DEF FireErrorSpike, OnItsWay
  <2>2. passed' = passed
    BY <1>3 DEF FireErrorSpike
  <2>3. CASE last' = last /\ Rest(h)
    BY <2>1, <2>2, <2>3, OthersOnTheirWay DEF Rest
  <2>4. CASE Goto(h, "fire", Spike) /\ last' = Put(last, Spike, now)
    <3> DEFINE next == [Resting EXCEPT !.stage = "fire", !.event = Spike]
    <3>1. act' = [act EXCEPT ![h] = next]
      BY <2>4 DEF Goto
    <3>2. next \in Doing /\ next.event = Spike /\ next.stage = "fire" /\ Spike \in Topics
      BY DEF Resting, Doing, Topics
    <3>3. act'[h] = next
      BY <3>1 DEF TypeOK
    <3> HIDE DEF next
    <3>4. OnItsWay(h, Spike)'
      BY <3>2, <3>3 DEF OnItsWay
    <3>5. Marked(Spike)
      BY <2>4 DEF Marked
    <3> QED
      BY <2>1, <2>2, <3>1, <3>2, <3>4, <3>5, MarkedOrPassed
  <2> QED
    BY <1>3, <2>3, <2>4 DEF FireErrorSpike
<1>4. ASSUME NEW h \in Handlers, Fire(h) PROVE MarksEarned'
  BY <1>4, FireEarned
<1>5. ASSUME NEW h \in Handlers, Send(h) PROVE MarksEarned'
  <2> PICK e \in Topics : e = act[h].event
    BY <1>5 DEF Send, TypeOK
  <2>1. /\ act[h].event = e /\ act[h].stage = "send" /\ passed \in [Topics -> Int]
    BY <1>5 DEF Send, TypeOK
  <2>2. \A x \in Topics \ {e} : ~OnItsWay(h, x) /\ passed'[x] = passed[x]
    BY <1>5, <2>1 DEF Send, OnItsWay
  <2>3. passed'[e] = now /\ last' = last /\ act' = [act EXCEPT ![h] = Resting]
    BY <1>5, <2>1 DEF Send, Rest
  <2> QED
    BY <1>0, <2>1, <2>2, <2>3, MarkedOrPassed
<1>6. CASE Restart
  BY <1>6 DEF Restart, MarksEarned
<1>7. CASE UNCHANGED <<last, act, passed>>
  BY <1>7 DEF MarksEarned, OnItsWay
<1>8. \/ \E h \in Handlers, failed \in BOOLEAN : CheckErrorRate(h, failed)
      \/ \E h \in Handlers, e \in Events : Raise(h, e)
      \/ \E h \in Handlers : FireErrorSpike(h) \/ Fire(h) \/ Send(h)
      \/ Restart \/ UNCHANGED <<last, act, passed>>
  BY DEF Next, vars, Post, SaveRow, SaveAssign, Tick
<1> QED
  BY <1>1, <1>2, <1>3, <1>4, <1>5, <1>6, <1>7, <1>8

\* Whatever silences an event (fire, fireErrorSpike) was queued itself, or
\* found the queue full, or, for a spike, was dropped as alerts were off.
THEOREM SilenceAlwaysEarned == Spec => []SilenceEarned
<1>1. Init => MarksEarned
  BY DEF Init, MarksEarned
<1>2. MarksEarned => SilenceEarned
  BY DEF MarksEarned, SilenceEarned, OnItsWay
<1> QED
  BY <1>1, <1>2, TypeInit, TypeStep, MarksEarnedStep, PTL DEF Spec

-----------------------------------------------------------------------------
(* The error rate *)

LEMMA CheckErrorRateHonest ==
  ASSUME TypeOK, ErrorRateHonest, NEW h \in Handlers, NEW failed \in BOOLEAN,
         CheckErrorRate(h, failed)
  PROVE  ErrorRateHonest'
<1> DEFINE at == Append(Inside(ewAt), now)
           one == IF failed THEN 1 ELSE 0
           fails == ewBad + one
           over == fails > Len(at)
           counted == IF over THEN 0 ELSE fails
           real == Inside(bad) \o IF failed THEN <<now>> ELSE <<>>
           left == Len(Inside(bad)) < Len(bad)
           spike == [stage |-> "spike", event |-> Spike, fails |-> counted,
                     total |-> Len(at), truth |-> Len(real), sure |-> ~(~over /\ (aged \/ left))]
<1>1. /\ Inside(ewAt) \in Seq(0..now) /\ Inside(bad) \in Seq(0..now)
      /\ Len(Inside(bad)) \in 0..Len(bad)
  BY InsideType DEF TypeOK
<1>2. Len(real) = Len(Inside(bad)) + one
  <2>1. Len(IF failed THEN <<now>> ELSE <<>>) = one
    OBVIOUS
  <2>2. (IF failed THEN <<now>> ELSE <<>>) \in Seq({now})
    BY OneOrNone
  <2> QED
    BY <1>1, <2>1, <2>2
<1>3. Len(at) \in Nat /\ Len(bad) \in Nat /\ ewBad \in Nat /\ one \in 0..1
  <2>1. now \in 0..now /\ bad \in Seq(0..now) /\ ewBad \in Nat
    BY DEF TypeOK
  <2>2. at \in Seq(0..now)
    BY <1>1, <2>1
  <2> HIDE DEF at
  <2> QED
    BY <2>1, <2>2
<1>4. /\ ewAt' = at /\ bad' = real /\ ewBad' = counted
      /\ aged' = (~over /\ (aged \/ left)) /\ reset' = (reset \/ over)
  BY DEF CheckErrorRate
<1>5. act' = act \/ (act' = [act EXCEPT ![h] = spike] /\ 2 * counted >= Len(at))
  BY DEF CheckErrorRate
<1>6. (aged \/ ewBad <= Len(bad)) /\ (reset \/ ewBad >= Len(bad))
  BY DEF ErrorRateHonest
<1>7. aged \in BOOLEAN /\ reset \in BOOLEAN
  BY DEF TypeOK
<1> HIDE DEF at, real, one
<1>8. counted <= Len(at)
  BY <1>3
<1>9. (~over /\ (aged \/ left)) \/ counted <= Len(real)
  BY <1>1, <1>2, <1>3, <1>6
<1>10. reset \/ over \/ counted >= Len(real)
  BY <1>1, <1>2, <1>3, <1>6
<1>11. \A o \in Handlers : act'[o].stage = "spike" =>
          /\ act'[o].fails <= act'[o].total
          /\ act'[o].sure => 2 * act'[o].truth >= act'[o].total
  <2>1. CASE act' = act
    BY <2>1 DEF ErrorRateHonest
  <2>2. CASE act' = [act EXCEPT ![h] = spike] /\ 2 * counted >= Len(at)
    <3>1. Len(real) \in Nat /\ counted \in Nat
      BY <1>1, <1>2, <1>3
    <3>2. ~(~over /\ (aged \/ left)) => 2 * Len(real) >= Len(at)
      BY <1>3, <1>9, <2>2, <3>1
    <3>3. /\ spike.fails <= spike.total
          /\ spike.sure => 2 * spike.truth >= spike.total
      BY <1>8, <3>2
    <3> HIDE DEF spike
    <3>4. \A o \in Handlers : act'[o] = spike \/ act'[o] = act[o]
      BY <2>2 DEF TypeOK
    <3> QED
      BY <3>3, <3>4 DEF ErrorRateHonest
  <2> QED
    BY <1>5, <2>1, <2>2
<1> HIDE DEF counted, over, left, fails
<1> QED
  BY <1>4, <1>8, <1>9, <1>10, <1>11 DEF ErrorRateHonest

\* A step that raises no spike and leaves the window alone.
LEMMA NoNewSpike ==
  ASSUME TypeOK, ErrorRateHonest, UNCHANGED rateVars,
         \A o \in Handlers : act'[o] = act[o] \/ act'[o].stage # "spike"
  PROVE  ErrorRateHonest'
  BY DEF ErrorRateHonest, rateVars

LEMMA ErrorRateStep == TypeOK /\ ErrorRateHonest /\ [Next]_vars => ErrorRateHonest'
<1> SUFFICES ASSUME TypeOK, ErrorRateHonest, [Next]_vars PROVE ErrorRateHonest'
  OBVIOUS
<1>1. CASE \E h \in Handlers, failed \in BOOLEAN : CheckErrorRate(h, failed)
  BY <1>1, CheckErrorRateHonest
<1>2. ASSUME NEW h \in Handlers,
             FireErrorSpike(h) \/ Fire(h) \/ Send(h) \/ \E e \in Events : Raise(h, e)
      PROVE  ErrorRateHonest'
  <2>1. UNCHANGED rateVars
    BY <1>2 DEF FireErrorSpike, Fire, Send, Raise
  <2>2. Rest(h) \/ \E stage \in {"fire", "send"}, e \in Topics : Goto(h, stage, e)
    BY <1>2 DEF FireErrorSpike, Fire, Send, Raise, TypeOK, Topics
  <2>3. \E next : act' = [act EXCEPT ![h] = next] /\ next.stage # "spike"
    <3>1. Resting.stage # "spike"
      BY DEF Resting
    <3>2. \A stage \in {"fire", "send"}, e \in Topics :
             [Resting EXCEPT !.stage = stage, !.event = e].stage # "spike"
      BY DEF Resting
    <3> QED
      BY <2>2, <3>1, <3>2 DEF Rest, Goto
  <2>4. \A o \in Handlers : act'[o] = act[o] \/ act'[o].stage # "spike"
    BY <2>3 DEF TypeOK
  <2> QED
    BY <2>1, <2>4, NoNewSpike
<1>3. CASE Restart
  <2>1. ewAt' = <<>> /\ ewBad' = 0 /\ bad' = <<>>
    BY <1>3 DEF Restart
  <2>2. \A o \in Handlers : act'[o].stage = "idle"
    BY <1>3 DEF Restart, Resting
  <2> QED
    BY <2>1, <2>2 DEF ErrorRateHonest
<1>4. CASE UNCHANGED <<rateVars, act>>
  BY <1>4, NoNewSpike
<1>5. \/ \E h \in Handlers, failed \in BOOLEAN : CheckErrorRate(h, failed)
      \/ \E h \in Handlers :
           FireErrorSpike(h) \/ Fire(h) \/ Send(h) \/ \E e \in Events : Raise(h, e)
      \/ Restart \/ UNCHANGED <<rateVars, act>>
  BY DEF Next, vars, rateVars, Post, SaveRow, SaveAssign, Tick
<1> QED
  BY <1>1, <1>2, <1>3, <1>4, <1>5

\* The counter of checkErrorRate (proxy.go:866) stays between what is in the
\* window and what was, and no alert names more failures than requests.
THEOREM ErrorRateAlwaysHonest == Spec => []ErrorRateHonest
<1>1. Init => ErrorRateHonest
  BY DEF Init, ErrorRateHonest, Resting
<1> QED
  BY <1>1, TypeInit, TypeStep, ErrorRateStep, PTL DEF Spec
=============================================================================
