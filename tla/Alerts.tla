-------------------------------- MODULE Alerts --------------------------------
(***************************************************************************)
(* Alerts (internal/api/alerts.go) and the error rate that raises one of   *)
(* them (checkErrorRate in internal/api/proxy.go).                         *)
(*                                                                         *)
(* Handlers raise events: an event that is like one raised shortly before  *)
(* is dropped, the others go into a queue of limited length, from which    *)
(* one goroutine posts them.  The configuration is kept in memory and in   *)
(* the settings table; the console saves it.  The steps of a handler are   *)
(* those between which it holds no lock.                                   *)
(***************************************************************************)
EXTENDS Integers, Sequences, FiniteSets, InPlaceFilter

CONSTANTS
  Handlers,    \* goroutines that raise events
  Savers,      \* handlers of the console that save the configuration
  Events,      \* dedupe keys: a budget's window, a key's cooldown, a low balance
  Spike,       \* the dedupe key of the error spike
  Configs,     \* configurations: [enabled, cool]
  Idle,        \* nobody, nothing
  QueueCap,    \* 64
  Window,      \* 5 minutes
  MinTotal,    \* 10 requests, below which the rate is not looked at
  SpikeCool,   \* 30 minutes
  DedupeCap,   \* 4096 entries of the dedupe map, above which old ones are removed
  DedupeAge,   \* 24 hours, above which an entry is old
  MaxClock, MaxRequests, MaxRaises, MaxSaves, MaxRestarts  \* bounds

ASSUME AlertsAssumption ==
  /\ Spike \notin Events /\ Idle \notin Events \cup {Spike} \cup Configs
  /\ Configs \subseteq [enabled : BOOLEAN, cool : Nat \ {0}]
  /\ {QueueCap, Window, MinTotal, SpikeCool, DedupeCap, DedupeAge} \subseteq Nat \ {0}
  /\ {MaxClock, MaxRequests, MaxRaises, MaxSaves, MaxRestarts} \subseteq Nat

Topics == Events \cup {Spike}

\* What newAlertManager starts with when the settings table has no row.
Default == [enabled |-> FALSE, cool |-> 10]

VARIABLES
  now,      \* the clock
  row,      \* the configuration in the settings table
  cfg,      \* the configuration in memory
  saving,   \* saving[s]: the configuration a saver has written and not yet assigned
  last,     \* dedupe key -> when an event of it was let through
  queue,    \* ch
  act,      \* act[h]: what a handler is about to do
  ewAt,     \* when the requests of the window ended
  ewBad,    \* how many of them have failed, as the code counts
  count,    \* for the bounds
  bad,      \* history: when the requests of the window ended that failed
  aged,     \* history: a failure has left the window since ewBad was zero
  reset,    \* history: ewBad was set back to zero
  crossed,  \* history: a save began while another was under way
  passed    \* history: dedupe key -> when an event was queued last, or dropped
            \* for another reason than an earlier one

vars == <<now, row, cfg, saving, last, queue, act, ewAt, ewBad, count, bad, aged,
          reset, crossed, passed>>
configVars == <<row, cfg, saving, crossed>>
rateVars == <<ewAt, ewBad, bad, aged, reset>>

Resting == [stage |-> "idle", event |-> Idle, fails |-> 0, total |-> 0,
            truth |-> 0, sure |-> TRUE]
Never == -SpikeCool
Nothing == [e \in Topics |-> Never]

Doing ==
  [stage : {"idle", "spike", "fire", "send"}, event : Topics \cup {Idle},
   fails : Nat, total : Nat, truth : Nat, sure : BOOLEAN]

TypeOK ==
  /\ now \in Nat
  /\ row \in Configs \cup {Default} /\ cfg \in Configs \cup {Default}
  /\ saving \in [Savers -> Configs \cup {Idle}]
  /\ DOMAIN last \subseteq Topics /\ \A e \in DOMAIN last : last[e] \in 0..now
  /\ queue \in Seq(Topics) /\ Len(queue) <= QueueCap
  /\ act \in [Handlers -> Doing]
  /\ \A h \in Handlers : act[h].stage # "idle" => act[h].event \in Topics
  /\ ewAt \in Seq(0..now) /\ ewBad \in Nat /\ bad \in Seq(0..now)
  /\ count \in [{"requests", "raises", "saves", "restarts"} -> Nat]
  /\ {aged, reset, crossed} \subseteq BOOLEAN
  /\ passed \in [Topics -> Int]

\* reload, with the table as it is left by the process before.
Init ==
  /\ now = 0
  /\ row = Default /\ cfg = Default
  /\ saving = [s \in Savers |-> Idle]
  /\ last = <<>> /\ passed = Nothing
  /\ queue = <<>>
  /\ act = [h \in Handlers |-> Resting]
  /\ ewAt = <<>> /\ ewBad = 0 /\ bad = <<>>
  /\ count = [requests |-> 0, raises |-> 0, saves |-> 0, restarts |-> 0]
  /\ aged = FALSE /\ reset = FALSE /\ crossed = FALSE

Counted(what) == count' = [count EXCEPT ![what] = @ + 1]
Put(f, e, t) == [x \in DOMAIN f \cup {e} |-> IF x = e THEN t ELSE f[x]]

-----------------------------------------------------------------------------
(* The error rate *)

Inside(times) == Filtered(times, {i \in DOMAIN times : times[i] > now - Window})

\* Mutant of CheckErrorRate: the guard is missing.
CheckErrorRateUnguarded(h, failed) ==
  LET at == Append(Inside(ewAt), now)
      fails == ewBad + IF failed THEN 1 ELSE 0
      real == Inside(bad) \o IF failed THEN <<now>> ELSE <<>>
  IN
  /\ act[h].stage = "idle" /\ count.requests < MaxRequests
  /\ ewAt' = at /\ ewBad' = fails /\ bad' = real
  /\ aged' = (aged \/ Len(Inside(bad)) < Len(bad))
  /\ act' = IF Len(at) >= MinTotal /\ 2 * fails >= Len(at)
            THEN [act EXCEPT ![h] = [stage |-> "spike", event |-> Spike, fails |-> fails,
                                     total |-> Len(at), truth |-> Len(real), sure |-> ~aged']]
            ELSE act
  /\ Counted("requests")
  /\ UNCHANGED <<now, configVars, last, queue, reset, passed>>

\* A request ends, as a failure of the upstream (5xx) or not.  The times of the
\* requests are pruned, the failures are only counted; when they are more than
\* the requests, counting starts again.
CheckErrorRate(h, failed) ==
  LET at == Append(Inside(ewAt), now)
      fails == ewBad + IF failed THEN 1 ELSE 0
      over == fails > Len(at)
      counted == IF over THEN 0 ELSE fails
      real == Inside(bad) \o IF failed THEN <<now>> ELSE <<>>
  IN
  /\ act[h].stage = "idle" /\ count.requests < MaxRequests
  /\ ewAt' = at /\ ewBad' = counted /\ bad' = real
  /\ aged' = (~over /\ (aged \/ Len(Inside(bad)) < Len(bad)))
  /\ reset' = (reset \/ over)
  /\ act' = IF Len(at) >= MinTotal /\ 2 * counted >= Len(at)
            THEN [act EXCEPT ![h] = [stage |-> "spike", event |-> Spike, fails |-> counted,
                                     total |-> Len(at), truth |-> Len(real), sure |-> ~aged']]
            ELSE act
  /\ Counted("requests")
  /\ UNCHANGED <<now, configVars, last, queue, passed>>

-----------------------------------------------------------------------------
(* Raising an event *)

Rest(h) == act' = [act EXCEPT ![h] = Resting]
Goto(h, stage, e) == act' = [act EXCEPT ![h] = [Resting EXCEPT !.stage = stage, !.event = e]]

\* The dedupe map, without its old entries when it has grown too large.
Pruned(f) ==
  IF Cardinality(DOMAIN f) <= DedupeCap THEN f
  ELSE [x \in {y \in DOMAIN f : now - f[y] <= DedupeAge} |-> f[x]]

Recent(e, cool) == e \in DOMAIN last /\ now - last[e] < cool

\* fireBudget, fireKeyCooldown or fireBalance.
Raise(h, e) ==
  /\ act[h].stage = "idle" /\ count.raises < MaxRaises
  /\ Goto(h, "fire", e)
  /\ Counted("raises")
  /\ UNCHANGED <<now, configVars, rateVars, last, queue, passed>>

\* fireErrorSpike: the event is marked before fire looks whether alerts are on,
\* and the map is not pruned.
FireErrorSpike(h) ==
  /\ act[h].stage = "spike"
  /\ IF Recent(Spike, SpikeCool)
     THEN Rest(h) /\ UNCHANGED last
     ELSE Goto(h, "fire", Spike) /\ last' = Put(last, Spike, now)
  /\ UNCHANGED <<now, configVars, rateVars, queue, count, passed>>

\* Mutant of Fire: the event is marked before the look whether alerts are on.
FireMarked(h) ==
  LET e == act[h].event IN
  /\ act[h].stage = "fire"
  /\ IF e # Spike /\ Recent(e, cfg.cool)
     THEN Rest(h) /\ UNCHANGED last
     ELSE /\ IF cfg.enabled THEN Goto(h, "send", e) ELSE Rest(h)
          /\ last' = IF e = Spike THEN last ELSE Pruned(Put(last, e, now))
  /\ passed' = IF e = Spike /\ ~cfg.enabled THEN [passed EXCEPT ![e] = now] ELSE passed
  /\ UNCHANGED <<now, configVars, rateVars, queue, count>>

\* fire, up to the release of the lock; the spike comes without a dedupe key.
Fire(h) ==
  LET e == act[h].event IN
  /\ act[h].stage = "fire"
  /\ IF ~cfg.enabled \/ (e # Spike /\ Recent(e, cfg.cool))
     THEN Rest(h) /\ UNCHANGED last
     ELSE /\ Goto(h, "send", e)
          /\ last' = IF e = Spike THEN last ELSE Pruned(Put(last, e, now))
  /\ passed' = IF e = Spike /\ ~cfg.enabled THEN [passed EXCEPT ![e] = now] ELSE passed
  /\ UNCHANGED <<now, configVars, rateVars, queue, count>>

\* The rest of fire: an event that finds the queue full is dropped.
Send(h) ==
  LET e == act[h].event IN
  /\ act[h].stage = "send"
  /\ queue' = IF Len(queue) < QueueCap THEN Append(queue, e) ELSE queue
  /\ passed' = [passed EXCEPT ![e] = now]
  /\ Rest(h)
  /\ UNCHANGED <<now, configVars, rateVars, last, count>>

\* loop and post: with the configuration of this moment, and once; that the
\* webhook fails is only logged.
Post ==
  /\ queue # <<>>
  /\ queue' = Tail(queue)
  /\ UNCHANGED <<now, configVars, rateVars, last, act, count, passed>>

-----------------------------------------------------------------------------
(* The configuration *)

\* Mutant of SaveRow: the error of a write that fails is not looked at.
SaveRowUnseen(s, c) ==
  /\ saving[s] = Idle /\ count.saves < MaxSaves
  /\ row' \in {row, c}
  /\ saving' = [saving EXCEPT ![s] = c]
  /\ crossed' = \E o \in Savers : saving[o] # Idle
  /\ Counted("saves")
  /\ UNCHANGED <<now, cfg, rateVars, last, queue, act, passed>>

\* Save: the table first, and memory only when that has worked.
SaveRow(s, c) ==
  /\ saving[s] = Idle /\ count.saves < MaxSaves
  /\ row' = c
  /\ saving' = [saving EXCEPT ![s] = c]
  /\ crossed' = \E o \in Savers : saving[o] # Idle
  /\ Counted("saves")
  /\ UNCHANGED <<now, cfg, rateVars, last, queue, act, passed>>

SaveAssign(s) ==
  /\ saving[s] # Idle
  /\ cfg' = saving[s]
  /\ saving' = [saving EXCEPT ![s] = Idle]
  /\ UNCHANGED <<now, row, crossed, rateVars, last, queue, act, count, passed>>

-----------------------------------------------------------------------------

\* The process ends at any moment, and starts with what the table says.
Restart ==
  /\ count.restarts < MaxRestarts
  /\ cfg' = row
  /\ saving' = [s \in Savers |-> Idle]
  /\ last' = <<>> /\ passed' = Nothing /\ queue' = <<>>
  /\ act' = [h \in Handlers |-> Resting]
  /\ ewAt' = <<>> /\ ewBad' = 0 /\ bad' = <<>>
  /\ aged' = FALSE /\ reset' = FALSE /\ crossed' = FALSE
  /\ Counted("restarts")
  /\ UNCHANGED <<now, row>>

Tick ==
  /\ now < MaxClock
  /\ now' = now + 1
  /\ UNCHANGED <<configVars, rateVars, last, queue, act, count, passed>>

Next ==
  \/ \E h \in Handlers, failed \in BOOLEAN : CheckErrorRate(h, failed)
  \/ \E h \in Handlers, e \in Events : Raise(h, e)
  \/ \E h \in Handlers : FireErrorSpike(h)
  \/ \E h \in Handlers : Fire(h)
  \/ \E h \in Handlers : Send(h)
  \/ Post
  \/ \E s \in Savers, c \in Configs : SaveRow(s, c)
  \/ \E s \in Savers : SaveAssign(s)
  \/ Restart
  \/ Tick

Spec == Init /\ [][Next]_vars

-----------------------------------------------------------------------------
(* Properties *)

\* The configuration that alerts follow is the one that a restart would bring
\* back, unless two saves were under way at once (alerts.go:113).
ConfigSettled == (\A s \in Savers : saving[s] = Idle) /\ ~crossed => cfg = row

\* An event is silenced only by an earlier one that went into the queue (or
\* found it full: alerts.go:152), or is on its way there.  The error spike may
\* also be silenced by one that was dropped because alerts were off.
SilenceEarned ==
  \A e \in DOMAIN last :
    passed[e] >= last[e] \/ \E h \in Handlers : act[h].event = e /\ act[h].stage # "spike"

\* The count of failures is never above that of requests.  It is above that of
\* failures in the window only when some have left it since counting began,
\* and below it only after counting has started again (proxy.go:866).  So a
\* spike is raised when at least half of the requests have failed, with the
\* first exception; the alert never names more failures than requests.
ErrorRateHonest ==
  /\ ewBad <= Len(ewAt)
  /\ aged \/ ewBad <= Len(bad)
  /\ reset \/ ewBad >= Len(bad)
  /\ \A h \in Handlers : act[h].stage = "spike" =>
       /\ act[h].fails <= act[h].total
       /\ act[h].sure => 2 * act[h].truth >= act[h].total
=============================================================================
