------------------------------ MODULE KeyHealth ------------------------------
(***************************************************************************)
(* Health of upstream keys (internal/api/keyhealth.go).  Handlers and the  *)
(* background prober report the outcome of what they sent with a key.  A   *)
(* run of failures puts the key into a cooldown that doubles up to a       *)
(* maximum; one success ends the run and the cooldown.                     *)
(*                                                                         *)
(* The counters live in memory under keyHealthManager.mu.  Whoever changed *)
(* a cooldown then saves all of them: saveSnapshot takes the lock again to *)
(* copy the cooldowns that have not expired, and writes the copy to the    *)
(* settings table after it has released the lock.  Changing, copying and   *)
(* writing are three steps here, and other goroutines or a crash may come  *)
(* between them; a reporter goes on only after its own write.              *)
(*                                                                         *)
(* A tick is any stretch of time, also one that lets several cooldowns     *)
(* expire; the truncation of a saved instant to a second is left out.      *)
(***************************************************************************)
EXTENDS Integers, FiniteSets

CONSTANTS
  Keys,           \* upstream keys, named channel/key by khKey
  Reporters,      \* goroutines that report outcomes
  Prober,         \* the one of them that StartKeyHealthChecker runs
  Base,           \* keyCooldownBase
  MaxCool,        \* keyCooldownMax
  Threshold,      \* keyFailThreshold
  MaxClock,       \* bound: last instant of the clock
  MaxReports,     \* bound: failures reported
  MaxChanges,     \* bound: changes of the upstreams and of the switches
  MaxRestarts,    \* bound: crashes followed by a restart
  MaxWriteErrors  \* bound: writes of the snapshot that fail

ASSUME KeyHealthAssumption ==
  /\ Prober \in Reporters
  /\ Base \in Nat \ {0} /\ MaxCool \in Nat \ {0} /\ Threshold \in Nat \ {0}
  /\ MaxClock \in Nat /\ MaxReports \in Nat /\ MaxChanges \in Nat
  /\ MaxRestarts \in Nat /\ MaxWriteErrors \in Nat
\* A fact of arithmetic that the provers cannot derive (it needs induction).
ASSUME PowersPositive == \A n \in 0..MaxReports : 2 ^ n \in Nat \ {0}

VARIABLES
  clock,     \* the wall clock
  fails,     \* fails[k]: failures in a row (keyHealthManager.fails)
  until,     \* until[k]: end of the cooldown (keyHealthManager.until)
  save,      \* save[p]: how far p is with saveSnapshot, and its copy
  setting,   \* the row key_cooldowns of the settings table
  probe,     \* the prober: the keys it has listed and still has to try
  enabled,   \* enabled[k]: channel_keys.enabled
  healthy,   \* healthy[k]: GET /models with the key would succeed
  count,     \* how often the bounded actions have happened
  failedAt,  \* history: when failures of k were reported
  alerts,    \* history: cooldown alerts for k since its last success or start
  latest     \* history: who copied, and who wrote, the cooldowns last

vars == <<clock, fails, until, save, setting, probe, enabled, healthy, count,
          failedAt, alerts, latest>>

\* There is no entry for the key in the map.
NoCool == -1
NoEntry == [until |-> NoCool, fails |-> 0]
EmptySnapshot == [k \in Keys |-> NoEntry]
Snapshots == [Keys -> [until : Int, fails : Nat]]

NoSave == [step |-> "none", snap |-> EmptySnapshot]
NoProbe == [step |-> "waiting", keys |-> {}]

TypeOK ==
  /\ clock \in 0..MaxClock
  /\ fails \in [Keys -> Nat]
  /\ until \in [Keys -> Int]
  /\ save \in [Reporters -> [step : {"none", "due", "copied"}, snap : Snapshots]]
  /\ setting \in Snapshots
  /\ probe \in [step : {"waiting", "listed", "probing"}, keys : SUBSET Keys]
  /\ enabled \in [Keys -> BOOLEAN]
  /\ healthy \in [Keys -> BOOLEAN]
  /\ count \in [reports : Nat, changes : Nat, restarts : Nat, errors : Nat]
  /\ failedAt \in [Keys -> SUBSET (0..MaxClock)]
  /\ alerts \in [Keys -> Nat]
  /\ latest \in [copied : Reporters, written : Reporters]

Init ==
  /\ clock = 0
  /\ fails = [k \in Keys |-> 0]
  /\ until = [k \in Keys |-> NoCool]
  /\ save = [p \in Reporters |-> NoSave]
  /\ setting = EmptySnapshot
  /\ probe = NoProbe
  /\ enabled = [k \in Keys |-> TRUE]
  /\ healthy = [k \in Keys |-> TRUE]
  /\ count = [reports |-> 0, changes |-> 0, restarts |-> 0, errors |-> 0]
  /\ failedAt = [k \in Keys |-> {}]
  /\ alerts = [k \in Keys |-> 0]
  /\ latest = [copied |-> Prober, written |-> Prober]

\* The loop of reportFailure: the base, doubled for every failure above the
\* threshold, and never more than the maximum.
Cooldown(n) ==
  LET doubled == Base * 2 ^ (n - Threshold)
  IN  IF doubled < MaxCool THEN doubled ELSE MaxCool

\* A key that available sorts behind the others.
Cooling(k) == until[k] # NoCool /\ clock < until[k]

Idle(p) == save[p].step = "none"

-----------------------------------------------------------------------------
(* Reports *)

\* Mutants of ReportFailure: a new failure extends the old cooldown instead of
\* starting another; a cooldown that has expired counts as new and is announced
\* again.
ReportFailureExtending(p, k) ==
  LET n == fails[k] + 1
      from == IF until[k] = NoCool THEN clock ELSE until[k]
  IN
  /\ Idle(p)
  /\ count.reports < MaxReports
  /\ count' = [count EXCEPT !.reports = @ + 1]
  /\ fails' = [fails EXCEPT ![k] = n]
  /\ failedAt' = [failedAt EXCEPT ![k] = @ \cup {clock}]
  /\ IF n >= Threshold
     THEN /\ until' = [until EXCEPT ![k] = from + Cooldown(n)]
          /\ alerts' = IF until[k] = NoCool THEN [alerts EXCEPT ![k] = @ + 1] ELSE alerts
          /\ save' = [save EXCEPT ![p].step = "due"]
     ELSE UNCHANGED <<until, alerts, save>>
  /\ UNCHANGED <<clock, setting, probe, enabled, healthy, latest>>
ReportFailureNoisy(p, k) ==
  LET n == fails[k] + 1 IN
  /\ Idle(p)
  /\ count.reports < MaxReports
  /\ count' = [count EXCEPT !.reports = @ + 1]
  /\ fails' = [fails EXCEPT ![k] = n]
  /\ failedAt' = [failedAt EXCEPT ![k] = @ \cup {clock}]
  /\ IF n >= Threshold
     THEN /\ until' = [until EXCEPT ![k] = clock + Cooldown(n)]
          /\ alerts' = IF ~Cooling(k) THEN [alerts EXCEPT ![k] = @ + 1] ELSE alerts
          /\ save' = [save EXCEPT ![p].step = "due"]
     ELSE UNCHANGED <<until, alerts, save>>
  /\ UNCHANGED <<clock, setting, probe, enabled, healthy, latest>>

\* An alert is raised when the key had no cooldown in the map, expired or not.
ReportFailure(p, k) ==
  LET n == fails[k] + 1 IN
  /\ Idle(p)
  /\ count.reports < MaxReports
  /\ count' = [count EXCEPT !.reports = @ + 1]
  /\ fails' = [fails EXCEPT ![k] = n]
  /\ failedAt' = [failedAt EXCEPT ![k] = @ \cup {clock}]
  /\ IF n >= Threshold
     THEN /\ until' = [until EXCEPT ![k] = clock + Cooldown(n)]
          /\ alerts' = IF until[k] = NoCool THEN [alerts EXCEPT ![k] = @ + 1] ELSE alerts
          /\ save' = [save EXCEPT ![p].step = "due"]
     ELSE UNCHANGED <<until, alerts, save>>
  /\ UNCHANGED <<clock, setting, probe, enabled, healthy, latest>>

\* Mutants of Reset: a success makes up for one failure only; the success is
\* not saved.
ResetOne(p, k) ==
  /\ Idle(p)
  /\ fails' = [fails EXCEPT ![k] = @ - 1]
  /\ until' = [until EXCEPT ![k] = NoCool]
  /\ alerts' = [alerts EXCEPT ![k] = 0]
  /\ IF until[k] # NoCool \/ fails[k] > 0
     THEN save' = [save EXCEPT ![p].step = "due"]
     ELSE UNCHANGED save
  /\ UNCHANGED <<clock, setting, enabled, healthy, count, failedAt, latest>>
ResetUnsaved(p, k) ==
  /\ Idle(p)
  /\ fails' = [fails EXCEPT ![k] = 0]
  /\ until' = [until EXCEPT ![k] = NoCool]
  /\ alerts' = [alerts EXCEPT ![k] = 0]
  /\ UNCHANGED <<clock, save, setting, enabled, healthy, count, failedAt, latest>>

\* reportSuccess: nothing is saved when there was nothing to clear.
Reset(p, k) ==
  /\ Idle(p)
  /\ fails' = [fails EXCEPT ![k] = 0]
  /\ until' = [until EXCEPT ![k] = NoCool]
  /\ alerts' = [alerts EXCEPT ![k] = 0]
  /\ IF until[k] # NoCool \/ fails[k] > 0
     THEN save' = [save EXCEPT ![p].step = "due"]
     ELSE UNCHANGED save
  /\ UNCHANGED <<clock, setting, enabled, healthy, count, failedAt, latest>>

ReportSuccess(p, k) == Reset(p, k) /\ UNCHANGED probe

-----------------------------------------------------------------------------
(* saveSnapshot and restore *)

\* The cooldowns that have not expired, with the failures behind them.
Unexpired ==
  [k \in Keys |->
     IF Cooling(k) THEN [until |-> until[k], fails |-> fails[k]] ELSE NoEntry]

\* Mutant of CopyCooldowns: the failures are not saved with the cooldown.
CopyWithoutFails(p) ==
  /\ save[p].step = "due"
  /\ save' = [save EXCEPT ![p] =
                [step |-> "copied",
                 snap |-> [k \in Keys |-> [Unexpired[k] EXCEPT !.fails = 0]]]]
  /\ latest' = [latest EXCEPT !.copied = p]
  /\ UNCHANGED <<clock, fails, until, setting, probe, enabled, healthy, count,
                 failedAt, alerts>>

CopyCooldowns(p) ==
  /\ save[p].step = "due"
  /\ save' = [save EXCEPT ![p] = [step |-> "copied", snap |-> Unexpired]]
  /\ latest' = [latest EXCEPT !.copied = p]
  /\ UNCHANGED <<clock, fails, until, setting, probe, enabled, healthy, count,
                 failedAt, alerts>>

WriteSnapshot(p) ==
  /\ save[p].step = "copied"
  /\ setting' = save[p].snap
  /\ save' = [save EXCEPT ![p] = NoSave]
  /\ latest' = [latest EXCEPT !.written = p]
  /\ UNCHANGED <<clock, fails, until, probe, enabled, healthy, count, failedAt, alerts>>

\* A write that fails is logged and not tried again.
WriteFails(p) ==
  /\ save[p].step = "copied"
  /\ count.errors < MaxWriteErrors
  /\ count' = [count EXCEPT !.errors = @ + 1]
  /\ save' = [save EXCEPT ![p] = NoSave]
  /\ UNCHANGED <<clock, fails, until, setting, probe, enabled, healthy, failedAt, alerts, latest>>

\* restore keeps the cooldowns that are still running.
Restorable(k) == setting[k].until # NoCool /\ clock < setting[k].until

\* The process dies and starts again: newKeyHealthManager and restore.
Restart ==
  /\ count.restarts < MaxRestarts
  /\ count' = [count EXCEPT !.restarts = @ + 1]
  /\ until' = [k \in Keys |-> IF Restorable(k) THEN setting[k].until ELSE NoCool]
  /\ fails' = [k \in Keys |-> IF Restorable(k) THEN setting[k].fails ELSE 0]
  /\ save' = [p \in Reporters |-> NoSave]
  /\ probe' = NoProbe
  /\ alerts' = [k \in Keys |-> 0]
  /\ UNCHANGED <<clock, setting, enabled, healthy, failedAt, latest>>

-----------------------------------------------------------------------------
(* The prober: at every tick of its own it lists the channels, then under   *)
(* the lock picks the enabled keys with failures, and tries them in turn.   *)

ListEnabled ==
  /\ probe.step = "waiting"
  /\ Idle(Prober)
  /\ probe' = [step |-> "listed", keys |-> {k \in Keys : enabled[k]}]
  /\ UNCHANGED <<clock, fails, until, save, setting, enabled, healthy, count,
                 failedAt, alerts, latest>>

\* Mutant of PickUnhealthy: only keys that cool are tried.
PickCooling ==
  /\ probe.step = "listed"
  /\ probe' = [step |-> "probing", keys |-> {k \in probe.keys : until[k] # NoCool}]
  /\ UNCHANGED <<clock, fails, until, save, setting, enabled, healthy, count,
                 failedAt, alerts, latest>>

PickUnhealthy ==
  /\ probe.step = "listed"
  /\ probe' = [step |-> "probing", keys |-> {k \in probe.keys : fails[k] > 0}]
  /\ UNCHANGED <<clock, fails, until, save, setting, enabled, healthy, count,
                 failedAt, alerts, latest>>

ProbeSucceeds(k) ==
  /\ probe.step = "probing"
  /\ k \in probe.keys
  /\ healthy[k]
  /\ Reset(Prober, k)
  /\ probe' = [probe EXCEPT !.keys = @ \ {k}]

ProbeFails(k) ==
  /\ probe.step = "probing"
  /\ k \in probe.keys
  /\ ~healthy[k]
  /\ Idle(Prober)
  /\ probe' = [probe EXCEPT !.keys = @ \ {k}]
  /\ UNCHANGED <<clock, fails, until, save, setting, enabled, healthy, count,
                 failedAt, alerts, latest>>

ProbeRoundEnds ==
  /\ probe.step = "probing"
  /\ probe.keys = {}
  /\ Idle(Prober)
  /\ probe' = NoProbe
  /\ UNCHANGED <<clock, fails, until, save, setting, enabled, healthy, count,
                 failedAt, alerts, latest>>

-----------------------------------------------------------------------------
(* Outside: the clock, the upstreams, and the switch of the console *)

Tick ==
  /\ clock < MaxClock
  /\ clock' = clock + 1
  /\ UNCHANGED <<fails, until, save, setting, probe, enabled, healthy, count,
                 failedAt, alerts, latest>>

UpstreamChanges(k) ==
  /\ count.changes < MaxChanges
  /\ count' = [count EXCEPT !.changes = @ + 1]
  /\ healthy' = [healthy EXCEPT ![k] = ~@]
  /\ UNCHANGED <<clock, fails, until, save, setting, probe, enabled, failedAt, alerts, latest>>

\* SetChannelKeyEnabled does not touch the health of the key.
SwitchKey(k) ==
  /\ count.changes < MaxChanges
  /\ count' = [count EXCEPT !.changes = @ + 1]
  /\ enabled' = [enabled EXCEPT ![k] = ~@]
  /\ UNCHANGED <<clock, fails, until, save, setting, probe, healthy, failedAt, alerts, latest>>

Saving(p) == CopyCooldowns(p) \/ WriteSnapshot(p) \/ WriteFails(p)
Probing ==
  \/ ListEnabled \/ PickUnhealthy \/ ProbeRoundEnds
  \/ \E k \in Keys : ProbeSucceeds(k) \/ ProbeFails(k)
Outside == Tick \/ \E k \in Keys : UpstreamChanges(k) \/ SwitchKey(k)

\* What happens besides the reports of handlers and restarts.
Background == Outside \/ Probing \/ \E p \in Reporters : Saving(p)

Next ==
  \/ \E p \in Reporters \ {Prober}, k \in Keys : ReportFailure(p, k) \/ ReportSuccess(p, k)
  \/ Restart
  \/ Background

Spec == Init /\ [][Next]_vars

\* The ticker of the prober never stops, an upstream call ends within its
\* timeout, and a goroutine that has to save is not stopped before it has.
Fairness == WF_vars(Probing) /\ \A p \in Reporters : WF_vars(Saving(p))
FairSpec == Spec /\ Fairness

-----------------------------------------------------------------------------
(* Properties *)

\* A key cools exactly when it has failed often enough in a row, in memory and
\* in every copy that could be restored.  A cooldown that came back without
\* its failures would be forgotten by the prober, which looks at failures.
CoolingMeansFailing ==
  /\ \A k \in Keys : until[k] # NoCool <=> fails[k] >= Threshold
  /\ \A k \in Keys, s \in {setting} \cup {save[p].snap : p \in Reporters} :
       s[k].until # NoCool => s[k].fails >= Threshold

\* Every cooldown was earned: it ends one Cooldown of the present number of
\* failures after a failure of this key, also after any number of restarts
\* from snapshots written out of order.
CooldownEarned ==
  \A k \in Keys :
    until[k] # NoCool => \E t \in failedAt[k] : until[k] = t + Cooldown(fails[k])

\* keyhealth.go:66: only the first cooldown of a run of failures is announced,
\* extensions are not.
OneAlertPerRun == \A k \in Keys : alerts[k] <= 1

\* keyhealth.go:5: a restart brings back the cooldowns that have not expired,
\* and no others, once every report before it has finished its save and no
\* write has failed, provided that the copy written last is the one taken last:
\* two saves that overtake each other are the only way to lose a cooldown or to
\* bring one back.
OrderlyRestartKeepsCooldowns ==
  [][/\ Restart
     /\ \A p \in Reporters : Idle(p)
     /\ count.errors = 0 /\ latest.copied = latest.written
     => \A k \in Keys : until'[k] = IF Cooling(k) THEN until[k] ELSE NoCool]_vars

\* The prober resets every enabled key with failures whose upstream works.
HealthyKeysRecover ==
  \A k \in Keys : <>[](healthy[k] /\ enabled[k]) => <>[](fails[k] = 0)
=============================================================================
