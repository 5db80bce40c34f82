--------------------------- MODULE KeyHealthProofs ---------------------------
(***************************************************************************)
(* Theorems about the health of upstream keys, for every set of keys and   *)
(* reporters, every cooldown schedule and every bound.                     *)
(***************************************************************************)
EXTENDS KeyHealth, TLAPS

\* The number of failures behind a cooldown never exceeds those reported.
Counted ==
  /\ count.reports \in 0..MaxReports
  /\ \A k \in Keys : fails[k] <= count.reports /\ setting[k].fails <= count.reports
  /\ \A p \in Reporters, k \in Keys : save[p].snap[k].fails <= count.reports

\* An entry of a copy that could have been in memory.
SoundEntry(k, e) ==
  e.until # NoCool =>
    /\ e.fails >= Threshold
    /\ \E t \in failedAt[k] : e.until = t + Cooldown(e.fails)

MemorySound ==
  \A k \in Keys :
    /\ until[k] # NoCool <=> fails[k] >= Threshold
    /\ until[k] # NoCool => \E t \in failedAt[k] : until[k] = t + Cooldown(fails[k])

CopiesSound ==
  /\ \A k \in Keys : SoundEntry(k, setting[k])
  /\ \A p \in Reporters, k \in Keys : SoundEntry(k, save[p].snap[k])

HealthInvariant == TypeOK /\ Counted /\ MemorySound /\ CopiesSound

-----------------------------------------------------------------------------
(* Helpers *)

LEMMA CooldownPositive ==
  \A n \in 0..MaxReports : n >= Threshold => Cooldown(n) \in Nat \ {0}
<1> SUFFICES ASSUME NEW n \in 0..MaxReports, n >= Threshold
             PROVE  Cooldown(n) \in Nat \ {0}
  OBVIOUS
<1>1. n - Threshold \in 0..MaxReports
  BY KeyHealthAssumption
<1>2. 2 ^ (n - Threshold) \in Nat \ {0}
  BY <1>1, PowersPositive
<1> QED
  BY <1>2, KeyHealthAssumption DEF Cooldown

LEMMA EmptyTypes ==
  /\ EmptySnapshot \in Snapshots
  /\ \A k \in Keys : EmptySnapshot[k].until = NoCool /\ EmptySnapshot[k].fails = 0
  /\ NoSave.step = "none" /\ NoSave.snap = EmptySnapshot
  /\ NoSave \in [step : {"none", "due", "copied"}, snap : Snapshots]
  /\ NoProbe \in [step : {"waiting", "listed", "probing"}, keys : SUBSET Keys]
  BY DEF EmptySnapshot, Snapshots, NoEntry, NoCool, NoSave, NoProbe

\* A reporter that has to save keeps whatever copy it had.
LEMMA SaveDue ==
  ASSUME TypeOK, NEW p \in Reporters,
         \/ save' = save
         \/ save' = [save EXCEPT ![p].step = "due"]
  PROVE  /\ save' \in [Reporters -> [step : {"none", "due", "copied"}, snap : Snapshots]]
         /\ \A q \in Reporters : save'[q].snap = save[q].snap
<1> DEFINE v == [save[p] EXCEPT !.step = "due"]
<1>1. save \in [Reporters -> [step : {"none", "due", "copied"}, snap : Snapshots]]
  BY DEF TypeOK
<1>2. v \in [step : {"none", "due", "copied"}, snap : Snapshots] /\ v.snap = save[p].snap
  BY <1>1
<1>3. save' = save \/ save' = [save EXCEPT ![p] = v]
  OBVIOUS
<1> HIDE DEF v
<1> QED
  BY <1>1, <1>2, <1>3

\* Copying the cooldowns that have not expired yields sound entries.
LEMMA UnexpiredSound ==
  ASSUME HealthInvariant
  PROVE  /\ Unexpired \in Snapshots
         /\ \A k \in Keys : /\ SoundEntry(k, Unexpired[k])
                            /\ Unexpired[k].fails <= count.reports
<1>1. \A k \in Keys : until[k] \in Int /\ fails[k] \in Nat
  BY DEF HealthInvariant, TypeOK
<1>2. NoEntry \in [until : Int, fails : Nat] /\ NoEntry.until = NoCool /\ NoEntry.fails = 0
  BY DEF NoEntry, NoCool
<1>3. \A k \in Keys :
        Unexpired[k] = IF Cooling(k) THEN [until |-> until[k], fails |-> fails[k]]
                       ELSE NoEntry
  BY DEF Unexpired
<1>4. Unexpired \in Snapshots
  BY <1>1, <1>2, <1>3 DEF Unexpired, Snapshots
<1> SUFFICES ASSUME NEW k \in Keys
             PROVE  SoundEntry(k, Unexpired[k]) /\ Unexpired[k].fails <= count.reports
  BY <1>4
<1>5. CASE Cooling(k)
  <2>1. Unexpired[k] = [until |-> until[k], fails |-> fails[k]]
    BY <1>3, <1>5, Zenon
  <2>2. Unexpired[k].until = until[k] /\ Unexpired[k].fails = fails[k]
    BY <2>1
  <2> QED
    BY <2>2 DEF SoundEntry, HealthInvariant, MemorySound, Counted
<1>6. CASE ~Cooling(k)
  <2>1. Unexpired[k].until = NoCool /\ Unexpired[k].fails = 0
    BY <1>2, <1>3, <1>6
  <2> QED
    BY <2>1 DEF SoundEntry, HealthInvariant, Counted
<1> QED
  BY <1>5, <1>6

-----------------------------------------------------------------------------
(* Every step keeps the invariant *)

LEMMA FailureStep ==
  ASSUME HealthInvariant, NEW p \in Reporters, NEW k \in Keys, ReportFailure(p, k)
  PROVE  HealthInvariant'
<1> DEFINE n == fails[k] + 1
<1>1. /\ n \in 0..MaxReports /\ count.reports + 1 \in 0..MaxReports
      /\ n <= count.reports + 1
  BY KeyHealthAssumption DEF ReportFailure, HealthInvariant, Counted, TypeOK
<1>2. n >= Threshold => Cooldown(n) \in Nat \ {0}
  BY <1>1, CooldownPositive
<1>3. clock \in Nat /\ clock \in 0..MaxClock
  BY KeyHealthAssumption DEF HealthInvariant, TypeOK
<1>4. fails' = [fails EXCEPT ![k] = n] /\ failedAt' = [failedAt EXCEPT ![k] = @ \cup {clock}]
  BY DEF ReportFailure
<1>5. /\ count' = [count EXCEPT !.reports = @ + 1]
      /\ count'.reports = count.reports + 1
      /\ count' \in [reports : Nat, changes : Nat, restarts : Nat, errors : Nat]
  <2>1. count.reports + 1 \in Nat
    BY <1>1
  <2> QED
    BY <2>1 DEF ReportFailure, HealthInvariant, TypeOK
<1>6. until' = IF n >= Threshold THEN [until EXCEPT ![k] = clock + Cooldown(n)] ELSE until
  BY DEF ReportFailure
<1>7. /\ save' \in [Reporters -> [step : {"none", "due", "copied"}, snap : Snapshots]]
      /\ \A q \in Reporters : save'[q].snap = save[q].snap
  BY SaveDue DEF ReportFailure, HealthInvariant
<1>8. setting' = setting /\ clock' = clock /\ probe' = probe /\ enabled' = enabled
      /\ healthy' = healthy /\ latest' = latest
  BY DEF ReportFailure
<1>9. alerts' \in [Keys -> Nat]
  <2>1. alerts[k] + 1 \in Nat
    BY DEF HealthInvariant, TypeOK
  <2> QED
    BY <2>1 DEF ReportFailure, HealthInvariant, TypeOK
<1> HIDE DEF n
<1>10. TypeOK'
  <2>1. fails' \in [Keys -> Nat]
    BY <1>1, <1>4 DEF HealthInvariant, TypeOK
  <2>2. until' \in [Keys -> Int]
    BY <1>2, <1>3, <1>6 DEF HealthInvariant, TypeOK
  <2>3. failedAt' \in [Keys -> SUBSET (0..MaxClock)]
    BY <1>3, <1>4 DEF HealthInvariant, TypeOK
  <2> QED
    BY <1>5, <1>7, <1>8, <1>9, <2>1, <2>2, <2>3 DEF HealthInvariant, TypeOK
<1>11. Counted'
  BY <1>1, <1>4, <1>5, <1>7, <1>8 DEF HealthInvariant, Counted, TypeOK, Snapshots
<1>12. MemorySound'
  <2> SUFFICES ASSUME NEW j \in Keys
               PROVE  /\ until'[j] # NoCool <=> fails'[j] >= Threshold
                      /\ until'[j] # NoCool =>
                           \E t \in failedAt'[j] : until'[j] = t + Cooldown(fails'[j])
    BY DEF MemorySound
  <2>1. CASE j # k
    BY <1>4, <1>6, <2>1 DEF HealthInvariant, MemorySound, TypeOK
  <2>2. CASE j = k /\ n >= Threshold
    <3>1. until'[k] = clock + Cooldown(n) /\ fails'[k] = n /\ clock \in failedAt'[k]
      BY <1>4, <1>6, <2>2 DEF HealthInvariant, TypeOK
    <3>2. until'[k] # NoCool
      BY <1>2, <1>3, <2>2, <3>1 DEF NoCool
    <3> QED
      BY <2>2, <3>1, <3>2
  <2>3. CASE j = k /\ ~(n >= Threshold)
    <3>1. until'[k] = until[k] /\ fails'[k] = n /\ ~(fails[k] >= Threshold)
      BY <1>4, <1>6, <2>3, KeyHealthAssumption DEF HealthInvariant, TypeOK, n
    <3> QED
      BY <2>3, <3>1 DEF HealthInvariant, MemorySound
  <2> QED
    BY <2>1, <2>2, <2>3
<1>13. CopiesSound'
  BY <1>4, <1>7, <1>8 DEF HealthInvariant, CopiesSound, SoundEntry, TypeOK
<1> QED
  BY <1>10, <1>11, <1>12, <1>13 DEF HealthInvariant

LEMMA ResetStep ==
  ASSUME HealthInvariant, NEW p \in Reporters, NEW k \in Keys, Reset(p, k),
         probe' \in [step : {"waiting", "listed", "probing"}, keys : SUBSET Keys]
  PROVE  HealthInvariant'
<1>1. /\ fails' = [fails EXCEPT ![k] = 0]
      /\ until' = [until EXCEPT ![k] = NoCool]
      /\ alerts' = [alerts EXCEPT ![k] = 0]
      /\ UNCHANGED <<clock, setting, enabled, healthy, count, failedAt, latest>>
  BY DEF Reset
<1>2. /\ save' \in [Reporters -> [step : {"none", "due", "copied"}, snap : Snapshots]]
      /\ \A q \in Reporters : save'[q].snap = save[q].snap
  BY SaveDue DEF Reset, HealthInvariant
<1>3. TypeOK'
  BY <1>1, <1>2 DEF HealthInvariant, TypeOK, NoCool
<1>4. Counted'
  <2>1. count.reports \in Nat
    BY DEF HealthInvariant, TypeOK
  <2> QED
    BY <1>1, <1>2, <2>1 DEF HealthInvariant, Counted, TypeOK
<1>5. MemorySound'
  BY <1>1, KeyHealthAssumption DEF HealthInvariant, MemorySound, TypeOK
<1>6. CopiesSound'
  BY <1>1, <1>2 DEF HealthInvariant, CopiesSound, SoundEntry
<1> QED
  BY <1>3, <1>4, <1>5, <1>6 DEF HealthInvariant

LEMMA SaveStep ==
  ASSUME HealthInvariant, NEW p \in Reporters, Saving(p)
  PROVE  HealthInvariant'
<1>1. CASE CopyCooldowns(p)
  <2>1. /\ UNCHANGED <<clock, fails, until, setting, probe, enabled, healthy, count,
                       failedAt, alerts>>
        /\ save' = [save EXCEPT ![p] = [step |-> "copied", snap |-> Unexpired]]
        /\ latest' = [latest EXCEPT !.copied = p]
    BY <1>1 DEF CopyCooldowns
  <2>2. \A q \in Reporters :
          save'[q].snap = IF q = p THEN Unexpired ELSE save[q].snap
    BY <2>1 DEF HealthInvariant, TypeOK
  <2>3. TypeOK'
    BY <2>1, UnexpiredSound DEF HealthInvariant, TypeOK
  <2>4. Counted'
    BY <2>1, <2>2, UnexpiredSound DEF HealthInvariant, Counted
  <2>5. MemorySound'
    BY <2>1 DEF HealthInvariant, MemorySound
  <2>6. CopiesSound'
    BY <2>1, <2>2, UnexpiredSound DEF HealthInvariant, CopiesSound, SoundEntry
  <2> QED
    BY <2>3, <2>4, <2>5, <2>6 DEF HealthInvariant
<1>2. CASE WriteSnapshot(p)
  <2>1. /\ UNCHANGED <<clock, fails, until, probe, enabled, healthy, count, failedAt, alerts>>
        /\ setting' = save[p].snap
        /\ save' = [save EXCEPT ![p] = NoSave]
        /\ latest' = [latest EXCEPT !.written = p]
    BY <1>2 DEF WriteSnapshot
  <2>2. \A q \in Reporters :
          save'[q].snap = IF q = p THEN EmptySnapshot ELSE save[q].snap
    BY <2>1, EmptyTypes DEF HealthInvariant, TypeOK
  <2>3. TypeOK'
    BY <2>1, EmptyTypes DEF HealthInvariant, TypeOK
  <2>4. Counted'
    BY <2>1, <2>2, EmptyTypes DEF HealthInvariant, Counted
  <2>5. MemorySound'
    BY <2>1 DEF HealthInvariant, MemorySound
  <2>6. CopiesSound'
    BY <2>1, <2>2, EmptyTypes DEF HealthInvariant, CopiesSound, SoundEntry
  <2> QED
    BY <2>3, <2>4, <2>5, <2>6 DEF HealthInvariant
<1>3. CASE WriteFails(p)
  <2>1. /\ UNCHANGED <<clock, fails, until, setting, probe, enabled, healthy, failedAt, alerts, latest>>
        /\ save' = [save EXCEPT ![p] = NoSave]
        /\ count' = [count EXCEPT !.errors = @ + 1]
    BY <1>3 DEF WriteFails
  <2>2. \A q \in Reporters :
          save'[q].snap = IF q = p THEN EmptySnapshot ELSE save[q].snap
    BY <2>1, EmptyTypes DEF HealthInvariant, TypeOK
  <2>3. /\ count'.reports = count.reports
        /\ count' \in [reports : Nat, changes : Nat, restarts : Nat, errors : Nat]
    <3>1. count.errors + 1 \in Nat
      BY DEF HealthInvariant, TypeOK
    <3> QED
      BY <2>1, <3>1 DEF HealthInvariant, TypeOK
  <2>4. TypeOK'
    BY <2>1, <2>3, EmptyTypes DEF HealthInvariant, TypeOK
  <2>5. Counted'
    BY <2>1, <2>2, <2>3, EmptyTypes DEF HealthInvariant, Counted
  <2>6. MemorySound'
    BY <2>1 DEF HealthInvariant, MemorySound
  <2>7. CopiesSound'
    BY <2>1, <2>2, EmptyTypes DEF HealthInvariant, CopiesSound, SoundEntry
  <2> QED
    BY <2>4, <2>5, <2>6, <2>7 DEF HealthInvariant
<1> QED
  BY <1>1, <1>2, <1>3 DEF Saving

LEMMA ProbeStep ==
  ASSUME HealthInvariant, Probing
  PROVE  HealthInvariant'
<1>1. Prober \in Reporters
  BY KeyHealthAssumption
<1>2. ASSUME NEW k \in Keys, ProbeSucceeds(k)
      PROVE  HealthInvariant'
  <2>1. probe' \in [step : {"waiting", "listed", "probing"}, keys : SUBSET Keys]
    BY <1>2 DEF ProbeSucceeds, HealthInvariant, TypeOK
  <2> QED
    BY <1>1, <1>2, <2>1, ResetStep DEF ProbeSucceeds
<1>3. ASSUME /\ UNCHANGED <<clock, fails, until, save, setting, enabled, healthy, count,
                            failedAt, alerts, latest>>
             /\ probe' \in [step : {"waiting", "listed", "probing"}, keys : SUBSET Keys]
      PROVE  HealthInvariant'
  BY <1>3 DEF HealthInvariant, TypeOK, Counted, MemorySound, CopiesSound, SoundEntry
<1>4. CASE ListEnabled
  BY <1>3, <1>4 DEF ListEnabled
<1>5. CASE PickUnhealthy
  BY <1>3, <1>5 DEF PickUnhealthy, HealthInvariant, TypeOK
<1>6. CASE ProbeRoundEnds
  BY <1>3, <1>6, EmptyTypes DEF ProbeRoundEnds
<1>7. ASSUME NEW k \in Keys, ProbeFails(k)
      PROVE  HealthInvariant'
  <2>1. probe' \in [step : {"waiting", "listed", "probing"}, keys : SUBSET Keys]
    BY <1>7 DEF ProbeFails, HealthInvariant, TypeOK
  <2> QED
    BY <1>3, <1>7, <2>1 DEF ProbeFails
<1> QED
  BY <1>2, <1>4, <1>5, <1>6, <1>7 DEF Probing

LEMMA OutsideStep ==
  ASSUME HealthInvariant, Outside
  PROVE  HealthInvariant'
<1>1. CASE Tick
  <2>1. clock' \in 0..MaxClock
    BY <1>1, KeyHealthAssumption DEF Tick, HealthInvariant, TypeOK
  <2> QED
    BY <1>1, <2>1
    DEF Tick, HealthInvariant, TypeOK, Counted, MemorySound, CopiesSound, SoundEntry
<1>2. ASSUME NEW k \in Keys, UpstreamChanges(k) \/ SwitchKey(k)
      PROVE  HealthInvariant'
  <2>1. /\ count'.reports = count.reports
        /\ count' \in [reports : Nat, changes : Nat, restarts : Nat, errors : Nat]
    <3>1. count.changes + 1 \in Nat
      BY DEF HealthInvariant, TypeOK
    <3> QED
      BY <1>2, <3>1 DEF UpstreamChanges, SwitchKey, HealthInvariant, TypeOK
  <2>2. enabled' \in [Keys -> BOOLEAN] /\ healthy' \in [Keys -> BOOLEAN]
    BY <1>2 DEF UpstreamChanges, SwitchKey, HealthInvariant, TypeOK
  <2>3. UNCHANGED <<clock, fails, until, save, setting, probe, failedAt, alerts, latest>>
    BY <1>2 DEF UpstreamChanges, SwitchKey
  <2> QED
    BY <2>1, <2>2, <2>3
    DEF HealthInvariant, TypeOK, Counted, MemorySound, CopiesSound, SoundEntry
<1> QED
  BY <1>1, <1>2 DEF Outside

LEMMA RestartStep ==
  ASSUME HealthInvariant, Restart
  PROVE  HealthInvariant'
<1>1. /\ count'.reports = count.reports
      /\ count' \in [reports : Nat, changes : Nat, restarts : Nat, errors : Nat]
  <2>1. count.restarts + 1 \in Nat
    BY DEF HealthInvariant, TypeOK
  <2> QED
    BY <2>1 DEF Restart, HealthInvariant, TypeOK
<1>2. UNCHANGED <<clock, setting, enabled, healthy, failedAt, latest>>
  BY DEF Restart
<1>3. \A k \in Keys : setting[k].until \in Int /\ setting[k].fails \in Nat
  BY DEF HealthInvariant, TypeOK, Snapshots
<1>4. \A k \in Keys :
        /\ until'[k] = IF Restorable(k) THEN setting[k].until ELSE NoCool
        /\ fails'[k] = IF Restorable(k) THEN setting[k].fails ELSE 0
  BY DEF Restart
<1>5. until' \in [Keys -> Int] /\ fails' \in [Keys -> Nat]
  BY <1>3 DEF Restart, NoCool
<1>6. /\ save' \in [Reporters -> [step : {"none", "due", "copied"}, snap : Snapshots]]
      /\ \A p \in Reporters : save'[p].snap = EmptySnapshot
  BY EmptyTypes DEF Restart
<1>7. /\ probe' \in [step : {"waiting", "listed", "probing"}, keys : SUBSET Keys]
      /\ alerts' \in [Keys -> Nat]
  BY EmptyTypes DEF Restart
<1>8. TypeOK'
  BY <1>1, <1>2, <1>5, <1>6, <1>7 DEF HealthInvariant, TypeOK
<1>9. Counted'
  BY <1>1, <1>2, <1>4, <1>6, EmptyTypes DEF HealthInvariant, Counted
<1>10. MemorySound'
  BY <1>2, <1>3, <1>4, KeyHealthAssumption
  DEF HealthInvariant, CopiesSound, SoundEntry, MemorySound, Restorable
<1>11. CopiesSound'
  BY <1>2, <1>6, EmptyTypes DEF HealthInvariant, CopiesSound, SoundEntry
<1> QED
  BY <1>8, <1>9, <1>10, <1>11 DEF HealthInvariant

LEMMA HealthInvariantHolds == Spec => []HealthInvariant
<1>1. Init => HealthInvariant
  <2> SUFFICES ASSUME Init
               PROVE  HealthInvariant
    OBVIOUS
  <2>1. TypeOK
    BY EmptyTypes, KeyHealthAssumption DEF Init, TypeOK, NoCool
  <2>2. Counted
    BY EmptyTypes, KeyHealthAssumption DEF Init, Counted
  <2>3. MemorySound
    BY KeyHealthAssumption DEF Init, MemorySound
  <2>4. CopiesSound
    BY EmptyTypes DEF Init, CopiesSound, SoundEntry
  <2> QED
    BY <2>1, <2>2, <2>3, <2>4 DEF HealthInvariant
<1>2. HealthInvariant /\ [Next]_vars => HealthInvariant'
  <2> SUFFICES ASSUME HealthInvariant, [Next]_vars
               PROVE  HealthInvariant'
    OBVIOUS
  <2>1. ASSUME NEW p \in Reporters, NEW k \in Keys, ReportFailure(p, k)
        PROVE  HealthInvariant'
    BY <2>1, FailureStep
  <2>2. ASSUME NEW p \in Reporters, NEW k \in Keys, ReportSuccess(p, k)
        PROVE  HealthInvariant'
    <3>1. probe' \in [step : {"waiting", "listed", "probing"}, keys : SUBSET Keys]
      BY <2>2 DEF ReportSuccess, HealthInvariant, TypeOK
    <3> QED
      BY <2>2, <3>1, ResetStep DEF ReportSuccess
  <2>3. ASSUME NEW p \in Reporters, Saving(p)
        PROVE  HealthInvariant'
    BY <2>3, SaveStep
  <2>4. CASE UNCHANGED vars
    BY <2>4
    DEF vars, HealthInvariant, TypeOK, Counted, MemorySound, CopiesSound, SoundEntry
  <2> QED
    BY <2>1, <2>2, <2>3, <2>4, ProbeStep, OutsideStep, RestartStep
    DEF Next, Background
<1> QED
  BY <1>1, <1>2, PTL DEF Spec

\* A key cools exactly when it has failed often enough in a row: in memory, in
\* every copy on its way to the database, and in the database.
THEOREM CoolingAlwaysMeansFailing == Spec => []CoolingMeansFailing
<1>1. HealthInvariant => CoolingMeansFailing
  BY DEF HealthInvariant, MemorySound, CopiesSound, SoundEntry, CoolingMeansFailing
<1> QED
  BY <1>1, HealthInvariantHolds, PTL

\* The map of failures, the copies of the concurrent writers, the setting and the
\* prober's list keep their types, for any keys, reporters and bounds.
THEOREM TypeCorrect == Spec => []TypeOK
<1>1. HealthInvariant => TypeOK
  BY DEF HealthInvariant
<1> QED
  BY <1>1, HealthInvariantHolds, PTL

\* No restart, however stale the snapshot it starts from, gives a key a cooldown
\* that its own failures did not earn.
THEOREM CooldownsAlwaysEarned == Spec => []CooldownEarned
<1>1. HealthInvariant => CooldownEarned
  BY DEF HealthInvariant, MemorySound, CooldownEarned
<1> QED
  BY <1>1, HealthInvariantHolds, PTL

\* An announced key has an entry in the map: what ends the entry (a success, a
\* restart) also ends the run that was announced.
AlertsSound == \A k \in Keys : alerts[k] <= 1 /\ (alerts[k] > 0 => until[k] # NoCool)

LEMMA AlertStep ==
  HealthInvariant /\ AlertsSound /\ [Next]_vars => AlertsSound'
<1> SUFFICES ASSUME HealthInvariant, AlertsSound, [Next]_vars
             PROVE  AlertsSound'
  OBVIOUS
<1>1. alerts \in [Keys -> Nat] /\ until \in [Keys -> Int]
  BY DEF HealthInvariant, TypeOK
<1>2. ASSUME NEW p \in Reporters, NEW k \in Keys, ReportFailure(p, k)
      PROVE  AlertsSound'
  <2> DEFINE n == fails[k] + 1
  <2>1. CASE n >= Threshold
    <3>1. n \in 0..MaxReports
      BY <1>2, KeyHealthAssumption DEF ReportFailure, HealthInvariant, Counted, TypeOK
    <3>2. clock + Cooldown(n) # NoCool
      BY <2>1, <3>1, CooldownPositive DEF HealthInvariant, TypeOK, NoCool
    <3>3. /\ until' = [until EXCEPT ![k] = clock + Cooldown(n)]
          /\ alerts' = IF until[k] = NoCool THEN [alerts EXCEPT ![k] = @ + 1] ELSE alerts
      BY <1>2, <2>1 DEF ReportFailure
    <3> HIDE DEF n
    <3> QED
      BY <1>1, <3>2, <3>3 DEF AlertsSound
  <2>2. CASE ~(n >= Threshold)
    BY <1>2, <2>2 DEF ReportFailure, AlertsSound
  <2> QED
    BY <2>1, <2>2
<1>3. ASSUME NEW p \in Reporters, NEW k \in Keys, Reset(p, k)
      PROVE  AlertsSound'
  BY <1>1, <1>3 DEF Reset, AlertsSound
<1>4. CASE Restart
  BY <1>1, <1>4 DEF Restart, AlertsSound
<1>5. CASE UNCHANGED <<until, alerts>>
  BY <1>5 DEF AlertsSound
<1>6. CASE Background
  <2>1. CASE Outside
    BY <1>5, <2>1 DEF Outside, Tick, UpstreamChanges, SwitchKey
  <2>2. CASE Probing
    BY <1>3, <1>5, <2>2, KeyHealthAssumption
    DEF Probing, ListEnabled, PickUnhealthy, ProbeRoundEnds, ProbeSucceeds, ProbeFails
  <2>3. ASSUME NEW p \in Reporters, Saving(p)
        PROVE  AlertsSound'
    BY <1>5, <2>3 DEF Saving, CopyCooldowns, WriteSnapshot, WriteFails
  <2> QED
    BY <1>6, <2>1, <2>2, <2>3 DEF Background
<1> QED
  BY <1>2, <1>3, <1>4, <1>5, <1>6 DEF Next, ReportSuccess, vars

\* However often a cooldown is extended, expires and is started again, a run of
\* failures is announced once.
THEOREM RunsAlwaysAnnouncedOnce == Spec => []OneAlertPerRun
<1>1. Init => AlertsSound
  BY DEF Init, AlertsSound
<1>2. AlertsSound => OneAlertPerRun
  BY DEF AlertsSound, OneAlertPerRun
<1> QED
  BY <1>1, <1>2, HealthInvariantHolds, AlertStep, PTL DEF Spec

-----------------------------------------------------------------------------
(* Order of the snapshots *)

\* A copy says of every key what memory says of it now: the cooldown that is
\* running, or none that is.
Agrees(s) ==
  \A k \in Keys :
    IF Cooling(k) THEN s[k].until = until[k]
    ELSE s[k].until = NoCool \/ ~(clock < s[k].until)

\* As long as no write has failed: when every change has been copied, the copy
\* that was taken last agrees with memory, and so does the setting when that
\* copy was written last.  A change makes its reporter due, so that nothing is
\* claimed until it has copied, and then its own copy is the last one.
LastCopyCurrent ==
  (count.errors = 0 /\ \A p \in Reporters : save[p].step # "due") =>
    /\ save[latest.copied].step = "copied" => Agrees(save[latest.copied].snap)
    /\ Idle(latest.copied) /\ latest.copied = latest.written => Agrees(setting)

LEMMA CopyStep ==
  HealthInvariant /\ LastCopyCurrent /\ [Next]_vars => LastCopyCurrent'
<1> SUFFICES ASSUME HealthInvariant, LastCopyCurrent, [Next]_vars
             PROVE  LastCopyCurrent'
  OBVIOUS
<1>1. /\ save \in [Reporters -> [step : {"none", "due", "copied"}, snap : Snapshots]]
      /\ latest \in [copied : Reporters, written : Reporters]
      /\ until \in [Keys -> Int] /\ fails \in [Keys -> Nat]
      /\ count \in [reports : Nat, changes : Nat, restarts : Nat, errors : Nat]
      /\ clock \in Int
  BY DEF HealthInvariant, TypeOK
<1>2. \A p \in Reporters, k \in Keys : save[p].snap[k].until \in Int
  BY <1>1 DEF Snapshots
<1>3. \A k \in Keys : setting[k].until \in Int
  BY DEF HealthInvariant, TypeOK, Snapshots
<1>4. CASE UNCHANGED <<clock, until, save, setting, latest, count.errors>>
  BY <1>4 DEF LastCopyCurrent, Agrees, Cooling, Idle
<1>5. ASSUME NEW p \in Reporters, save' = [save EXCEPT ![p].step = "due"]
      PROVE  LastCopyCurrent'
  BY <1>1, <1>5 DEF LastCopyCurrent
<1>6. ASSUME NEW p \in Reporters, NEW k \in Keys, ReportFailure(p, k)
      PROVE  LastCopyCurrent'
  <2>1. count'.errors = count.errors
    BY <1>1, <1>6 DEF ReportFailure
  <2> QED
    BY <1>4, <1>5, <1>6, <2>1 DEF ReportFailure
<1>7. ASSUME NEW p \in Reporters, NEW k \in Keys, Reset(p, k)
      PROVE  LastCopyCurrent'
  <2>1. CASE until[k] # NoCool \/ fails[k] > 0
    BY <1>5, <1>7, <2>1 DEF Reset
  <2>2. CASE ~(until[k] # NoCool \/ fails[k] > 0)
    <3>1. until' = until
      BY <1>1, <1>7, <2>2 DEF Reset
    <3> QED
      BY <1>4, <1>7, <2>2, <3>1 DEF Reset
  <2> QED
    BY <2>1, <2>2
<1>8. ASSUME NEW p \in Reporters, CopyCooldowns(p)
      PROVE  LastCopyCurrent'
  <2>1. /\ latest'.copied = p
        /\ save'[p].step = "copied" /\ save'[p].snap = Unexpired
        /\ UNCHANGED <<clock, until>>
    BY <1>1, <1>8 DEF CopyCooldowns
  <2>2. Agrees(Unexpired)'
    BY <2>1 DEF Agrees, Unexpired, Cooling, NoEntry, NoCool
  <2>3. Unexpired' = Unexpired
    BY <1>8 DEF CopyCooldowns, Unexpired, Cooling
  <2> QED
    BY <2>1, <2>2, <2>3 DEF LastCopyCurrent, Agrees, Cooling, Idle
<1>9. ASSUME NEW p \in Reporters, WriteSnapshot(p)
      PROVE  LastCopyCurrent'
  <2>1. /\ latest'.copied = latest.copied /\ latest'.written = p
        /\ save'[p].step = "none"
        /\ \A q \in Reporters \ {p} : save'[q] = save[q]
        /\ setting' = save[p].snap
        /\ save[p].step = "copied"
        /\ UNCHANGED <<clock, until, count>>
    BY <1>1, <1>9 DEF WriteSnapshot, NoSave
  <2> SUFFICES ASSUME count.errors = 0, \A q \in Reporters : save'[q].step # "due"
               PROVE  LastCopyCurrent'
    BY <2>1 DEF LastCopyCurrent
  <2>2. \A q \in Reporters : save[q].step # "due"
    BY <2>1
  <2>3. CASE latest.copied = p
    BY <2>1, <2>2, <2>3 DEF LastCopyCurrent, Agrees, Cooling, Idle
  <2>4. CASE latest.copied # p
    BY <1>1, <2>1, <2>2, <2>4 DEF LastCopyCurrent, Agrees, Cooling, Idle
  <2> QED
    BY <2>3, <2>4
<1>10. ASSUME NEW p \in Reporters, WriteFails(p)
       PROVE  LastCopyCurrent'
  <2>1. count'.errors > 0
    BY <1>1, <1>10 DEF WriteFails
  <2> QED
    BY <2>1 DEF LastCopyCurrent
<1>11. CASE Restart
  <2>1. /\ \A p \in Reporters : save'[p].step = "none"
        /\ UNCHANGED <<clock, setting, latest>>
        /\ \A k \in Keys : until'[k] = IF Restorable(k) THEN setting[k].until ELSE NoCool
    BY <1>11 DEF Restart, NoSave
  <2>2. Agrees(setting)'
    BY <1>3, <2>1 DEF Agrees, Cooling, Restorable, NoCool
  <2> QED
    BY <1>1, <2>1, <2>2 DEF LastCopyCurrent, Agrees, Cooling
<1>12. CASE Tick
  <2>1. clock' = clock + 1 /\ UNCHANGED <<until, save, setting, latest, count>>
    BY <1>12 DEF Tick
  <2>2. ASSUME NEW p \in Reporters, Agrees(save[p].snap)
        PROVE  Agrees(save[p].snap)'
    BY <1>1, <1>2, <2>1, <2>2 DEF Agrees, Cooling, NoCool
  <2>3. ASSUME Agrees(setting)
        PROVE  Agrees(setting)'
    BY <1>1, <1>3, <2>1, <2>3 DEF Agrees, Cooling, NoCool
  <2> QED
    BY <1>1, <2>1, <2>2, <2>3 DEF LastCopyCurrent, Idle, Agrees, Cooling
<1>13. CASE Background
  <2>1. ASSUME NEW k \in Keys, UpstreamChanges(k) \/ SwitchKey(k)
        PROVE  LastCopyCurrent'
    <3>1. count'.errors = count.errors
      BY <1>1, <2>1 DEF UpstreamChanges, SwitchKey
    <3> QED
      BY <1>4, <2>1, <3>1 DEF UpstreamChanges, SwitchKey
  <2>2. CASE Probing
    BY <1>4, <1>7, <2>2, KeyHealthAssumption
    DEF Probing, ListEnabled, PickUnhealthy, ProbeRoundEnds, ProbeSucceeds, ProbeFails
  <2> QED
    BY <1>8, <1>9, <1>10, <1>12, <1>13, <2>1, <2>2 DEF Background, Outside, Saving
<1> QED
  BY <1>4, <1>6, <1>7, <1>11, <1>13 DEF Next, ReportSuccess, vars

\* A restart with no save pending brings back exactly the cooldowns that run,
\* for any number of reporters and of earlier restarts, unless a write failed or
\* the copy taken last is not the one written last.
THEOREM OrderlyRestartsKeepCooldowns == Spec => OrderlyRestartKeepsCooldowns
<1> DEFINE Kept ==
      /\ Restart
      /\ \A p \in Reporters : Idle(p)
      /\ count.errors = 0 /\ latest.copied = latest.written
      => \A k \in Keys : until'[k] = IF Cooling(k) THEN until[k] ELSE NoCool
<1>1. Init => LastCopyCurrent
  <2> SUFFICES ASSUME Init
               PROVE  LastCopyCurrent
    OBVIOUS
  <2>1. Agrees(setting)
    BY EmptyTypes DEF Init, Agrees, Cooling
  <2>2. save[latest.copied].step = "none"
    BY KeyHealthAssumption, EmptyTypes DEF Init
  <2> QED
    BY <2>1, <2>2 DEF LastCopyCurrent
<1>2. HealthInvariant /\ LastCopyCurrent => Kept
  <2> SUFFICES ASSUME HealthInvariant, LastCopyCurrent, Restart,
                      \A p \in Reporters : Idle(p),
                      count.errors = 0, latest.copied = latest.written
               PROVE  \A k \in Keys : until'[k] = IF Cooling(k) THEN until[k] ELSE NoCool
    OBVIOUS
  <2>1. latest.copied \in Reporters
    BY DEF HealthInvariant, TypeOK
  <2>2. Agrees(setting)
    BY <2>1 DEF LastCopyCurrent, Idle
  <2>3. \A k \in Keys : until'[k] = IF Restorable(k) THEN setting[k].until ELSE NoCool
    BY DEF Restart
  <2> QED
    BY <2>2, <2>3 DEF Agrees, Restorable, Cooling
<1>3. HealthInvariant /\ LastCopyCurrent /\ [Next]_vars => [Kept]_vars
  BY <1>2
<1> QED
  BY <1>1, <1>3, HealthInvariantHolds, CopyStep, PTL DEF Spec, OrderlyRestartKeepsCooldowns
=============================================================================
