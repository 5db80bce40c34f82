------------------------------ MODULE Admission ------------------------------
(***************************************************************************)
(* Admission control of litegate's virtual keys (internal/api/admission.go *)
(* with the parts of proxy.go, store/usage.go and store/apikeys.go that    *)
(* call it).  Every proxied request passes authenticate, admit and enter,  *)
(* is forwarded, and is then accounted by logRequest: record charges the   *)
(* windows in memory, AddKeyUsageDay charges the ledger in SQLite, and the *)
(* deferred release gives the concurrency permit back.                     *)
(*                                                                         *)
(* Each of those calls is one step; other handlers, the administrator, the *)
(* clock and a crash may come between any two of them.  admit, enter and   *)
(* record run under keyAdmission.mu, so each is atomic, but time.Now() is  *)
(* read before the lock is taken and the limits were read from the         *)
(* database even earlier: both are kept in the request and may be stale.   *)
(*                                                                         *)
(* One clock tick stands for any stretch of time; Window is the minute of  *)
(* the rate limits, DayLen and MonthDays give the UTC day and month.       *)
(* Costs are in units of the two price currencies and Rate is the (here    *)
(* constant) number of CNY units per USD unit.  Alerts raised by admit are *)
(* sent to another component and never read back.                          *)
(***************************************************************************)
EXTENDS Integers, Sequences, FiniteSets, FiniteSetsExt, InPlaceFilter

CONSTANTS
  Keys,        \* virtual keys
  NoKey,       \* no key: the value of an idle handler's key
  Reqs,        \* handler goroutines
  Limits,      \* the governance settings an administrator may save
  Charges,     \* what a finished request may cost
  Window,      \* ticks in the RPM / TPM window
  DayLen,      \* ticks in a UTC day
  MonthDays,   \* days in a UTC month
  TzOffset,    \* ticks the local midnight is ahead of the UTC midnight
  Rate,        \* usd_cny_rate
  MaxClock,    \* bound: last instant of the clock
  MaxStarts,   \* bound: requests that arrive
  MaxUpdates,  \* bound: settings saved by the administrator
  MaxRestarts  \* bound: crashes followed by a restart

Periods == {"daily", "monthly"}
NoExpiry == -1

\* The governance fields of store.APIKey.  0 (and NoExpiry) mean "no limit".
LimitRecord ==
  [rpm : Nat, tpm : Nat, conc : Nat, expires : Int,
   usd : Nat, tokens : Nat, period : Periods]
Unlimited ==
  [rpm |-> 0, tpm |-> 0, conc |-> 0, expires |-> NoExpiry,
   usd |-> 0, tokens |-> 0, period |-> "daily"]

ChargeRecord == [tok : Nat, usd : Nat, cny : Nat]
NoCharge == [tok |-> 0, usd |-> 0, cny |-> 0]

ASSUME AdmissionAssumption ==
  /\ NoKey \notin Keys
  /\ IsFiniteSet(Reqs)
  /\ Limits \subseteq LimitRecord
  /\ Charges \subseteq ChargeRecord
  /\ Window \in Nat \ {0} /\ DayLen \in Nat \ {0} /\ MonthDays \in Nat \ {0}
  /\ TzOffset \in Int /\ Rate \in Nat \ {0}
  /\ MaxClock \in Nat /\ MaxStarts \in Nat
  /\ MaxUpdates \in Nat /\ MaxRestarts \in Nat

VARIABLES
  clock,   \* the wall clock
  limits,  \* limits[k]: the governance columns of k's row in api_keys
  req,     \* req[r]: what handler r is doing, and the values it has read
  rpm,     \* rpm[k]: request times (keyAdmission.rpm)
  tpm,     \* tpm[k]: token points (keyAdmission.tpm)
  cur,     \* cur[k]: concurrent requests (keyAdmission.cur)
  win,     \* win[k][p]: usage of the budget window (keyAdmission.day, month)
  ledger,  \* ledger[k][p][n]: what key_usage_day holds for day or month n
  count,   \* how often the bounded actions have happened
  grants,  \* history: the RPM slots handed out since the start
  points   \* history: token points recorded since the start

vars == <<clock, limits, req, rpm, tpm, cur, win, ledger, count, grants, points>>

-----------------------------------------------------------------------------
(* Time and windows *)

Days == 0..(MaxClock \div DayLen)
DayOf(t) == t \div DayLen

\* dayLabel() and monthLabel() at the present instant.
Label(p) == IF p = "monthly" THEN DayOf(clock) \div MonthDays ELSE DayOf(clock)

NoLabel == -1
UseRecord == [label : Int, tok : Nat, usd : Nat, cny : Nat]
EmptyUse(label) == [label |-> label, tok |-> 0, usd |-> 0, cny |-> 0]

\* budgetWindow: a window with an old label (or none) starts again from zero.
Current(k, p) ==
  IF win[k][p].label = Label(p) THEN win[k][p] ELSE EmptyUse(Label(p))

AddCharge(w, c) ==
  [w EXCEPT !.tok = @ + c.tok, !.usd = @ + c.usd, !.cny = @ + c.cny]

HasBudget(l) == l.usd > 0 \/ l.tokens > 0

\* Mutant of OverBudget: the budget must be passed, not reached.
OverBudgetLate(l, w) ==
  \/ l.usd > 0 /\ w.usd * Rate + w.cny > l.usd * Rate
  \/ l.tokens > 0 /\ w.tok > l.tokens

\* usdEquiv(rate) >= BudgetUSD, both sides multiplied by the rate, or the
\* token budget reached.
OverBudget(l, w) ==
  \/ l.usd > 0 /\ w.usd * Rate + w.cny >= l.usd * Rate
  \/ l.tokens > 0 /\ w.tok >= l.tokens

\* ExpiresAt is a date of the local time zone; the key lasts through that day.
Expired(l, now) ==
  l.expires # NoExpiry /\ now > (l.expires + 1) * DayLen - TzOffset

\* The elements that pruneTimes and pruneTok keep.
FreshTimes(q, now) == {i \in DOMAIN q : now - q[i] < Window}
FreshToks(q, now) == {i \in DOMAIN q : now - q[i].ts < Window}

Tokens(q, indices) == SumFunctionOnSet([i \in DOMAIN q |-> q[i].tok], indices)

-----------------------------------------------------------------------------
(* The state of a request.  Its fields are the locals of the handler: the  *)
(* row it read, the instant it took as now, and what the request cost.     *)

Stages ==
  {"idle", "found", "timed", "admitted", "inside", "done", "recorded", "settled"}
ReqRecord ==
  [stage : Stages, key : Keys \cup {NoKey}, limits : LimitRecord,
   now : Nat, charge : ChargeRecord]
IdleReq ==
  [stage |-> "idle", key |-> NoKey, limits |-> Unlimited,
   now |-> 0, charge |-> NoCharge]

TokPoint == [ts : Nat, tok : Nat]

\* A slot as the history has it: taken at an instant, stored with a stamp, the
\* now of a handler that has perhaps waited for the lock.
Grant == [at : Nat, stamp : Nat]

TypeOK ==
  /\ clock \in 0..MaxClock
  /\ limits \in [Keys -> LimitRecord]
  /\ req \in [Reqs -> ReqRecord]
  /\ \A r \in Reqs : req[r].stage # "idle" => req[r].key \in Keys
  /\ rpm \in [Keys -> Seq(Nat)]
  /\ tpm \in [Keys -> Seq(TokPoint)]
  /\ cur \in [Keys -> Int]
  /\ win \in [Keys -> [Periods -> UseRecord]]
  /\ ledger \in [Keys -> [Periods -> [Days -> ChargeRecord]]]
  /\ count \in [starts : Nat, updates : Nat, restarts : Nat]
  /\ grants \in [Keys -> Seq(Grant)]
  /\ points \in [Keys -> Seq(TokPoint)]

Init ==
  /\ clock = 0
  /\ limits \in [Keys -> Limits]
  /\ req = [r \in Reqs |-> IdleReq]
  /\ rpm = [k \in Keys |-> <<>>]
  /\ tpm = [k \in Keys |-> <<>>]
  /\ cur = [k \in Keys |-> 0]
  /\ win = [k \in Keys |-> [p \in Periods |-> EmptyUse(NoLabel)]]
  /\ ledger = [k \in Keys |-> [p \in Periods |-> [d \in Days |-> NoCharge]]]
  /\ count = [starts |-> 0, updates |-> 0, restarts |-> 0]
  /\ grants = [k \in Keys |-> <<>>]
  /\ points = [k \in Keys |-> <<>>]

At(r, stage) == req[r].stage = stage
Goto(r, stage) == req' = [req EXCEPT ![r].stage = stage]
Finished(r) == req' = [req EXCEPT ![r] = IdleReq]

\* Handlers that went through enter with a concurrency limit: they have
\* increased cur and will run the deferred release.
HoldsPermit(r) ==
  /\ req[r].stage \in {"inside", "done", "recorded", "settled"}
  /\ req[r].limits.conc > 0
Holders(k) == {r \in Reqs : req[r].key = k /\ HoldsPermit(r)}

-----------------------------------------------------------------------------
(* authenticate and admit *)

\* Mutant of Authenticate: the row's limits are kept but not its identity.
AuthenticateWithoutKey(r, k) ==
  /\ At(r, "idle")
  /\ count.starts < MaxStarts
  /\ count' = [count EXCEPT !.starts = @ + 1]
  /\ req' = [req EXCEPT ![r] = [@ EXCEPT !.stage = "found", !.limits = limits[k]]]
  /\ UNCHANGED <<clock, limits, rpm, tpm, cur, win, ledger, grants, points>>

\* authenticate reads the key's row: everything below uses this copy.
Authenticate(r, k) ==
  /\ At(r, "idle")
  /\ count.starts < MaxStarts
  /\ count' = [count EXCEPT !.starts = @ + 1]
  /\ req' = [req EXCEPT ![r] =
               [@ EXCEPT !.stage = "found", !.key = k, !.limits = limits[k]]]
  /\ UNCHANGED <<clock, limits, rpm, tpm, cur, win, ledger, grants, points>>

\* The first statement of admit, before the lock is taken.
ReadClock(r) ==
  /\ At(r, "found")
  /\ req' = [req EXCEPT ![r] = [@ EXCEPT !.stage = "timed", !.now = clock]]
  /\ UNCHANGED <<clock, limits, rpm, tpm, cur, win, ledger, count, grants, points>>

\* Mutants of RpmKept: the slice is not pruned; a handler with an old now drops
\* the slots that others took since.
RpmKeptAll(r) == DOMAIN rpm[req[r].key]
RpmKeptPast(r) ==
  LET q == rpm[req[r].key]
      now == req[r].now IN
  {i \in FreshTimes(q, now) : q[i] <= now}

\* What the checks of admit look at once the lock is held.
RpmKept(r) == FreshTimes(rpm[req[r].key], req[r].now)
TpmKept(r) == FreshToks(tpm[req[r].key], req[r].now)

\* Mutant of TpmFull: one token too many.
TpmFullLate(r) ==
  /\ req[r].limits.tpm > 0
  /\ Tokens(tpm[req[r].key], TpmKept(r)) > req[r].limits.tpm

RpmFull(r) ==
  req[r].limits.rpm > 0 /\ Cardinality(RpmKept(r)) >= req[r].limits.rpm
TpmFull(r) ==
  /\ req[r].limits.tpm > 0
  /\ Tokens(tpm[req[r].key], TpmKept(r)) >= req[r].limits.tpm
BudgetSpent(r) ==
  OverBudget(req[r].limits, Current(req[r].key, req[r].limits.period))

\* The RPM check lets the request through and takes a slot.
TakeRpmSlot(r) ==
  LET k == req[r].key IN
  /\ ~RpmFull(r)
  /\ IF req[r].limits.rpm > 0
     THEN /\ rpm' = [rpm EXCEPT ![k] = Append(Filtered(@, RpmKept(r)), req[r].now)]
          /\ grants' = [grants EXCEPT ![k] =
                          Append(@, [at |-> clock, stamp |-> req[r].now])]
     ELSE UNCHANGED <<rpm, grants>>

\* The TPM check lets the request through and stores the pruned slice.
PassTpm(r) ==
  LET k == req[r].key IN
  /\ ~TpmFull(r)
  /\ IF req[r].limits.tpm > 0
     THEN tpm' = [tpm EXCEPT ![k] = Filtered(@, TpmKept(r))]
     ELSE UNCHANGED tpm

\* budgetWindow replaces a window whose label has passed.
RollWindow(k, l) ==
  IF HasBudget(l)
  THEN win' = [win EXCEPT ![k][l.period] = Current(k, l.period)]
  ELSE UNCHANGED win

RefuseExpired(r) ==
  /\ At(r, "timed")
  /\ Expired(req[r].limits, req[r].now)
  /\ Finished(r)
  /\ UNCHANGED <<clock, limits, rpm, tpm, cur, win, ledger, count, grants, points>>

\* pruneTimes has already compacted the array of the slice it does not store.
RefuseRpm(r) ==
  /\ At(r, "timed")
  /\ ~Expired(req[r].limits, req[r].now)
  /\ RpmFull(r)
  /\ rpm' = [rpm EXCEPT ![req[r].key] = Compact(@, RpmKept(r))]
  /\ Finished(r)
  /\ UNCHANGED <<clock, limits, tpm, cur, win, ledger, count, grants, points>>

\* The RPM slot is taken all the same, and pruneTok has compacted the array.
RefuseTpm(r) ==
  /\ At(r, "timed")
  /\ ~Expired(req[r].limits, req[r].now)
  /\ TakeRpmSlot(r)
  /\ TpmFull(r)
  /\ tpm' = [tpm EXCEPT ![req[r].key] = Compact(@, TpmKept(r))]
  /\ Finished(r)
  /\ UNCHANGED <<clock, limits, cur, win, ledger, count, points>>

RefuseBudget(r) ==
  /\ At(r, "timed")
  /\ ~Expired(req[r].limits, req[r].now)
  /\ TakeRpmSlot(r)
  /\ PassTpm(r)
  /\ BudgetSpent(r)
  /\ RollWindow(req[r].key, req[r].limits)
  /\ Finished(r)
  /\ UNCHANGED <<clock, limits, cur, ledger, count, points>>

Admit(r) ==
  /\ At(r, "timed")
  /\ ~Expired(req[r].limits, req[r].now)
  /\ TakeRpmSlot(r)
  /\ PassTpm(r)
  /\ ~BudgetSpent(r)
  /\ RollWindow(req[r].key, req[r].limits)
  /\ Goto(r, "admitted")
  /\ UNCHANGED <<clock, limits, cur, ledger, count, points>>

-----------------------------------------------------------------------------
(* enter and release: the concurrency permits *)

\* Mutants: the counter is raised before the check and a refusal leaves it
\* raised; the check lets one handler too many through; the deferred release
\* also runs for requests that took no permit.
RefuseConcurrencyCounted(r) ==
  /\ At(r, "admitted")
  /\ req[r].limits.conc > 0
  /\ cur[req[r].key] >= req[r].limits.conc
  /\ cur' = [cur EXCEPT ![req[r].key] = @ + 1]
  /\ Finished(r)
  /\ UNCHANGED <<clock, limits, rpm, tpm, win, ledger, count, grants, points>>
EnterLate(r) ==
  LET k == req[r].key IN
  /\ At(r, "admitted")
  /\ IF req[r].limits.conc > 0
     THEN /\ cur[k] <= req[r].limits.conc
          /\ cur' = [cur EXCEPT ![k] = @ + 1]
     ELSE UNCHANGED cur
  /\ Goto(r, "inside")
  /\ UNCHANGED <<clock, limits, rpm, tpm, win, ledger, count, grants, points>>
ReleaseAlways(r) ==
  /\ At(r, "settled")
  /\ cur' = [cur EXCEPT ![req[r].key] = @ - 1]
  /\ Finished(r)
  /\ UNCHANGED <<clock, limits, rpm, tpm, win, ledger, count, grants, points>>

RefuseConcurrency(r) ==
  /\ At(r, "admitted")
  /\ req[r].limits.conc > 0
  /\ cur[req[r].key] >= req[r].limits.conc
  /\ Finished(r)
  /\ UNCHANGED <<clock, limits, rpm, tpm, cur, win, ledger, count, grants, points>>

Enter(r) ==
  LET k == req[r].key IN
  /\ At(r, "admitted")
  /\ IF req[r].limits.conc > 0
     THEN /\ cur[k] < req[r].limits.conc
          /\ cur' = [cur EXCEPT ![k] = @ + 1]
     ELSE UNCHANGED cur
  /\ Goto(r, "inside")
  /\ UNCHANGED <<clock, limits, rpm, tpm, win, ledger, count, grants, points>>

\* The deferred release, on every path that leaves serveBody after enter.
Release(r) ==
  LET k == req[r].key IN
  /\ At(r, "settled")
  /\ IF req[r].limits.conc > 0
     THEN cur' = [cur EXCEPT ![k] = @ - 1]
     ELSE UNCHANGED cur
  /\ Finished(r)
  /\ UNCHANGED <<clock, limits, rpm, tpm, win, ledger, count, grants, points>>

-----------------------------------------------------------------------------
(* logRequest: record, then AddKeyUsageDay *)

\* The response (or the 502) is complete: logRequest has priced it, and
\* record has read the clock but does not have the lock yet.
Complete(r, c) ==
  /\ At(r, "inside")
  /\ req' = [req EXCEPT ![r] =
               [@ EXCEPT !.stage = "done", !.charge = c, !.now = clock]]
  /\ UNCHANGED <<clock, limits, rpm, tpm, cur, win, ledger, count, grants, points>>

Record(r) ==
  LET k == req[r].key
      l == req[r].limits
      point == [ts |-> req[r].now, tok |-> req[r].charge.tok]
  IN
  /\ At(r, "done")
  /\ IF l.tpm > 0
     THEN /\ tpm' = [tpm EXCEPT ![k] = Append(Filtered(@, TpmKept(r)), point)]
          /\ points' = [points EXCEPT ![k] = Append(@, point)]
     ELSE UNCHANGED <<tpm, points>>
  /\ IF HasBudget(l)
     THEN win' = [win EXCEPT ![k][l.period] =
                    AddCharge(Current(k, l.period), req[r].charge)]
     ELSE UNCHANGED win
  /\ Goto(r, "recorded")
  /\ UNCHANGED <<clock, limits, rpm, cur, ledger, count, grants>>

\* The rows of the present day and month after a charge.
Charged(k, c) ==
  [p \in Periods |-> [ledger[k][p] EXCEPT ![Label(p)] = AddCharge(@, c)]]

\* Mutant of Settle: only requests that cost money reach the ledger.
SettleCostly(r) ==
  /\ At(r, "recorded")
  /\ IF req[r].charge.usd > 0
     THEN ledger' = [ledger EXCEPT ![req[r].key] = Charged(req[r].key, req[r].charge)]
     ELSE UNCHANGED ledger
  /\ Goto(r, "settled")
  /\ UNCHANGED <<clock, limits, rpm, tpm, cur, win, count, grants, points>>

\* AddKeyUsageDay: the UPSERT of one day's row, whatever limits are set.
Settle(r) ==
  /\ At(r, "recorded")
  /\ ledger' = [ledger EXCEPT ![req[r].key] = Charged(req[r].key, req[r].charge)]
  /\ Goto(r, "settled")
  /\ UNCHANGED <<clock, limits, rpm, tpm, cur, win, count, grants, points>>

-----------------------------------------------------------------------------
(* The administrator, the clock, and a crash *)

\* PUT /api/admin/keys/{id}: the row is replaced; the memory state of the key
\* is not touched.
UpdateKey(k, l) ==
  /\ count.updates < MaxUpdates
  /\ limits[k] # l
  /\ limits' = [limits EXCEPT ![k] = l]
  /\ count' = [count EXCEPT !.updates = @ + 1]
  /\ UNCHANGED <<clock, req, rpm, tpm, cur, win, ledger, grants, points>>

\* The console's key list calls budgetUsage, which rolls the window as well.
BudgetUsage(k) ==
  /\ RollWindow(k, limits[k])
  /\ UNCHANGED <<clock, limits, req, rpm, tpm, cur, ledger, count, grants, points>>

Tick ==
  /\ clock < MaxClock
  /\ clock' = clock + 1
  /\ UNCHANGED <<limits, req, rpm, tpm, cur, win, ledger, count, grants, points>>

\* KeyUsageSince the first day of the present window.
Loaded(k, p) == AddCharge(EmptyUse(Label(p)), ledger[k][p][Label(p)])

\* The process dies and starts again: newKeyAdmission and load.
Restart ==
  /\ count.restarts < MaxRestarts
  /\ count' = [count EXCEPT !.restarts = @ + 1]
  /\ req' = [r \in Reqs |-> IdleReq]
  /\ rpm' = [k \in Keys |-> <<>>]
  /\ tpm' = [k \in Keys |-> <<>>]
  /\ cur' = [k \in Keys |-> 0]
  /\ win' = [k \in Keys |-> [p \in Periods |-> Loaded(k, p)]]
  /\ grants' = [k \in Keys |-> <<>>]
  /\ points' = [k \in Keys |-> <<>>]
  /\ UNCHANGED <<clock, limits, ledger>>

Handler(r) ==
  \/ \E k \in Keys : Authenticate(r, k)
  \/ ReadClock(r)
  \/ RefuseExpired(r) \/ RefuseRpm(r) \/ RefuseTpm(r) \/ RefuseBudget(r)
  \/ Admit(r)
  \/ RefuseConcurrency(r)
  \/ Enter(r)
  \/ \E c \in Charges : Complete(r, c)
  \/ Record(r)
  \/ Settle(r)
  \/ Release(r)

Next ==
  \/ \E r \in Reqs : Handler(r)
  \/ \E k \in Keys, l \in Limits : UpdateKey(k, l)
  \/ \E k \in Keys : BudgetUsage(k)
  \/ Tick
  \/ Restart

Spec == Init /\ [][Next]_vars

-----------------------------------------------------------------------------
(* Properties *)

\* Concurrency: the counter of a key is exactly the number of handlers that
\* will still give a permit back, whatever refusals, limit changes and
\* crashes came before.  A permit that leaks refuses the key for good; one
\* that is returned twice lifts the limit.
PermitsExact == \A k \in Keys : cur[k] = Cardinality(Holders(k))

\* Concurrency: no more handlers of a key run under a limit than the largest
\* limit an administrator has ever been able to set, although each compares
\* the counter with the limit it read at its start.
PermitsBounded ==
  \A k \in Keys :
    Holders(k) # {} => \E l \in Limits : Cardinality(Holders(k)) <= l.conc

\* Concurrency: admission implements a counting semaphore for each key, whose
\* capacity is one of the limits that can be set.
Semaphore ==
  INSTANCE Permits WITH Procs <- Reqs,
                        Capacities <- {l.conc : l \in Limits},
                        held <- [k \in Keys |-> Holders(k)]
PermitsImplemented == Semaphore!Spec

\* The RPM slots taken in the Window that ends now, whatever their stamps, and
\* the tokens recorded in it, dated as record dates them.
LiveGrants(k, now) ==
  Cardinality({i \in DOMAIN grants[k] : now - grants[k][i].at < Window})
LiveTokens(k, now) == Tokens(points[k], FreshToks(points[k], now))

\* Among the slots of the last Window - wait ticks, those of handlers that
\* waited at most wait ticks between reading the clock and taking the slot.
PromptGrants(k, wait) ==
  {i \in DOMAIN grants[k] :
     /\ grants[k][i].at - grants[k][i].stamp <= wait
     /\ clock - grants[k][i].at < Window - wait}

TakesSlot(r) ==
  LET k == req[r].key IN
  /\ At(r, "timed")
  /\ req'[r] # req[r]
  /\ Len(grants'[k]) > Len(grants[k])

\* Rate limits, soundness: what the wait for the lock can add to the RPM limit.
\* Slots are stamped with a clock read before the lock is taken
\* (admission.go:136), so they leave the slice early by as much as their
\* handler has waited, and no earlier: a request takes a slot only when fewer
\* than its limit were taken in the last Window - wait ticks by handlers that
\* had waited at most wait, for every wait.  Where nobody waits (wait = 0) that
\* is the whole Window; otherwise the window of admission.go:3 may hold more.
RpmBoundedByWait ==
  [][\A r \in Reqs, wait \in 0..(Window - 1) :
       TakesSlot(r) =>
         Cardinality(PromptGrants(req[r].key, wait)) < req[r].limits.rpm]_vars

\* A request passes the TPM check only when fewer tokens than its limit were
\* recorded in the window that ends now: handlers that waited for the lock with
\* an old now do not lose points that still count.
TpmNeverExceeded ==
  [][\A r \in Reqs :
       Admit(r) /\ req[r].limits.tpm > 0
       => LiveTokens(req[r].key, clock) < req[r].limits.tpm]_vars

\* Rate limits, precision: a request is refused for its RPM limit only when
\* that many slots were really taken in the minute before its now (or since).
RpmRefusalJustified ==
  [][\A r \in Reqs :
       RefuseRpm(r) => LiveGrants(req[r].key, req[r].now) >= req[r].limits.rpm]_vars

\* The same for tokens (admission.go:3 calls both limits sliding windows).
TpmRefusalJustified ==
  [][\A r \in Reqs :
       RefuseTpm(r) => LiveTokens(req[r].key, req[r].now) >= req[r].limits.tpm]_vars

\* Budgets, after a crash: load brings back everything the windows had in
\* memory except what record had charged and AddKeyUsageDay had not (the
\* ledger is written after the window, and perhaps on the next day).
Unsettled(k) ==
  {r \in Reqs : req[r].key = k /\ At(r, "recorded") /\ HasBudget(req[r].limits)}
Pending(k, part) ==
  SumFunctionOnSet([r \in Reqs |-> req[r].charge[part]], Unsettled(k))
RestartForgetsOnlyUnsettled ==
  \A k \in Keys, p \in Periods, part \in {"tok", "usd", "cny"} :
    Current(k, p)[part] <= Loaded(k, p)[part] + Pending(k, part)

\* Budgets, overshoot: charges arrive after admission, so a token budget can
\* be passed, but only by what the requests in flight when the last one was
\* admitted can cost, as long as the settings stay and the process runs.  (A
\* charge recorded before midnight and settled after it comes back from the
\* ledger in the wrong window.)
InFlight(k) ==
  {r \in Reqs : req[r].key = k /\ req[r].stage \in {"admitted", "inside", "done"}}
DearestCharge == Max({c.tok : c \in Charges})
OvershootBounded ==
  count.updates = 0 /\ count.restarts = 0 =>
    \A k \in Keys :
      limits[k].tokens > 0 =>
        Current(k, limits[k].period).tok + DearestCharge * Cardinality(InFlight(k))
          < limits[k].tokens + DearestCharge * Cardinality(Reqs)
=============================================================================
