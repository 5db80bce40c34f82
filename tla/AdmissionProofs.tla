--------------------------- MODULE AdmissionProofs ---------------------------
(***************************************************************************)
(* Theorems about admission control, for every set of keys, handlers,      *)
(* limits and charges, and every bound.                                    *)
(***************************************************************************)
EXTENDS Admission, InPlaceFilterProofs, FiniteSetTheorems, SequenceTheorems, TLAPS

-----------------------------------------------------------------------------
(* Types of the helpers *)

\* Updating one entry of a table of tables.
LEMMA NestedUpdate ==
  ASSUME NEW K, NEW P, NEW S, NEW f \in [K -> [P -> S]],
         NEW k \in K, NEW p \in P, NEW v \in S
  PROVE  [f EXCEPT ![k][p] = v] \in [K -> [P -> S]]
<1>1. [f[k] EXCEPT ![p] = v] \in [P -> S]
  OBVIOUS
<1> QED
  BY <1>1

\* The instant a window starts is the label of a row of the ledger.
LEMMA LabelInDays ==
  ASSUME TypeOK
  PROVE  \A p \in Periods : Label(p) \in Days
<1>1. clock \in Nat /\ clock <= MaxClock
  BY AdmissionAssumption DEF TypeOK
<1>2. \A a, b \in Nat, n \in Nat \ {0} :
        a <= b => a \div n \in Nat /\ a \div n <= b \div n
  OBVIOUS
<1>3. \A a \in Nat, n \in Nat \ {0} : a \div n <= a
  OBVIOUS
<1>4. DayOf(clock) \in Nat /\ DayOf(clock) <= MaxClock \div DayLen
  BY <1>1, <1>2, AdmissionAssumption DEF DayOf
<1>5. MaxClock \div DayLen \in Nat
  BY <1>2, AdmissionAssumption
<1>6. DayOf(clock) \div MonthDays \in Nat /\ DayOf(clock) \div MonthDays <= DayOf(clock)
  BY <1>2, <1>3, <1>4, AdmissionAssumption
<1> QED
  BY <1>4, <1>5, <1>6 DEF Label, Days

\* A window after budgetWindow, and a window or a ledger row after a charge.
LEMMA WindowTypes ==
  ASSUME TypeOK
  PROVE  /\ \A k \in Keys, p \in Periods : Current(k, p) \in UseRecord
         /\ \A w \in UseRecord, c \in ChargeRecord : AddCharge(w, c) \in UseRecord
         /\ \A c, d \in ChargeRecord : AddCharge(c, d) \in ChargeRecord
<1>1. ASSUME NEW k \in Keys, NEW p \in Periods
      PROVE  Current(k, p) \in UseRecord
  <2>1. win[k][p] \in UseRecord
    BY DEF TypeOK
  <2>2. EmptyUse(Label(p)) \in UseRecord
    BY LabelInDays DEF EmptyUse, UseRecord, Days
  <2> QED
    BY <2>1, <2>2 DEF Current
<1>2. ASSUME NEW w \in UseRecord, NEW c \in ChargeRecord
      PROVE  AddCharge(w, c) \in UseRecord
  <2>1. w.tok + c.tok \in Nat /\ w.usd + c.usd \in Nat /\ w.cny + c.cny \in Nat
    BY DEF UseRecord, ChargeRecord
  <2> QED
    BY <2>1 DEF AddCharge, UseRecord
<1>3. ASSUME NEW d \in ChargeRecord, NEW c \in ChargeRecord
      PROVE  AddCharge(d, c) \in ChargeRecord
  <2>1. d.tok + c.tok \in Nat /\ d.usd + c.usd \in Nat /\ d.cny + c.cny \in Nat
    BY DEF ChargeRecord
  <2> QED
    BY <2>1 DEF AddCharge, ChargeRecord
<1> QED
  BY <1>1, <1>2, <1>3

LEMMA RollType ==
  ASSUME TypeOK, NEW k \in Keys, NEW l \in LimitRecord, RollWindow(k, l)
  PROVE  win' \in [Keys -> [Periods -> UseRecord]]
<1>1. l.period \in Periods
  BY DEF LimitRecord
<1>2. Current(k, l.period) \in UseRecord
  BY <1>1, WindowTypes
<1>3. win \in [Keys -> [Periods -> UseRecord]]
  BY DEF TypeOK
<1>4. [win EXCEPT ![k][l.period] = Current(k, l.period)]
        \in [Keys -> [Periods -> UseRecord]]
  BY <1>1, <1>2, <1>3, NestedUpdate
<1> QED
  BY <1>3, <1>4 DEF RollWindow

\* The slices that the two rate checks leave behind.
LEMMA QueueTypes ==
  ASSUME TypeOK, NEW r \in Reqs, ~At(r, "idle")
  PROVE  LET k == req[r].key IN
         /\ k \in Keys
         /\ Filtered(rpm[k], RpmKept(r)) \in Seq(Nat)
         /\ Compact(rpm[k], RpmKept(r)) \in Seq(Nat)
         /\ Filtered(tpm[k], TpmKept(r)) \in Seq(TokPoint)
         /\ Compact(tpm[k], TpmKept(r)) \in Seq(TokPoint)
<1> DEFINE k == req[r].key
<1>1. k \in Keys
  BY DEF TypeOK, At
<1>2. rpm[k] \in Seq(Nat) /\ tpm[k] \in Seq(TokPoint)
  BY <1>1 DEF TypeOK
<1>3. RpmKept(r) \in SUBSET DOMAIN rpm[k]
  BY DEF RpmKept, FreshTimes
<1>4. TpmKept(r) \in SUBSET DOMAIN tpm[k]
  BY DEF TpmKept, FreshToks
<1> QED
  BY <1>1, <1>2, <1>3, <1>4, FilterType

LEMMA RateTypes ==
  ASSUME TypeOK, NEW r \in Reqs, ~At(r, "idle")
  PROVE  /\ TakeRpmSlot(r) => /\ rpm' \in [Keys -> Seq(Nat)]
                              /\ grants' \in [Keys -> Seq(Grant)]
         /\ PassTpm(r) => tpm' \in [Keys -> Seq(TokPoint)]
<1> DEFINE k == req[r].key
           slot == [at |-> clock, stamp |-> req[r].now]
<1>1. k \in Keys /\ req[r].now \in Nat
  BY DEF TypeOK, At, ReqRecord
<1>2. ASSUME TakeRpmSlot(r)
      PROVE  rpm' \in [Keys -> Seq(Nat)] /\ grants' \in [Keys -> Seq(Grant)]
  <2>1. /\ Append(Filtered(rpm[k], RpmKept(r)), req[r].now) \in Seq(Nat)
        /\ Append(grants[k], slot) \in Seq(Grant)
    <3>1. slot \in Grant
      BY <1>1, AdmissionAssumption DEF TypeOK, Grant
    <3> QED
      BY <1>1, <3>1, QueueTypes, AppendProperties DEF TypeOK
  <2> QED
    BY <1>2, <2>1, <1>1 DEF TakeRpmSlot, TypeOK
<1>3. ASSUME PassTpm(r)
      PROVE  tpm' \in [Keys -> Seq(TokPoint)]
  BY <1>3, <1>1, QueueTypes DEF PassTpm, TypeOK
<1> QED
  BY <1>2, <1>3

LEMMA IdleTyped == IdleReq \in ReqRecord /\ IdleReq.stage = "idle"
  BY DEF IdleReq, ReqRecord, Stages, Unlimited, LimitRecord, NoExpiry, NoCharge,
         ChargeRecord, Periods

LEMMA ReqUpdate ==
  ASSUME TypeOK, NEW r \in Reqs, NEW v \in ReqRecord,
         v.stage # "idle" => v.key \in Keys,
         req' = [req EXCEPT ![r] = v]
  PROVE  /\ req' \in [Reqs -> ReqRecord]
         /\ \A s \in Reqs : req'[s].stage # "idle" => req'[s].key \in Keys
  BY DEF TypeOK

\* A handler that finishes or moves on keeps a well-typed request record.
LEMMA ReqTypes ==
  ASSUME TypeOK, NEW r \in Reqs
  PROVE  /\ Finished(r) =>
              /\ req' \in [Reqs -> ReqRecord]
              /\ \A s \in Reqs : req'[s].stage # "idle" => req'[s].key \in Keys
         /\ \A stage \in Stages :
              Goto(r, stage) /\ ~At(r, "idle") =>
                /\ req' \in [Reqs -> ReqRecord]
                /\ \A s \in Reqs : req'[s].stage # "idle" => req'[s].key \in Keys
<1>1. IdleReq \in ReqRecord
  BY IdleTyped
<1>2. ASSUME Finished(r)
      PROVE  /\ req' \in [Reqs -> ReqRecord]
             /\ \A s \in Reqs : req'[s].stage # "idle" => req'[s].key \in Keys
  BY <1>1, <1>2 DEF Finished, TypeOK, IdleReq
<1>3. ASSUME NEW stage \in Stages, Goto(r, stage), ~At(r, "idle")
      PROVE  /\ req' \in [Reqs -> ReqRecord]
             /\ \A s \in Reqs : req'[s].stage # "idle" => req'[s].key \in Keys
  BY <1>3 DEF Goto, At, TypeOK, ReqRecord
<1> QED
  BY <1>2, <1>3

-----------------------------------------------------------------------------
(* Every step keeps the types *)

LEMMA HandlerType ==
  ASSUME TypeOK, NEW r \in Reqs, Handler(r)
  PROVE  TypeOK'
<1> USE DEF Stages
<1>1. ASSUME NEW k \in Keys, Authenticate(r, k)
      PROVE  TypeOK'
  <2>1. limits[k] \in LimitRecord
    BY DEF TypeOK
  <2>2. /\ req' \in [Reqs -> ReqRecord]
        /\ \A s \in Reqs : req'[s].stage # "idle" => req'[s].key \in Keys
    <3> DEFINE v == [req[r] EXCEPT !.stage = "found", !.key = k, !.limits = limits[k]]
    <3>1. v \in ReqRecord /\ v.key = k
      BY <2>1 DEF TypeOK, ReqRecord
    <3>2. req' = [req EXCEPT ![r] = v]
      BY <1>1 DEF Authenticate
    <3> HIDE DEF v
    <3> QED
      BY <3>1, <3>2, ReqUpdate
  <2>3. count' \in [starts : Nat, updates : Nat, restarts : Nat]
    <3>1. count.starts + 1 \in Nat
      BY DEF TypeOK
    <3> QED
      BY <1>1, <3>1 DEF Authenticate, TypeOK
  <2> QED
    BY <1>1, <2>2, <2>3 DEF Authenticate, TypeOK
<1>2. CASE ReadClock(r)
  <2>1. clock \in Nat
    BY AdmissionAssumption DEF TypeOK
  <2>2. /\ req' \in [Reqs -> ReqRecord]
        /\ \A s \in Reqs : req'[s].stage # "idle" => req'[s].key \in Keys
    <3> DEFINE v == [req[r] EXCEPT !.stage = "timed", !.now = clock]
    <3>1. v \in ReqRecord /\ v.key \in Keys
      BY <1>2, <2>1 DEF ReadClock, At, TypeOK, ReqRecord
    <3>2. req' = [req EXCEPT ![r] = v]
      BY <1>2 DEF ReadClock
    <3> HIDE DEF v
    <3> QED
      BY <3>1, <3>2, ReqUpdate
  <2> QED
    BY <1>2, <2>2 DEF ReadClock, TypeOK
<1>3. CASE RefuseExpired(r)
  BY <1>3, ReqTypes DEF RefuseExpired, TypeOK
<1>4. CASE RefuseRpm(r)
  <2>1. req[r].key \in Keys /\ Compact(rpm[req[r].key], RpmKept(r)) \in Seq(Nat)
    BY <1>4, QueueTypes DEF RefuseRpm, At
  <2>2. rpm' \in [Keys -> Seq(Nat)]
    BY <1>4, <2>1 DEF RefuseRpm, TypeOK
  <2> QED
    BY <1>4, <2>2, ReqTypes DEF RefuseRpm, TypeOK
<1>5. CASE RefuseTpm(r)
  <2>1. ~At(r, "idle")
    BY <1>5 DEF RefuseTpm, At
  <2>2. req[r].key \in Keys /\ Compact(tpm[req[r].key], TpmKept(r)) \in Seq(TokPoint)
    BY <2>1, QueueTypes
  <2>3. tpm' \in [Keys -> Seq(TokPoint)]
    BY <1>5, <2>2 DEF RefuseTpm, TypeOK
  <2> QED
    BY <1>5, <2>1, <2>3, ReqTypes, RateTypes DEF RefuseTpm, TypeOK
<1>6. CASE RefuseBudget(r)
  <2>1. ~At(r, "idle") /\ req[r].key \in Keys /\ req[r].limits \in LimitRecord
    BY <1>6 DEF RefuseBudget, At, TypeOK, ReqRecord
  <2>2. win' \in [Keys -> [Periods -> UseRecord]]
    BY <1>6, <2>1, RollType DEF RefuseBudget
  <2> QED
    BY <1>6, <2>1, <2>2, ReqTypes, RateTypes DEF RefuseBudget, TypeOK
<1>7. CASE Admit(r)
  <2>1. ~At(r, "idle") /\ req[r].key \in Keys /\ req[r].limits \in LimitRecord
    BY <1>7 DEF Admit, At, TypeOK, ReqRecord
  <2>2. win' \in [Keys -> [Periods -> UseRecord]]
    BY <1>7, <2>1, RollType DEF Admit
  <2> QED
    BY <1>7, <2>1, <2>2, ReqTypes, RateTypes DEF Admit, TypeOK
<1>8. CASE RefuseConcurrency(r)
  BY <1>8, ReqTypes DEF RefuseConcurrency, TypeOK
<1>9. CASE Enter(r)
  <2>1. ~At(r, "idle")
    BY <1>9 DEF Enter, At
  <2>a. cur \in [Keys -> Int]
    BY Zenon DEF TypeOK
  <2>b. cur' = cur \/ \E k : cur' = [cur EXCEPT ![k] = cur[k] + 1]
    BY <1>9 DEF Enter
  <2>2. cur' \in [Keys -> Int]
    BY <2>a, <2>b
  <2> QED
    BY <1>9, <2>1, <2>2, ReqTypes DEF Enter, TypeOK
<1>10. ASSUME NEW c \in Charges, Complete(r, c)
       PROVE  TypeOK'
  <2>1. c \in ChargeRecord /\ clock \in Nat
    BY AdmissionAssumption DEF TypeOK
  <2>2. /\ req' \in [Reqs -> ReqRecord]
        /\ \A s \in Reqs : req'[s].stage # "idle" => req'[s].key \in Keys
    <3> DEFINE v == [req[r] EXCEPT !.stage = "done", !.charge = c, !.now = clock]
    <3>1. v \in ReqRecord /\ v.key \in Keys
      BY <1>10, <2>1 DEF Complete, At, TypeOK, ReqRecord
    <3>2. req' = [req EXCEPT ![r] = v]
      BY <1>10 DEF Complete
    <3> HIDE DEF v
    <3> QED
      BY <3>1, <3>2, ReqUpdate
  <2> QED
    BY <1>10, <2>2 DEF Complete, TypeOK
<1>11. CASE Record(r)
  <2> DEFINE k == req[r].key
             l == req[r].limits
             point == [ts |-> req[r].now, tok |-> req[r].charge.tok]
  <2>1. ~At(r, "idle")
    BY <1>11 DEF Record, At
  <2>2. k \in Keys /\ l \in LimitRecord /\ req[r].charge \in ChargeRecord
    BY <2>1 DEF TypeOK, ReqRecord, At
  <2>3. point \in TokPoint
    BY DEF TypeOK, ReqRecord, ChargeRecord, TokPoint
  <2>4. l.period \in Periods
    BY <2>2 DEF LimitRecord
  <2>5. /\ Append(Filtered(tpm[k], TpmKept(r)), point) \in Seq(TokPoint)
        /\ Append(points[k], point) \in Seq(TokPoint)
    BY <2>1, <2>2, <2>3, QueueTypes, AppendProperties DEF TypeOK
  <2>6. tpm' \in [Keys -> Seq(TokPoint)] /\ points' \in [Keys -> Seq(TokPoint)]
    BY <1>11, <2>2, <2>5 DEF Record, TypeOK
  <2>7. AddCharge(Current(k, l.period), req[r].charge) \in UseRecord
    BY <2>2, <2>4, WindowTypes
  <2>8. win' \in [Keys -> [Periods -> UseRecord]]
    <3>1. win \in [Keys -> [Periods -> UseRecord]]
      BY DEF TypeOK
    <3>2. [win EXCEPT ![k][l.period] = AddCharge(Current(k, l.period), req[r].charge)]
            \in [Keys -> [Periods -> UseRecord]]
      BY <2>2, <2>4, <2>7, <3>1, NestedUpdate
    <3> QED
      BY <1>11, <3>1, <3>2 DEF Record
  <2> QED
    BY <1>11, <2>1, <2>6, <2>8, ReqTypes DEF Record, TypeOK
<1>12. CASE Settle(r)
  <2> DEFINE k == req[r].key
  <2>1. ~At(r, "idle")
    BY <1>12 DEF Settle, At
  <2>2. k \in Keys /\ req[r].charge \in ChargeRecord
    BY <2>1 DEF TypeOK, ReqRecord, At
  <2>3. ledger[k] \in [Periods -> [Days -> ChargeRecord]]
    BY <2>2 DEF TypeOK
  <2>4. \A p \in Periods :
          [ledger[k][p] EXCEPT ![Label(p)] = AddCharge(@, req[r].charge)]
            \in [Days -> ChargeRecord]
    BY <2>2, <2>3, WindowTypes
  <2>5. Charged(k, req[r].charge) \in [Periods -> [Days -> ChargeRecord]]
    BY <2>4 DEF Charged
  <2>6. ledger' = [ledger EXCEPT ![k] = Charged(k, req[r].charge)]
    BY <1>12 DEF Settle
  <2>7. ledger' \in [Keys -> [Periods -> [Days -> ChargeRecord]]]
    BY <2>2, <2>5, <2>6 DEF TypeOK
  <2> QED
    BY <1>12, <2>1, <2>7, ReqTypes DEF Settle, TypeOK
<1>13. CASE Release(r)
  <2>1. cur' \in [Keys -> Int]
    <3>1. req[r].key \in Keys
      BY <1>13 DEF Release, At, TypeOK
    <3>2. cur[req[r].key] - 1 \in Int
      BY <3>1 DEF TypeOK
    <3> QED
      BY <1>13, <3>1, <3>2 DEF Release, TypeOK
  <2> QED
    BY <1>13, <2>1, ReqTypes DEF Release, TypeOK
<1> QED
  BY <1>1, <1>2, <1>3, <1>4, <1>5, <1>6, <1>7, <1>8, <1>9, <1>10, <1>11,
     <1>12, <1>13 DEF Handler

LEMMA TypeInductive == TypeOK /\ [Next]_vars => TypeOK'
<1> SUFFICES ASSUME TypeOK, [Next]_vars
             PROVE  TypeOK'
  OBVIOUS
<1>1. ASSUME NEW r \in Reqs, Handler(r)
      PROVE  TypeOK'
  BY <1>1, HandlerType
<1>2. ASSUME NEW k \in Keys, NEW l \in Limits, UpdateKey(k, l)
      PROVE  TypeOK'
  <2>1. l \in LimitRecord /\ count.updates + 1 \in Nat
    BY AdmissionAssumption DEF TypeOK
  <2>2. limits' \in [Keys -> LimitRecord]
    BY <1>2, <2>1 DEF UpdateKey, TypeOK
  <2>3. count' \in [starts : Nat, updates : Nat, restarts : Nat]
    BY <1>2, <2>1 DEF UpdateKey, TypeOK
  <2> QED
    BY <1>2, <2>2, <2>3 DEF UpdateKey, TypeOK
<1>3. ASSUME NEW k \in Keys, BudgetUsage(k)
      PROVE  TypeOK'
  <2>1. limits[k] \in LimitRecord
    BY DEF TypeOK
  <2>2. win' \in [Keys -> [Periods -> UseRecord]]
    BY <1>3, <2>1, RollType DEF BudgetUsage
  <2> QED
    BY <1>3, <2>2 DEF BudgetUsage, TypeOK
<1>4. CASE Tick
  BY <1>4, AdmissionAssumption DEF Tick, TypeOK
<1>5. CASE Restart
  <2>1. \A k \in Keys, p \in Periods : Loaded(k, p) \in UseRecord
    <3> SUFFICES ASSUME NEW k \in Keys, NEW p \in Periods
                 PROVE  Loaded(k, p) \in UseRecord
      OBVIOUS
    <3>1. Label(p) \in Days /\ Label(p) \in Int
      BY LabelInDays DEF Days
    <3>2. EmptyUse(Label(p)) \in UseRecord
      BY <3>1 DEF EmptyUse, UseRecord
    <3>3. ledger[k][p][Label(p)] \in ChargeRecord
      BY <3>1 DEF TypeOK
    <3> QED
      BY <3>2, <3>3, WindowTypes DEF Loaded
  <2>2. win' \in [Keys -> [Periods -> UseRecord]]
    BY <1>5, <2>1 DEF Restart
  <2>3. count' \in [starts : Nat, updates : Nat, restarts : Nat]
    <3>1. count.restarts + 1 \in Nat
      BY DEF TypeOK
    <3> QED
      BY <1>5, <3>1 DEF Restart, TypeOK
  <2>4. IdleReq \in ReqRecord /\ IdleReq.stage = "idle"
    BY IdleTyped
  <2>5. /\ req' \in [Reqs -> ReqRecord]
        /\ \A s \in Reqs : req'[s].stage # "idle" => req'[s].key \in Keys
    BY <1>5, <2>4 DEF Restart
  <2> QED
    BY <1>5, <2>2, <2>3, <2>5 DEF Restart, TypeOK
<1>6. CASE UNCHANGED vars
  BY <1>6 DEF vars, TypeOK
<1> QED
  BY <1>1, <1>2, <1>3, <1>4, <1>5, <1>6 DEF Next

LEMMA TypeInit == Init => TypeOK
  BY AdmissionAssumption
  DEF Init, TypeOK, ReqRecord, IdleReq, Stages, Unlimited, LimitRecord, NoExpiry,
      NoCharge, ChargeRecord, Periods, EmptyUse, NoLabel, UseRecord

\* The type invariant holds in every reachable state: no counter, window or
\* ledger row ever leaves its range, whatever limits the administrator saves.
THEOREM TypeCorrect == Spec => []TypeOK
<1>1. Init => TypeOK
  BY TypeInit
<1>2. TypeOK /\ [Next]_vars => TypeOK'
  BY TypeInductive
<1> QED
  BY <1>1, <1>2, PTL DEF Spec

-----------------------------------------------------------------------------
(* The concurrency permits.  Every step leaves all permits alone, hands one *)
(* out, takes one back, or (a crash) takes all of them away; the three      *)
(* theorems below follow from that.                                         *)

Held == [k \in Keys |-> Holders(k)]
NoneHolds(r) == \A k \in Keys : r \notin Held[k]

Undisturbed == cur' = cur /\ Held' = Held
Granted(r, k) ==
  /\ NoneHolds(r)
  /\ \E l \in Limits : cur[k] < l.conc
  /\ cur' = [cur EXCEPT ![k] = @ + 1]
  /\ Held' = [Held EXCEPT ![k] = @ \cup {r}]
Returned(r, k) ==
  /\ r \in Held[k]
  /\ cur' = [cur EXCEPT ![k] = @ - 1]
  /\ Held' = [Held EXCEPT ![k] = @ \ {r}]
Cleared ==
  /\ cur' = [k \in Keys |-> 0]
  /\ Held' = [k \in Keys |-> {}]

\* Only settings that an administrator may save are in the table or in the
\* hands of a handler.
LimitsKnown ==
  /\ limits \in [Keys -> Limits]
  /\ \A r \in Reqs : req[r].stage # "idle" => req[r].limits \in Limits

LEMMA LimitsKnownInductive ==
  TypeOK /\ LimitsKnown /\ [Next]_vars => LimitsKnown'
<1> SUFFICES ASSUME TypeOK, LimitsKnown, [Next]_vars
             PROVE  LimitsKnown'
  OBVIOUS
<1>1. ASSUME NEW r \in Reqs, Handler(r)
      PROVE  LimitsKnown'
  <2>1. limits' = limits
    BY <1>1 DEF Handler, Authenticate, ReadClock, RefuseExpired, RefuseRpm,
         RefuseTpm, RefuseBudget, Admit, RefuseConcurrency, Enter, Complete,
         Record, Settle, Release
  <2>2. \A s \in Reqs \ {r} : req'[s] = req[s]
    BY <1>1 DEF TypeOK, Handler, Authenticate, ReadClock, RefuseExpired, RefuseRpm,
         RefuseTpm, RefuseBudget, Admit, RefuseConcurrency, Enter, Complete,
         Record, Settle, Release, Finished, Goto
  <2>3. req'[r].stage # "idle" => req'[r].limits \in Limits
    <3>1. ASSUME NEW k \in Keys, Authenticate(r, k)
          PROVE  req'[r].limits \in Limits
      BY <3>1 DEF Authenticate, LimitsKnown, TypeOK, ReqRecord
    <3>2. CASE Finished(r)
      BY <3>2, IdleTyped DEF Finished, TypeOK
    <3>3. CASE ~At(r, "idle") /\ (\E stage \in Stages : Goto(r, stage))
      BY <3>3 DEF Goto, At, LimitsKnown, TypeOK, ReqRecord
    <3>4. CASE ReadClock(r)
      BY <3>4 DEF ReadClock, At, LimitsKnown, TypeOK, ReqRecord
    <3>5. ASSUME NEW c \in Charges, Complete(r, c)
          PROVE  req'[r].limits \in Limits
      BY <3>5 DEF Complete, At, LimitsKnown, TypeOK, ReqRecord
    <3> QED
      BY <1>1, <3>1, <3>2, <3>3, <3>4, <3>5
      DEF Handler, RefuseExpired, RefuseRpm, RefuseTpm, RefuseBudget, Admit,
          RefuseConcurrency, Enter, Record, Settle, Release, Stages, At
  <2> QED
    BY <2>1, <2>2, <2>3 DEF LimitsKnown
<1>2. ASSUME NEW k \in Keys, NEW l \in Limits, UpdateKey(k, l)
      PROVE  LimitsKnown'
  BY <1>2 DEF UpdateKey, LimitsKnown
<1>3. ASSUME NEW k \in Keys, BudgetUsage(k)
      PROVE  LimitsKnown'
  BY <1>3 DEF BudgetUsage, LimitsKnown
<1>4. CASE Tick
  BY <1>4 DEF Tick, LimitsKnown
<1>5. CASE Restart
  BY <1>5, IdleTyped DEF Restart, LimitsKnown
<1>6. CASE UNCHANGED vars
  BY <1>6 DEF vars, LimitsKnown
<1> QED
  BY <1>1, <1>2, <1>3, <1>4, <1>5, <1>6 DEF Next

LEMMA LimitsKnownInit == Init => LimitsKnown
  BY IdleTyped DEF Init, LimitsKnown

\* A step of one handler can change the permits of that handler only.
LEMMA OneHandler ==
  ASSUME NEW r \in Reqs, \A s \in Reqs \ {r} : req'[s] = req[s]
  PROVE  /\ (\A k \in Keys : r \in Holders(k)' <=> r \in Holders(k)) => Held' = Held
         /\ \A k \in Keys :
              /\ (\A j \in Keys : r \in Holders(j)' <=> j = k) /\ NoneHolds(r)
                 => Held' = [Held EXCEPT ![k] = @ \cup {r}]
              /\ (\A j \in Keys : r \notin Holders(j)')
                 /\ (\A j \in Keys : r \in Holders(j) <=> j = k)
                 => Held' = [Held EXCEPT ![k] = @ \ {r}]
<1>1. \A k \in Keys, s \in Reqs \ {r} : s \in Holders(k)' <=> s \in Holders(k)
  BY DEF Holders, HoldsPermit
<1>2. \A k \in Keys : Holders(k) \subseteq Reqs /\ Holders(k)' \subseteq Reqs
  BY DEF Holders
<1>3. ASSUME \A k \in Keys : r \in Holders(k)' <=> r \in Holders(k)
      PROVE  Held' = Held
  <2>1. \A k \in Keys : Holders(k)' = Holders(k)
    BY <1>1, <1>2, <1>3
  <2> QED
    BY <2>1 DEF Held
<1>4. ASSUME NEW k \in Keys, \A j \in Keys : r \in Holders(j)' <=> j = k, NoneHolds(r)
      PROVE  Held' = [Held EXCEPT ![k] = @ \cup {r}]
  <2>1. \A j \in Keys : Holders(j)' = IF j = k THEN Holders(j) \cup {r} ELSE Holders(j)
    BY <1>1, <1>2, <1>4 DEF NoneHolds, Held
  <2> QED
    BY <2>1 DEF Held
<1>5. ASSUME NEW k \in Keys, \A j \in Keys : r \notin Holders(j)',
             \A j \in Keys : r \in Holders(j) <=> j = k
      PROVE  Held' = [Held EXCEPT ![k] = @ \ {r}]
  <2>1. \A j \in Keys : Holders(j)' = IF j = k THEN Holders(j) \ {r} ELSE Holders(j)
    BY <1>1, <1>2, <1>5
  <2> QED
    BY <2>1 DEF Held
<1> QED
  BY <1>3, <1>4, <1>5

\* Which handlers hold a permit, and of which key, after a handler's step.
LEMMA HandlerPermits ==
  ASSUME TypeOK, LimitsKnown, NEW r \in Reqs, Handler(r)
  PROVE  \/ Undisturbed
         \/ \E k \in Keys : Granted(r, k) \/ Returned(r, k)
<1> DEFINE moved(v) == req' = [req EXCEPT ![r] = v]
           k == req[r].key
<1>1. \A v : moved(v) => req'[r] = v /\ \A s \in Reqs \ {r} : req'[s] = req[s]
  BY DEF TypeOK
\* Steps from a stage that holds no permit to another one.
<1>2. ASSUME NEW v, moved(v), cur' = cur,
             req[r].stage \in {"idle", "found", "timed", "admitted"},
             v.stage \in {"idle", "found", "timed", "admitted"}
      PROVE  Undisturbed
  <2>1. \A j \in Keys : r \notin Holders(j)' /\ r \notin Holders(j)
    BY <1>1, <1>2 DEF Holders, HoldsPermit
  <2> QED
    BY <1>1, <1>2, <2>1, OneHandler DEF Undisturbed
\* Steps between the stages that come after enter.
<1>3. ASSUME NEW v, moved(v), cur' = cur,
             req[r].stage \in {"inside", "done", "recorded", "settled"},
             v.stage \in {"inside", "done", "recorded", "settled"},
             v.key = req[r].key, v.limits = req[r].limits
      PROVE  Undisturbed
  <2>1. \A j \in Keys : r \in Holders(j)' <=> r \in Holders(j)
    BY <1>1, <1>3 DEF Holders, HoldsPermit
  <2> QED
    BY <1>1, <1>3, <2>1, OneHandler DEF Undisturbed
<1>4. ASSUME Finished(r), cur' = cur,
             req[r].stage \in {"timed", "admitted"}
      PROVE  Undisturbed
  BY <1>2, <1>4, IdleTyped DEF Finished
<1>5. ASSUME NEW j \in Keys, Authenticate(r, j)
      PROVE  Undisturbed
  <2> DEFINE v == [req[r] EXCEPT !.stage = "found", !.key = j, !.limits = limits[j]]
  <2>1. moved(v) /\ cur' = cur /\ req[r].stage = "idle"
    BY <1>5 DEF Authenticate, At
  <2>2. v.stage = "found"
    BY DEF TypeOK, ReqRecord
  <2> HIDE DEF v
  <2> QED
    BY <1>2, <2>1, <2>2
<1>6. CASE ReadClock(r)
  <2> DEFINE v == [req[r] EXCEPT !.stage = "timed", !.now = clock]
  <2>1. moved(v) /\ cur' = cur /\ req[r].stage = "found"
    BY <1>6 DEF ReadClock, At
  <2>2. v.stage = "timed"
    BY DEF TypeOK, ReqRecord
  <2> HIDE DEF v
  <2> QED
    BY <1>2, <2>1, <2>2
<1>7. CASE \/ RefuseExpired(r) \/ RefuseRpm(r) \/ RefuseTpm(r) \/ RefuseBudget(r)
           \/ RefuseConcurrency(r)
  BY <1>4, <1>7
  DEF At, RefuseExpired, RefuseRpm, RefuseTpm, RefuseBudget, RefuseConcurrency
<1>8. CASE Admit(r)
  <2> DEFINE v == [req[r] EXCEPT !.stage = "admitted"]
  <2>1. moved(v) /\ cur' = cur /\ req[r].stage = "timed"
    BY <1>8 DEF Admit, Goto, At
  <2>2. v.stage = "admitted"
    BY DEF TypeOK, ReqRecord
  <2> HIDE DEF v
  <2> QED
    BY <1>2, <2>1, <2>2
<1>9. CASE Enter(r)
  <2> DEFINE v == [req[r] EXCEPT !.stage = "inside"]
  <2>1. moved(v) /\ At(r, "admitted") /\ k \in Keys
    BY <1>9 DEF Enter, Goto, At, TypeOK
  <2>2. v.stage = "inside" /\ v.key = k /\ v.limits = req[r].limits
    BY DEF TypeOK, ReqRecord
  <2> HIDE DEF v
  <2>3. NoneHolds(r)
    BY <2>1 DEF NoneHolds, Held, Holders, HoldsPermit, At
  <2>4. req[r].limits \in Limits
    BY <2>1 DEF LimitsKnown, At
  <2>5. CASE req[r].limits.conc > 0
    <3>1. \A j \in Keys : r \in Holders(j)' <=> j = k
      BY <1>1, <2>1, <2>2, <2>5 DEF Holders, HoldsPermit
    <3>2. Held' = [Held EXCEPT ![k] = @ \cup {r}]
      BY <1>1, <2>1, <2>3, <3>1, OneHandler
    <3> QED
      BY <1>9, <2>1, <2>3, <2>4, <2>5, <3>2 DEF Enter, Granted
  <2>6. CASE ~(req[r].limits.conc > 0)
    <3>1. \A j \in Keys : r \in Holders(j)' <=> r \in Holders(j)
      BY <1>1, <2>1, <2>2, <2>6 DEF Holders, HoldsPermit
    <3> QED
      BY <1>1, <1>9, <2>1, <2>6, <3>1, OneHandler DEF Enter, Undisturbed
  <2> QED
    BY <2>5, <2>6
<1>10. ASSUME NEW c \in Charges, Complete(r, c)
       PROVE  Undisturbed
  <2> DEFINE v == [req[r] EXCEPT !.stage = "done", !.charge = c, !.now = clock]
  <2>1. moved(v) /\ cur' = cur /\ req[r].stage = "inside"
    BY <1>10 DEF Complete, At
  <2>2. v.stage = "done" /\ v.key = req[r].key /\ v.limits = req[r].limits
    BY DEF TypeOK, ReqRecord
  <2> HIDE DEF v
  <2> QED
    BY <1>3, <2>1, <2>2
<1>11. CASE Record(r)
  <2> DEFINE v == [req[r] EXCEPT !.stage = "recorded"]
  <2>1. moved(v) /\ cur' = cur /\ req[r].stage = "done"
    BY <1>11 DEF Record, Goto, At
  <2>2. v.stage = "recorded" /\ v.key = req[r].key /\ v.limits = req[r].limits
    BY DEF TypeOK, ReqRecord
  <2> HIDE DEF v
  <2> QED
    BY <1>3, <2>1, <2>2
<1>12. CASE Settle(r)
  <2> DEFINE v == [req[r] EXCEPT !.stage = "settled"]
  <2>1. moved(v) /\ cur' = cur /\ req[r].stage = "recorded"
    BY <1>12 DEF Settle, Goto, At
  <2>2. v.stage = "settled" /\ v.key = req[r].key /\ v.limits = req[r].limits
    BY DEF TypeOK, ReqRecord
  <2> HIDE DEF v
  <2> QED
    BY <1>3, <2>1, <2>2
<1>13. CASE Release(r)
  <2>1. moved(IdleReq) /\ At(r, "settled") /\ k \in Keys
    BY <1>13 DEF Release, Finished, At, TypeOK
  <2>2. \A j \in Keys : r \notin Holders(j)'
    BY <1>1, <2>1, IdleTyped DEF Holders, HoldsPermit
  <2>3. CASE req[r].limits.conc > 0
    <3>1. \A j \in Keys : r \in Holders(j) <=> j = k
      BY <2>1, <2>3 DEF Holders, HoldsPermit, At
    <3>2. Held' = [Held EXCEPT ![k] = @ \ {r}]
      BY <1>1, <2>1, <2>2, <3>1, OneHandler
    <3>3. r \in Held[k]
      BY <2>1, <3>1 DEF Held
    <3> QED
      BY <1>13, <2>1, <2>3, <3>2, <3>3 DEF Release, Returned
  <2>4. CASE ~(req[r].limits.conc > 0)
    <3>1. \A j \in Keys : r \in Holders(j)' <=> r \in Holders(j)
      BY <2>2, <2>4 DEF Holders, HoldsPermit
    <3> QED
      BY <1>1, <1>13, <2>1, <2>4, <3>1, OneHandler DEF Release, Undisturbed
  <2> QED
    BY <2>3, <2>4
<1> QED
  BY <1>5, <1>6, <1>7, <1>8, <1>9, <1>10, <1>11, <1>12, <1>13 DEF Handler

LEMMA PermitSteps ==
  ASSUME TypeOK, LimitsKnown, [Next]_vars
  PROVE  \/ Undisturbed \/ Cleared
         \/ \E r \in Reqs, k \in Keys : Granted(r, k) \/ Returned(r, k)
<1>1. ASSUME NEW r \in Reqs, Handler(r)
      PROVE  Undisturbed \/ \E k \in Keys : Granted(r, k) \/ Returned(r, k)
  BY <1>1, HandlerPermits
<1>2. ASSUME req' = req, cur' = cur
      PROVE  Undisturbed
  BY <1>2 DEF Undisturbed, Held, Holders, HoldsPermit
<1>3. CASE Restart
  BY <1>3, IdleTyped DEF Restart, Cleared, Held, Holders, HoldsPermit
<1> QED
  BY <1>1, <1>2, <1>3 DEF Next, UpdateKey, BudgetUsage, Tick, vars

\* The number of holders after a permit changed hands.
LEMMA HolderCount ==
  ASSUME TypeOK, NEW k \in Keys
  PROVE  /\ IsFiniteSet(Held[k]) /\ Cardinality(Held[k]) \in Nat
         /\ \A r \in Reqs :
              /\ NoneHolds(r) => Cardinality(Held[k] \cup {r}) = Cardinality(Held[k]) + 1
              /\ r \in Held[k] => Cardinality(Held[k] \ {r}) = Cardinality(Held[k]) - 1
<1>1. Held[k] \subseteq Reqs
  BY DEF Held, Holders
<1>2. IsFiniteSet(Held[k])
  BY <1>1, AdmissionAssumption, FS_Subset
<1>3. Cardinality(Held[k]) \in Nat
  BY <1>2, FS_CardinalityType
<1> QED
  BY <1>2, <1>3, FS_AddElement, FS_RemoveElement DEF NoneHolds

LEMMA PermitsExactStep ==
  TypeOK /\ LimitsKnown /\ PermitsExact /\ [Next]_vars => PermitsExact'
<1> SUFFICES ASSUME TypeOK, LimitsKnown, PermitsExact, [Next]_vars
             PROVE  \A k \in Keys : cur'[k] = Cardinality(Held'[k])
  BY DEF PermitsExact, Held
<1>1. cur \in [Keys -> Int] /\ \A k \in Keys : cur[k] = Cardinality(Held[k])
  BY DEF PermitsExact, Held, TypeOK
<1>2. DOMAIN Held = Keys
  BY DEF Held
<1>3. CASE Undisturbed
  BY <1>1, <1>3 DEF Undisturbed
<1>4. CASE Cleared
  BY <1>4, FS_EmptySet DEF Cleared
<1>5. ASSUME NEW r \in Reqs, NEW k \in Keys, Granted(r, k)
      PROVE  \A j \in Keys : cur'[j] = Cardinality(Held'[j])
  BY <1>1, <1>2, <1>5, HolderCount DEF Granted
<1>6. ASSUME NEW r \in Reqs, NEW k \in Keys, Returned(r, k)
      PROVE  \A j \in Keys : cur'[j] = Cardinality(Held'[j])
  BY <1>1, <1>2, <1>6, HolderCount DEF Returned
<1> QED
  BY <1>3, <1>4, <1>5, <1>6, PermitSteps

-----------------------------------------------------------------------------

PermitInvariant == TypeOK /\ LimitsKnown /\ PermitsExact /\ PermitsBounded

LEMMA PermitsBoundedStep == PermitInvariant /\ [Next]_vars => PermitsBounded'
<1> SUFFICES ASSUME PermitInvariant, [Next]_vars,
                    NEW k \in Keys, Held'[k] # {}
             PROVE  \E l \in Limits : Cardinality(Held'[k]) <= l.conc
  BY DEF PermitsBounded, Held
<1>1. Held[k] # {} => \E l \in Limits : Cardinality(Held[k]) <= l.conc
  BY DEF PermitInvariant, PermitsBounded, Held
<1>2. cur[k] = Cardinality(Held[k]) /\ DOMAIN Held = Keys
  BY DEF PermitInvariant, PermitsExact, Held
<1>3. \A l \in Limits : l.conc \in Nat
  BY AdmissionAssumption DEF LimitRecord
<1>4. CASE Undisturbed
  BY <1>1, <1>4 DEF Undisturbed
<1>5. CASE Cleared
  BY <1>5 DEF Cleared
<1>6. ASSUME NEW r \in Reqs, NEW j \in Keys, Granted(r, j)
      PROVE  \E l \in Limits : Cardinality(Held'[k]) <= l.conc
  <2>1. CASE j = k
    <3>1. Cardinality(Held'[k]) = Cardinality(Held[k]) + 1
      BY <1>2, <1>6, <2>1, HolderCount DEF Granted, PermitInvariant
    <3>2. PICK l \in Limits : Cardinality(Held[k]) < l.conc
      BY <1>2, <1>6, <2>1 DEF Granted
    <3> QED
      BY <1>3, <3>1, <3>2, HolderCount DEF PermitInvariant
  <2>2. CASE j # k
    BY <1>1, <1>2, <1>6, <2>2 DEF Granted
  <2> QED
    BY <2>1, <2>2
<1>7. ASSUME NEW r \in Reqs, NEW j \in Keys, Returned(r, j)
      PROVE  \E l \in Limits : Cardinality(Held'[k]) <= l.conc
  <2>1. CASE j = k
    <3>1. Cardinality(Held'[k]) = Cardinality(Held[k]) - 1 /\ Held[k] # {}
      BY <1>2, <1>7, <2>1, HolderCount DEF Returned, PermitInvariant
    <3> QED
      BY <1>1, <1>3, <3>1, HolderCount DEF PermitInvariant
  <2>2. CASE j # k
    BY <1>1, <1>2, <1>7, <2>2 DEF Returned
  <2> QED
    BY <2>1, <2>2
<1> QED
  BY <1>4, <1>5, <1>6, <1>7, PermitSteps DEF PermitInvariant

LEMMA PermitInvariantHolds == Spec => []PermitInvariant
<1>1. Init => PermitInvariant
  <2> SUFFICES ASSUME Init
               PROVE  PermitsExact /\ PermitsBounded
    BY TypeInit, LimitsKnownInit DEF PermitInvariant
  <2>1. \A k \in Keys : Holders(k) = {}
    BY IdleTyped DEF Init, Holders, HoldsPermit
  <2> QED
    BY <2>1, FS_EmptySet DEF Init, PermitsExact, PermitsBounded
<1>2. PermitInvariant /\ [Next]_vars => PermitInvariant'
  BY TypeInductive, LimitsKnownInductive, PermitsExactStep, PermitsBoundedStep
  DEF PermitInvariant
<1> QED
  BY <1>1, <1>2, PTL DEF Spec

\* The counter of concurrent requests is exact: no sequence of refusals, limit
\* changes, completions and crashes makes it differ from the number of
\* handlers that will still run the deferred release.
THEOREM PermitsAlwaysExact == Spec => []PermitsExact
<1>1. PermitInvariant => PermitsExact
  BY DEF PermitInvariant
<1> QED
  BY <1>1, PermitInvariantHolds, PTL

\* The handlers that run under a concurrency limit never outnumber the largest
\* limit that can be set, although every one of them trusts the limit it read
\* when it authenticated.
THEOREM PermitsAlwaysBounded == Spec => []PermitsBounded
<1>1. PermitInvariant => PermitsBounded
  BY DEF PermitInvariant
<1> QED
  BY <1>1, PermitInvariantHolds, PTL

\* Admission implements the counting semaphore: every step takes a permit that
\* is free, gives one back, loses them all in a crash, or leaves them alone.
THEOREM ImplementsPermits == Spec => PermitsImplemented
<1>1. Init => Semaphore!Init
  <2> SUFFICES ASSUME Init
               PROVE  \A k \in Keys : Holders(k) = {}
    BY DEF Semaphore!Init
  <2> QED
    BY IdleTyped DEF Init, Holders, HoldsPermit
<1>2. PermitInvariant /\ [Next]_vars => [Semaphore!Next]_Held
  <2> SUFFICES ASSUME PermitInvariant, [Next]_vars
               PROVE  Semaphore!Next \/ Held' = Held
    OBVIOUS
  <2>1. CASE Undisturbed
    BY <2>1 DEF Undisturbed
  <2>2. CASE Cleared
    BY <2>2 DEF Cleared, Semaphore!Next, Semaphore!Crash, Held
  <2>3. ASSUME NEW r \in Reqs, NEW k \in Keys, Granted(r, k)
        PROVE  Semaphore!Acquire(k, r)
    <3>1. PICK l \in Limits : cur[k] < l.conc
      BY <2>3 DEF Granted
    <3>2. cur[k] = Cardinality(Held[k])
      BY DEF PermitInvariant, PermitsExact, Held
    <3>3. \E c \in {m.conc : m \in Limits} : Cardinality(Held[k]) < c
      BY <3>1, <3>2
    <3>4. \A j \in Keys : r \notin Held[j]
      BY <2>3 DEF Granted, NoneHolds
    <3>5. Held' = [Held EXCEPT ![k] = @ \cup {r}]
      BY <2>3 DEF Granted
    <3>6. Semaphore!Cardinality(Held[k]) = Cardinality(Held[k])
      BY Zenon DEF Semaphore!Cardinality, Cardinality
    <3>7. \E c \in {m.conc : m \in Limits} : Semaphore!Cardinality(Held[k]) < c
      BY <3>3, <3>6
    <3> QED
      BY <3>4, <3>5, <3>7, Zenon DEF Semaphore!Acquire, Held
  <2>4. ASSUME NEW r \in Reqs, NEW k \in Keys, Returned(r, k)
        PROVE  Semaphore!GiveBack(k, r)
    BY <2>4 DEF Semaphore!GiveBack, Returned, Held
  <2> QED
    BY <2>1, <2>2, <2>3, <2>4, PermitSteps DEF PermitInvariant, Semaphore!Next
<1> QED
  BY <1>1, <1>2, PermitInvariantHolds, PTL
  DEF Spec, PermitsImplemented, Semaphore!Spec, Held

-----------------------------------------------------------------------------
(* The rate limits.  A slot handed out or a token point recorded within the *)
(* last Window is still in the slice, at a place of its own, because every  *)
(* handler prunes with an instant that is not later than the clock: what    *)
(* it drops is out of the window for everyone after it.                     *)

NowPast == \A r \in Reqs : req[r].now <= clock

\* The slots as the slice has them.
Stamps(q) == [i \in DOMAIN q |-> q[i].stamp]
RateSound ==
  \A k \in Keys :
    /\ Covered(Stamps(grants[k]), FreshTimes(Stamps(grants[k]), clock), rpm[k])
    /\ Covered(points[k], FreshToks(points[k], clock), tpm[k])

\* What a step can do to the slots of a key, and to its token points.
RpmRefused(r) ==
  /\ RpmFull(r)
  /\ rpm' = [rpm EXCEPT ![req[r].key] = Compact(@, RpmKept(r))]
  /\ grants' = grants
RpmTaken(r) ==
  LET k == req[r].key IN
  /\ ~RpmFull(r)
  /\ rpm' = [rpm EXCEPT ![k] = Append(Filtered(@, RpmKept(r)), req[r].now)]
  /\ grants' = [grants EXCEPT ![k] = Append(@, [at |-> clock, stamp |-> req[r].now])]
TpmPruned(r) ==
  /\ \/ tpm' = [tpm EXCEPT ![req[r].key] = Compact(@, TpmKept(r))]
     \/ tpm' = [tpm EXCEPT ![req[r].key] = Filtered(@, TpmKept(r))]
  /\ points' = points
TpmRecorded(r) ==
  LET k == req[r].key
      point == [ts |-> req[r].now, tok |-> req[r].charge.tok]
  IN
  /\ tpm' = [tpm EXCEPT ![k] = Append(Filtered(@, TpmKept(r)), point)]
  /\ points' = [points EXCEPT ![k] = Append(@, point)]
Emptied(q, h) == q = [k \in Keys |-> <<>>] /\ h = [k \in Keys |-> <<>>]

LEMMA StampsTyped ==
  /\ \A q \in Seq(Grant) : /\ Stamps(q) \in Seq(Nat)
                           /\ Len(Stamps(q)) = Len(q) /\ DOMAIN Stamps(q) = DOMAIN q
  /\ Stamps(<<>>) = <<>>
  /\ \A q \in Seq(Grant), g \in Grant :
       Stamps(Append(q, g)) = Append(Stamps(q), g.stamp)
<1>1. ASSUME NEW q \in Seq(Grant)
      PROVE  /\ Stamps(q) \in Seq(Nat)
             /\ Len(Stamps(q)) = Len(q) /\ DOMAIN Stamps(q) = DOMAIN q
  <2>1. \A i \in DOMAIN q : q[i].stamp \in Nat
    <3>1. \A i \in DOMAIN q : q[i] \in Grant
      OBVIOUS
    <3> QED
      BY <3>1 DEF Grant
  <2>2. Stamps(q) \in [1..Len(q) -> Nat] /\ Len(q) \in Nat /\ DOMAIN q = 1..Len(q)
    BY <2>1 DEF Stamps
  <2> QED
    BY <2>2
<1>2. Stamps(<<>>) = <<>>
  BY DEF Stamps
<1>3. ASSUME NEW q \in Seq(Grant), NEW g \in Grant
      PROVE  Stamps(Append(q, g)) = Append(Stamps(q), g.stamp)
  <2> DEFINE a == Stamps(Append(q, g))
             b == Append(Stamps(q), g.stamp)
  <2>1. Append(q, g) \in Seq(Grant) /\ Len(Append(q, g)) = Len(q) + 1 /\ Len(q) \in Nat
    OBVIOUS
  <2>2. g.stamp \in Nat
    BY DEF Grant
  <2>3. a \in Seq(Nat) /\ Len(a) = Len(q) + 1
    BY <1>1, <2>1
  <2>4. b \in Seq(Nat) /\ Len(b) = Len(q) + 1
    BY <1>1, <2>2
  <2>5. \A i \in 1..(Len(q) + 1) : a[i] = b[i]
    <3>1. ASSUME NEW i \in 1..Len(q)
          PROVE  a[i] = b[i]
      BY <1>1, <2>1, <2>2, <3>1 DEF Stamps
    <3>2. a[Len(q) + 1] = b[Len(q) + 1]
      BY <1>1, <2>1, <2>2 DEF Stamps
    <3> HIDE DEF a, b
    <3>3. \A i \in 1..(Len(q) + 1) : i \in 1..Len(q) \/ i = Len(q) + 1
      BY <2>1
    <3> QED
      BY <3>1, <3>2, <3>3
  <2> HIDE DEF a, b
  <2>6. Len(a) = Len(b) /\ \A i \in 1..Len(a) : a[i] = b[i]
    BY <2>3, <2>4, <2>5
  <2>7. a = b
    BY <2>3, <2>4, <2>6, SeqEqual
  <2> QED
    BY <2>7 DEF a, b
<1> QED
  BY <1>1, <1>2, <1>3

LEMMA SlotStamped ==
  ASSUME NEW q \in Seq(Grant), NEW t \in Nat, NEW now \in Nat
  PROVE  Stamps(Append(q, [at |-> t, stamp |-> now])) = Append(Stamps(q), now)
<1> DEFINE g == [at |-> t, stamp |-> now]
<1>1. g \in Grant /\ g.stamp = now
  BY DEF Grant
<1> HIDE DEF g
<1>2. Stamps(Append(q, g)) = Append(Stamps(q), g.stamp)
  BY <1>1, StampsTyped
<1> QED
  BY <1>1, <1>2 DEF g

LEMMA RpmSteps ==
  ASSUME [Next]_vars
  PROVE  \/ rpm' = rpm /\ grants' = grants
         \/ Emptied(rpm', grants')
         \/ \E r \in Reqs : /\ At(r, "timed") /\ req[r].limits.rpm > 0
                            /\ RpmRefused(r) \/ RpmTaken(r)
<1>1. ASSUME NEW r \in Reqs, At(r, "timed"), TakeRpmSlot(r)
      PROVE  \/ rpm' = rpm /\ grants' = grants
             \/ req[r].limits.rpm > 0 /\ RpmTaken(r)
  BY <1>1 DEF TakeRpmSlot, RpmTaken
<1>2. ASSUME NEW r \in Reqs, RefuseRpm(r)
      PROVE  At(r, "timed") /\ req[r].limits.rpm > 0 /\ RpmRefused(r)
  BY <1>2 DEF RefuseRpm, RpmRefused, RpmFull
<1>3. CASE Restart
  BY <1>3 DEF Restart, Emptied
<1>4. ASSUME NEW r \in Reqs, RefuseTpm(r) \/ RefuseBudget(r) \/ Admit(r)
      PROVE  At(r, "timed") /\ TakeRpmSlot(r)
  BY <1>4 DEF RefuseTpm, RefuseBudget, Admit
<1>5. ASSUME NEW r \in Reqs, Handler(r),
             ~RefuseRpm(r), ~RefuseTpm(r), ~RefuseBudget(r), ~Admit(r)
      PROVE  rpm' = rpm /\ grants' = grants
  BY <1>5 DEF Handler, Authenticate, ReadClock, RefuseExpired, RefuseConcurrency,
     Enter, Complete, Record, Settle, Release
<1>6. CASE \/ \E k \in Keys, l \in Limits : UpdateKey(k, l)
           \/ \E k \in Keys : BudgetUsage(k)
           \/ Tick \/ UNCHANGED vars
  BY <1>6 DEF UpdateKey, BudgetUsage, Tick, vars
<1> QED
  BY <1>1, <1>2, <1>3, <1>4, <1>5, <1>6 DEF Next

LEMMA TpmSteps ==
  ASSUME [Next]_vars
  PROVE  \/ tpm' = tpm /\ points' = points
         \/ Emptied(tpm', points')
         \/ \E r \in Reqs : ~At(r, "idle") /\ (TpmPruned(r) \/ TpmRecorded(r))
<1>1. ASSUME NEW r \in Reqs, RefuseTpm(r)
      PROVE  ~At(r, "idle") /\ TpmPruned(r)
  BY <1>1 DEF RefuseTpm, TpmPruned, At
<1>2. ASSUME NEW r \in Reqs, RefuseBudget(r) \/ Admit(r)
      PROVE  \/ tpm' = tpm /\ points' = points
             \/ ~At(r, "idle") /\ TpmPruned(r)
  BY <1>2 DEF RefuseBudget, Admit, PassTpm, TpmPruned, At
<1>3. CASE Restart
  BY <1>3 DEF Restart, Emptied
<1>4. ASSUME NEW r \in Reqs, Record(r)
      PROVE  \/ tpm' = tpm /\ points' = points
             \/ ~At(r, "idle") /\ TpmRecorded(r)
  BY <1>4 DEF Record, TpmRecorded, At
<1>5. ASSUME NEW r \in Reqs, Handler(r),
             ~RefuseTpm(r), ~RefuseBudget(r), ~Admit(r), ~Record(r)
      PROVE  tpm' = tpm /\ points' = points
  BY <1>5 DEF Handler, Authenticate, ReadClock, RefuseExpired, RefuseRpm,
     RefuseConcurrency, Enter, Complete, Settle, Release
<1>6. CASE \/ \E k \in Keys, l \in Limits : UpdateKey(k, l)
           \/ \E k \in Keys : BudgetUsage(k)
           \/ Tick \/ UNCHANGED vars
  BY <1>6 DEF UpdateKey, BudgetUsage, Tick, vars
<1> QED
  BY <1>1, <1>2, <1>3, <1>4, <1>5, <1>6 DEF Next

\* The clock does not go back, so nobody's now is ahead of it.
LEMMA NowPastStep ==
  ASSUME TypeOK, NowPast, [Next]_vars
  PROVE  NowPast' /\ clock <= clock'
<1>1. clock \in Nat /\ \A r \in Reqs : req[r].now \in Nat
  BY AdmissionAssumption DEF TypeOK, ReqRecord
<1>2. ASSUME NEW r \in Reqs, Handler(r)
      PROVE  NowPast' /\ clock <= clock'
  <2>1. clock' = clock /\ \A s \in Reqs \ {r} : req'[s] = req[s]
    BY <1>2 DEF TypeOK, Handler, Authenticate, ReadClock, RefuseExpired, RefuseRpm,
       RefuseTpm, RefuseBudget, Admit, RefuseConcurrency, Enter, Complete,
       Record, Settle, Release, Finished, Goto
  <2>2. req'[r].now \in {req[r].now, clock, 0}
    <3>1. CASE Finished(r)
      BY <3>1 DEF Finished, TypeOK, IdleReq
    <3>2. CASE \E stage \in Stages : Goto(r, stage)
      BY <3>2 DEF Goto, TypeOK, ReqRecord
    <3>3. CASE ReadClock(r)
      BY <3>3 DEF ReadClock, TypeOK, ReqRecord
    <3>5. ASSUME NEW c \in Charges, Complete(r, c)
          PROVE  req'[r].now = clock
      BY <3>5 DEF Complete, TypeOK, ReqRecord
    <3>4. ASSUME NEW k \in Keys, Authenticate(r, k)
          PROVE  req'[r].now = req[r].now
      BY <3>4 DEF Authenticate, TypeOK, ReqRecord
    <3> QED
      BY <1>2, <3>1, <3>2, <3>3, <3>4, <3>5
      DEF Handler, RefuseExpired, RefuseRpm, RefuseTpm, RefuseBudget, Admit,
          RefuseConcurrency, Enter, Record, Settle, Release, Stages
  <2> QED
    BY <1>1, <2>1, <2>2 DEF NowPast
<1>3. CASE Tick
  BY <1>1, <1>3 DEF Tick, NowPast
<1>4. CASE Restart
  BY <1>1, <1>4 DEF Restart, NowPast, IdleReq
<1>5. CASE \/ \E k \in Keys, l \in Limits : UpdateKey(k, l)
           \/ \E k \in Keys : BudgetUsage(k)
           \/ UNCHANGED vars
  BY <1>1, <1>5 DEF UpdateKey, BudgetUsage, vars, NowPast
<1> QED
  BY <1>2, <1>3, <1>4, <1>5 DEF Next

\* What is in the window at an instant is in the window of an earlier one.
LEMMA FreshEarlier ==
  ASSUME NEW t \in Nat, NEW now \in Nat, now <= t
  PROVE  /\ \A q \in Seq(Nat) : FreshTimes(q, t) \subseteq FreshTimes(q, now)
         /\ \A q \in Seq(TokPoint) : FreshToks(q, t) \subseteq FreshToks(q, now)
<1>1. \A x \in Nat : t - x < Window => now - x < Window
  BY AdmissionAssumption
<1>2. \A q \in Seq(Nat) : \A i \in DOMAIN q : q[i] \in Nat
  OBVIOUS
<1>3. \A q \in Seq(TokPoint) : \A i \in DOMAIN q : q[i].ts \in Nat
  <2>1. \A q \in Seq(TokPoint) : \A i \in DOMAIN q : q[i] \in TokPoint
    OBVIOUS
  <2> QED
    BY <2>1 DEF TokPoint
<1> QED
  BY <1>1, <1>2, <1>3 DEF FreshTimes, FreshToks

\* A prune keeps what is in the window at its instant or any later one, in the
\* slice it returns and in the array it works on.
LEMMA TimesPruned ==
  ASSUME NEW h \in Seq(Nat), NEW q \in Seq(Nat),
         NEW t \in Nat, NEW now \in Nat, now <= t,
         Covered(h, FreshTimes(h, t), q)
  PROVE  LET keep == FreshTimes(q, now) IN
         /\ Covered(h, FreshTimes(h, t), Compact(q, keep))
         /\ Covered(Append(h, now), FreshTimes(Append(h, now), t),
                    Append(Filtered(q, keep), now))
<1> DEFINE keep == FreshTimes(q, now)
           S == FreshTimes(h, t)
           l == Append(h, now)
<1>1. keep \in SUBSET DOMAIN q /\ S \in SUBSET DOMAIN h
  BY DEF FreshTimes
<1>2. \A m \in DOMAIN q : (\E i \in S : q[m] = h[i]) => m \in keep
  <2>1. FreshTimes(h, t) \subseteq FreshTimes(h, now)
    BY FreshEarlier
  <2> QED
    BY <2>1 DEF FreshTimes
<1>3. /\ Len(h) \in Nat /\ DOMAIN h = 1..Len(h) /\ DOMAIN l = 1..(Len(h) + 1)
      /\ \A i \in 1..Len(h) : l[i] = h[i]
  OBVIOUS
<1>4. FreshTimes(l, t) \subseteq S \cup {Len(h) + 1}
  <2>1. \A i \in DOMAIN l : i \in DOMAIN h \/ i = Len(h) + 1
    BY <1>3
  <2> HIDE DEF l
  <2> QED
    BY <1>3, <2>1 DEF FreshTimes
<1> HIDE DEF keep, S, l
<1>5. Covered(h, S, q)
  BY DEF S
<1>6. Covered(h, S, Filtered(q, keep)) /\ Covered(h, S, Compact(q, keep))
  BY <1>1, <1>2, <1>5, CoveredFilter
<1>7. Filtered(q, keep) \in Seq(Nat)
  BY <1>1, FilterType
<1>8. Covered(Append(h, now), S \cup {Len(h) + 1}, Append(Filtered(q, keep), now))
  BY <1>1, <1>6, <1>7, CoveredAppend
<1>9. Covered(l, FreshTimes(l, t), Append(Filtered(q, keep), now))
  BY <1>4, <1>8, CoveredPart DEF l
<1> QED
  BY <1>6, <1>9 DEF keep, S, l

LEMMA ToksPruned ==
  ASSUME NEW h \in Seq(TokPoint), NEW q \in Seq(TokPoint),
         NEW t \in Nat, NEW now \in Nat, now <= t, NEW x \in TokPoint,
         Covered(h, FreshToks(h, t), q)
  PROVE  LET keep == FreshToks(q, now) IN
         /\ Covered(h, FreshToks(h, t), Compact(q, keep))
         /\ Covered(h, FreshToks(h, t), Filtered(q, keep))
         /\ Covered(Append(h, x), FreshToks(Append(h, x), t),
                    Append(Filtered(q, keep), x))
<1> DEFINE keep == FreshToks(q, now)
           S == FreshToks(h, t)
           l == Append(h, x)
<1>1. keep \in SUBSET DOMAIN q /\ S \in SUBSET DOMAIN h
  BY DEF FreshToks
<1>2. \A m \in DOMAIN q : (\E i \in S : q[m] = h[i]) => m \in keep
  <2>1. FreshToks(h, t) \subseteq FreshToks(h, now)
    BY FreshEarlier
  <2> QED
    BY <2>1 DEF FreshToks
<1>3. /\ Len(h) \in Nat /\ DOMAIN h = 1..Len(h) /\ DOMAIN l = 1..(Len(h) + 1)
      /\ \A i \in 1..Len(h) : l[i] = h[i]
  OBVIOUS
<1>4. FreshToks(l, t) \subseteq S \cup {Len(h) + 1}
  <2>1. \A i \in DOMAIN l : i \in DOMAIN h \/ i = Len(h) + 1
    BY <1>3
  <2> HIDE DEF l
  <2> QED
    BY <1>3, <2>1 DEF FreshToks
<1> HIDE DEF keep, S, l
<1>5. Covered(h, S, q)
  BY DEF S
<1>6. Covered(h, S, Filtered(q, keep)) /\ Covered(h, S, Compact(q, keep))
  BY <1>1, <1>2, <1>5, CoveredFilter
<1>7. Filtered(q, keep) \in Seq(TokPoint)
  BY <1>1, FilterType
<1>8. Covered(Append(h, x), S \cup {Len(h) + 1}, Append(Filtered(q, keep), x))
  BY <1>1, <1>6, <1>7, CoveredAppend
<1>9. Covered(l, FreshToks(l, t), Append(Filtered(q, keep), x))
  BY <1>4, <1>8, CoveredPart DEF l
<1> QED
  BY <1>6, <1>9 DEF keep, S, l

LEMMA EmptyCovered ==
  \A t : /\ Covered(<<>>, FreshTimes(<<>>, t), <<>>)
         /\ Covered(<<>>, FreshToks(<<>>, t), <<>>)
<1> SUFFICES ASSUME NEW t
             PROVE  /\ Covered(<<>>, FreshTimes(<<>>, t), <<>>)
                    /\ Covered(<<>>, FreshToks(<<>>, t), <<>>)
  OBVIOUS
<1>1. FreshTimes(<<>>, t) = {} /\ FreshToks(<<>>, t) = {}
  BY DEF FreshTimes, FreshToks
<1>2. Covered(<<>>, {}, <<>>)
  <2>1. [i \in {} |-> 1] \in [{} -> DOMAIN <<>>]
    OBVIOUS
  <2> QED
    BY <2>1 DEF Covered
<1> QED
  BY <1>1, <1>2

LEMMA RateStep ==
  ASSUME TypeOK, NowPast, RateSound, [Next]_vars
  PROVE  RateSound'
<1>1. TypeOK' /\ clock \in Nat /\ clock' \in Nat /\ clock <= clock'
  <2>1. TypeOK'
    BY TypeInductive
  <2>2. clock \in 0..MaxClock /\ clock' \in 0..MaxClock
    BY <2>1 DEF TypeOK
  <2> QED
    BY <2>1, <2>2, NowPastStep, AdmissionAssumption
<1>2. ASSUME NEW k \in Keys
      PROVE  Covered(Stamps(grants'[k]), FreshTimes(Stamps(grants'[k]), clock), rpm'[k])
  <2>1. /\ grants[k] \in Seq(Grant) /\ Stamps(grants[k]) \in Seq(Nat)
        /\ rpm[k] \in Seq(Nat)
        /\ Covered(Stamps(grants[k]), FreshTimes(Stamps(grants[k]), clock), rpm[k])
    BY StampsTyped DEF TypeOK, RateSound
  <2>2. CASE rpm' = rpm /\ grants' = grants
    BY <2>1, <2>2
  <2>3. CASE Emptied(rpm', grants')
    BY <2>3, EmptyCovered, StampsTyped DEF Emptied
  <2>4. ASSUME NEW r \in Reqs, RpmRefused(r) \/ RpmTaken(r)
        PROVE  Covered(Stamps(grants'[k]), FreshTimes(Stamps(grants'[k]), clock), rpm'[k])
    <3>1. req[r].now \in Nat /\ req[r].now <= clock
      BY DEF TypeOK, NowPast, ReqRecord
    <3>2. rpm \in [Keys -> Seq(Nat)] /\ grants \in [Keys -> Seq(Grant)]
      BY DEF TypeOK
    <3>3. CASE req[r].key # k
      BY <2>1, <2>4, <3>2, <3>3 DEF RpmRefused, RpmTaken
    <3>4. CASE req[r].key = k
      <4> DEFINE keep == FreshTimes(rpm[k], req[r].now)
                 now == req[r].now
      <4>1. /\ Covered(Stamps(grants[k]), FreshTimes(Stamps(grants[k]), clock), Compact(rpm[k], keep))
            /\ Covered(Append(Stamps(grants[k]), now),
                       FreshTimes(Append(Stamps(grants[k]), now), clock),
                       Append(Filtered(rpm[k], keep), now))
        BY <1>1, <2>1, <3>1, TimesPruned
      <4>2. \/ rpm'[k] = Compact(rpm[k], keep) /\ grants'[k] = grants[k]
            \/ /\ rpm'[k] = Append(Filtered(rpm[k], keep), now)
               /\ grants'[k] = Append(grants[k], [at |-> clock, stamp |-> now])
        BY <2>4, <3>2, <3>4 DEF RpmRefused, RpmTaken, RpmKept
      <4>3. Stamps(Append(grants[k], [at |-> clock, stamp |-> now]))
              = Append(Stamps(grants[k]), now)
        BY <1>1, <2>1, <3>1, SlotStamped
      <4> HIDE DEF keep, now
      <4> QED
        BY <4>1, <4>2, <4>3
    <3> QED
      BY <3>3, <3>4
  <2> QED
    BY <2>2, <2>3, <2>4, RpmSteps
<1>3. ASSUME NEW k \in Keys
      PROVE  Covered(points'[k], FreshToks(points'[k], clock), tpm'[k])
  <2>1. /\ points[k] \in Seq(TokPoint) /\ tpm[k] \in Seq(TokPoint)
        /\ Covered(points[k], FreshToks(points[k], clock), tpm[k])
    BY DEF TypeOK, RateSound
  <2>2. CASE tpm' = tpm /\ points' = points
    BY <2>1, <2>2
  <2>3. CASE Emptied(tpm', points')
    BY <2>3, EmptyCovered DEF Emptied
  <2>4. ASSUME NEW r \in Reqs, TpmPruned(r) \/ TpmRecorded(r)
        PROVE  Covered(points'[k], FreshToks(points'[k], clock), tpm'[k])
    <3> DEFINE now == req[r].now
               x == [ts |-> now, tok |-> req[r].charge.tok]
    <3>1. now \in Nat /\ now <= clock /\ x \in TokPoint
      BY DEF TypeOK, NowPast, ReqRecord, TokPoint, ChargeRecord
    <3>2. tpm \in [Keys -> Seq(TokPoint)] /\ points \in [Keys -> Seq(TokPoint)]
      BY DEF TypeOK
    <3>3. CASE req[r].key # k
      BY <2>1, <2>4, <3>2, <3>3 DEF TpmPruned, TpmRecorded
    <3>4. CASE req[r].key = k
      <4> DEFINE keep == FreshToks(tpm[k], now)
      <4>2. \/ tpm'[k] = Compact(tpm[k], keep) /\ points'[k] = points[k]
            \/ tpm'[k] = Filtered(tpm[k], keep) /\ points'[k] = points[k]
            \/ /\ tpm'[k] = Append(Filtered(tpm[k], keep), x)
               /\ points'[k] = Append(points[k], x)
        BY <2>4, <3>2, <3>4 DEF TpmPruned, TpmRecorded, TpmKept
      <4> HIDE DEF x, now
      <4>1. /\ Covered(points[k], FreshToks(points[k], clock), Compact(tpm[k], keep))
            /\ Covered(points[k], FreshToks(points[k], clock), Filtered(tpm[k], keep))
            /\ Covered(Append(points[k], x), FreshToks(Append(points[k], x), clock),
                       Append(Filtered(tpm[k], keep), x))
        BY <1>1, <2>1, <3>1, ToksPruned
      <4> HIDE DEF keep
      <4> QED
        BY <4>1, <4>2
    <3> QED
      BY <3>3, <3>4
  <2> QED
    BY <2>2, <2>3, <2>4, TpmSteps
<1>4. ASSUME NEW k \in Keys
      PROVE  /\ Covered(Stamps(grants'[k]), FreshTimes(Stamps(grants'[k]), clock'), rpm'[k])
             /\ Covered(points'[k], FreshToks(points'[k], clock'), tpm'[k])
  <2>1. Stamps(grants'[k]) \in Seq(Nat) /\ points'[k] \in Seq(TokPoint)
    BY <1>1, StampsTyped DEF TypeOK
  <2>2. /\ FreshTimes(Stamps(grants'[k]), clock')
             \subseteq FreshTimes(Stamps(grants'[k]), clock)
        /\ FreshToks(points'[k], clock') \subseteq FreshToks(points'[k], clock)
    BY <1>1, <2>1, FreshEarlier
  <2> QED
    BY <1>2, <1>3, <2>2, CoveredPart
<1> QED
  BY <1>4 DEF RateSound, FreshTimes, FreshToks, Stamps

\* Pruned at an instant of the past, a slice that covers the history shows at
\* least what the history has of the present window.
LEMMA LiveGrantsFewer ==
  ASSUME NEW h \in Seq(Nat), NEW q \in Seq(Nat),
         NEW t \in Nat, NEW now \in Nat, now <= t,
         Covered(h, FreshTimes(h, t), q)
  PROVE  /\ Cardinality(FreshTimes(h, t)) \in Nat
         /\ Cardinality(FreshTimes(q, now)) \in Nat
         /\ Cardinality(FreshTimes(h, t)) <= Cardinality(FreshTimes(q, now))
<1> DEFINE S == FreshTimes(h, t)
           R == FreshTimes(q, now)
<1>1. PICK f \in [S -> DOMAIN q] :
        /\ \A i, j \in S : f[i] = f[j] => i = j
        /\ \A i \in S : q[f[i]] = h[i]
  BY DEF Covered
<1>2. \A i \in S : f[i] \in R
  <2>1. FreshTimes(h, t) \subseteq FreshTimes(h, now)
    BY FreshEarlier
  <2> QED
    BY <1>1, <2>1 DEF FreshTimes
<1>3. S \in SUBSET DOMAIN h /\ R \in SUBSET DOMAIN q
  BY DEF FreshTimes
<1> HIDE DEF S, R
<1>4. f \in Injection(S, R)
  BY <1>1, <1>2, Fun_IsInj
<1>5. IsFiniteSet(S) /\ IsFiniteSet(R)
  BY <1>3, FilterType
<1>6. Cardinality(S) <= Cardinality(R)
  BY <1>4, <1>5, FS_Injection
<1> QED
  BY <1>5, <1>6, FS_CardinalityType DEF S, R

LEMMA LiveTokensFewer ==
  ASSUME NEW h \in Seq(TokPoint), NEW q \in Seq(TokPoint),
         NEW t \in Nat, NEW now \in Nat, now <= t,
         Covered(h, FreshToks(h, t), q)
  PROVE  /\ Tokens(h, FreshToks(h, t)) \in Nat
         /\ Tokens(q, FreshToks(q, now)) \in Nat
         /\ Tokens(h, FreshToks(h, t)) <= Tokens(q, FreshToks(q, now))
<1> DEFINE S == FreshToks(h, t)
           R == FreshToks(q, now)
           w == [i \in DOMAIN h |-> h[i].tok]
           v == [i \in DOMAIN q |-> q[i].tok]
<1>1. PICK f \in [S -> DOMAIN q] :
        /\ \A i, j \in S : f[i] = f[j] => i = j
        /\ \A i \in S : q[f[i]] = h[i]
  BY DEF Covered
<1>2. \A i \in S : f[i] \in R
  <2>1. FreshToks(h, t) \subseteq FreshToks(h, now)
    BY FreshEarlier
  <2> QED
    BY <1>1, <2>1 DEF FreshToks
<1>3. S \in SUBSET DOMAIN h /\ R \in SUBSET DOMAIN q
  BY DEF FreshToks
<1>4. \A i \in S : w[i] = v[f[i]]
  BY <1>1, <1>3
<1>5. (\A i \in DOMAIN h : w[i] \in Nat) /\ (\A i \in DOMAIN q : v[i] \in Nat)
  <2>1. (\A i \in DOMAIN h : h[i] \in TokPoint) /\ (\A i \in DOMAIN q : q[i] \in TokPoint)
    OBVIOUS
  <2> QED
    BY <2>1 DEF TokPoint
<1> HIDE DEF S, R, w, v
<1>6. f \in Injection(S, R)
  BY <1>1, <1>2, Fun_IsInj
<1>7. IsFiniteSet(S) /\ IsFiniteSet(R)
  BY <1>3, FilterType
<1>8. SumFunctionOnSet(w, S) <= SumFunctionOnSet(v, R)
  BY <1>3, <1>4, <1>5, <1>6, <1>7, SumInjected
<1>9. SumFunctionOnSet(w, S) \in Nat /\ SumFunctionOnSet(v, R) \in Nat
  BY <1>3, <1>5, <1>7, SumType
<1> QED
  BY <1>8, <1>9 DEF S, R, w, v, Tokens

\* A step is taken by one handler: the others are left where they were.
LEMMA OthersWait ==
  ASSUME TypeOK, NEW r \in Reqs, Handler(r)
  PROVE  \A s \in Reqs \ {r} : req'[s] = req[s]
BY DEF TypeOK, Handler, Authenticate, ReadClock, RefuseExpired, RefuseRpm,
   RefuseTpm, RefuseBudget, Admit, RefuseConcurrency, Enter, Complete,
   Record, Settle, Release, Finished, Goto

RateInvariant == TypeOK /\ NowPast /\ RateSound

LEMMA RateInvariantHolds == Spec => []RateInvariant
<1>1. Init => RateInvariant
  <2> SUFFICES ASSUME Init
               PROVE  NowPast /\ RateSound
    BY TypeInit DEF RateInvariant
  <2>1. NowPast
    BY DEF Init, NowPast, IdleReq
  <2>2. RateSound
    BY EmptyCovered, StampsTyped DEF Init, RateSound
  <2> QED
    BY <2>1, <2>2
<1>2. RateInvariant /\ [Next]_vars => RateInvariant'
  BY TypeInductive, NowPastStep, RateStep DEF RateInvariant
<1> QED
  BY <1>1, <1>2, PTL DEF Spec

\* A handler that passed the rate checks was right about the present window,
\* although it looked at it with an instant of the past.
LEMMA RateChecksSound ==
  ASSUME RateInvariant, NEW r \in Reqs, At(r, "timed")
  PROVE  LET k == req[r].key
             l == req[r].limits IN
         /\ ~RpmFull(r) /\ l.rpm > 0
              => /\ Cardinality(FreshTimes(Stamps(grants[k]), clock)) \in Nat
                 /\ Cardinality(FreshTimes(Stamps(grants[k]), clock)) < l.rpm
         /\ ~TpmFull(r) /\ l.tpm > 0 => LiveTokens(k, clock) < l.tpm
<1> DEFINE k == req[r].key
           l == req[r].limits
<1>1. k \in Keys /\ l.rpm \in Nat /\ l.tpm \in Nat
  BY DEF RateInvariant, TypeOK, At, ReqRecord, LimitRecord
<1>2. clock \in Nat /\ req[r].now \in Nat /\ req[r].now <= clock
  BY AdmissionAssumption DEF RateInvariant, TypeOK, NowPast, ReqRecord
<1>3. /\ Stamps(grants[k]) \in Seq(Nat) /\ rpm[k] \in Seq(Nat)
      /\ Covered(Stamps(grants[k]), FreshTimes(Stamps(grants[k]), clock), rpm[k])
  BY <1>1, StampsTyped DEF RateInvariant, TypeOK, RateSound
<1>4. /\ points[k] \in Seq(TokPoint) /\ tpm[k] \in Seq(TokPoint)
      /\ Covered(points[k], FreshToks(points[k], clock), tpm[k])
  BY <1>1 DEF RateInvariant, TypeOK, RateSound
<1>5. /\ Cardinality(FreshTimes(Stamps(grants[k]), clock)) \in Nat
      /\ Cardinality(RpmKept(r)) \in Nat
      /\ Cardinality(FreshTimes(Stamps(grants[k]), clock)) <= Cardinality(RpmKept(r))
  BY <1>2, <1>3, LiveGrantsFewer DEF RpmKept
<1>6. /\ LiveTokens(k, clock) \in Nat /\ Tokens(tpm[k], TpmKept(r)) \in Nat
      /\ LiveTokens(k, clock) <= Tokens(tpm[k], TpmKept(r))
  BY <1>2, <1>4, LiveTokensFewer DEF LiveTokens, TpmKept
<1> QED
  BY <1>1, <1>5, <1>6 DEF RpmFull, TpmFull

\* A slot taken at most wait ticks after its stamp, in the last Window - wait
\* ticks, has a stamp in the window that ends now.
LEMMA PromptGrantsFresh ==
  ASSUME TypeOK, NEW k \in Keys, NEW wait \in 0..(Window - 1)
  PROVE  /\ PromptGrants(k, wait) \subseteq FreshTimes(Stamps(grants[k]), clock)
         /\ Cardinality(PromptGrants(k, wait)) \in Nat
         /\ Cardinality(PromptGrants(k, wait))
              <= Cardinality(FreshTimes(Stamps(grants[k]), clock))
<1>1. /\ grants[k] \in Seq(Grant) /\ clock \in Nat
      /\ Stamps(grants[k]) \in Seq(Nat)
      /\ DOMAIN Stamps(grants[k]) = DOMAIN grants[k]
  BY AdmissionAssumption, StampsTyped DEF TypeOK
<1>2. \A i \in DOMAIN grants[k] :
        /\ grants[k][i].at \in Nat /\ grants[k][i].stamp \in Nat
        /\ Stamps(grants[k])[i] = grants[k][i].stamp
  <2>1. \A i \in DOMAIN grants[k] : grants[k][i] \in Grant
    BY <1>1
  <2> QED
    BY <2>1 DEF Grant, Stamps
<1>3. Window \in Nat /\ wait \in Nat
  BY AdmissionAssumption
<1>4. PromptGrants(k, wait) \subseteq FreshTimes(Stamps(grants[k]), clock)
  BY <1>1, <1>2, <1>3 DEF PromptGrants, FreshTimes
<1>5. IsFiniteSet(FreshTimes(Stamps(grants[k]), clock))
  <2>1. FreshTimes(Stamps(grants[k]), clock) \in SUBSET DOMAIN Stamps(grants[k])
    BY DEF FreshTimes
  <2> QED
    BY <1>1, <2>1, FilterType
<1> QED
  BY <1>4, <1>5, FS_Subset, FS_CardinalityType

\* No request takes a slot of a key's RPM limit unless fewer than that many
\* were taken in the last Window - wait ticks by handlers that had waited at
\* most wait for the lock, for every wait: a window is exceeded by no more than
\* the wait of the handlers explains.
THEOREM RpmAlwaysBoundedByWait == Spec => RpmBoundedByWait
<1>1. ASSUME RateInvariant, [Next]_vars, NEW r \in Reqs, TakesSlot(r),
             NEW wait \in 0..(Window - 1)
      PROVE  Cardinality(PromptGrants(req[r].key, wait)) < req[r].limits.rpm
  <2> DEFINE k == req[r].key
  <2>0. /\ At(r, "timed") /\ req'[r] # req[r] /\ Len(grants'[k]) > Len(grants[k])
        /\ k \in Keys /\ Len(grants[k]) \in Nat /\ req[r].limits.rpm \in Nat
    <3>1. At(r, "timed") /\ req'[r] # req[r] /\ Len(grants'[k]) > Len(grants[k])
      BY <1>1 DEF TakesSlot
    <3>2. k \in Keys /\ req[r].limits.rpm \in Nat
      BY <1>1, <3>1 DEF RateInvariant, TypeOK, At, ReqRecord, LimitRecord
    <3>3. grants[k] \in Seq(Grant)
      BY <1>1, <3>2 DEF RateInvariant, TypeOK
    <3> QED
      BY <3>1, <3>2, <3>3
  <2>1. CASE Handler(r)
    <3>1. TakeRpmSlot(r) \/ grants' = grants
      BY <2>1 DEF Handler, Authenticate, ReadClock, RefuseExpired, RefuseRpm,
         RefuseTpm, RefuseBudget, Admit, RefuseConcurrency, Enter, Complete,
         Record, Settle, Release
    <3>2. ~RpmFull(r) /\ req[r].limits.rpm > 0
      BY <1>1, <2>0, <3>1 DEF TakeRpmSlot
    <3>3. Cardinality(FreshTimes(Stamps(grants[k]), clock)) < req[r].limits.rpm
      BY <1>1, <2>0, <3>2, RateChecksSound
    <3>4. /\ Cardinality(FreshTimes(Stamps(grants[k]), clock)) \in Nat
          /\ Cardinality(PromptGrants(k, wait)) \in Nat
          /\ Cardinality(PromptGrants(k, wait))
               <= Cardinality(FreshTimes(Stamps(grants[k]), clock))
      BY <1>1, <2>0, <3>2, PromptGrantsFresh, RateChecksSound DEF RateInvariant
    <3> QED
      BY <2>0, <3>3, <3>4
  <2>2. ASSUME NEW s \in Reqs, Handler(s), s # r
        PROVE  FALSE
    BY <1>1, <2>0, <2>2, OthersWait DEF RateInvariant
  <2>3. CASE Restart
    <3>1. Len(grants'[k]) = 0
      BY <2>0, <2>3 DEF Restart
    <3> QED
      BY <1>1, <2>0, <3>1
  <2>4. CASE \/ \E j \in Keys, l \in Limits : UpdateKey(j, l)
             \/ \E j \in Keys : BudgetUsage(j)
             \/ Tick \/ UNCHANGED vars
    BY <1>1, <2>0, <2>4 DEF UpdateKey, BudgetUsage, Tick, vars
  <2> QED
    BY <1>1, <2>1, <2>2, <2>3, <2>4 DEF Next
<1>2. RateInvariant /\ [Next]_vars
        => [\A r \in Reqs, wait \in 0..(Window - 1) :
              TakesSlot(r) =>
                Cardinality(PromptGrants(req[r].key, wait)) < req[r].limits.rpm]_vars
  BY <1>1
<1> QED
  BY <1>2, RateInvariantHolds, PTL DEF Spec, RpmBoundedByWait

\* No request passes the check of a key's TPM limit unless fewer tokens than
\* that were recorded in the minute that ends now.
THEOREM TpmNeverPassed == Spec => TpmNeverExceeded
<1>1. ASSUME RateInvariant, NEW r \in Reqs, Admit(r), req[r].limits.tpm > 0
      PROVE  LiveTokens(req[r].key, clock) < req[r].limits.tpm
  BY <1>1, RateChecksSound DEF Admit, PassTpm
<1>2. RateInvariant /\ [Next]_vars
        => [\A r \in Reqs :
              Admit(r) /\ req[r].limits.tpm > 0
              => LiveTokens(req[r].key, clock) < req[r].limits.tpm]_vars
  BY <1>1
<1> QED
  BY <1>2, RateInvariantHolds, PTL DEF Spec, TpmNeverExceeded

-----------------------------------------------------------------------------
(* Precision of the RPM limit.  As long as no settings are saved, a slice    *)
(* never has more entries than the limit, so a refusal keeps all of them and *)
(* leaves no duplicates in the array.                                        *)

SettingsStay == [][UNCHANGED limits]_limits

RowRead == \A r \in Reqs : ~At(r, "idle") => req[r].limits = limits[req[r].key]
NoSpare ==
  \A k \in Keys :
    /\ Len(rpm[k]) <= limits[k].rpm
    /\ Covered(rpm[k], DOMAIN rpm[k], Stamps(grants[k]))
GrantsPast ==
  \A k \in Keys : \A i \in DOMAIN grants[k] : grants[k][i].stamp <= grants[k][i].at

\* A slot is taken at the instant of its stamp or later.
LEMMA GrantsPastStep ==
  ASSUME TypeOK, NowPast, GrantsPast, [Next]_vars
  PROVE  GrantsPast'
<1> SUFFICES ASSUME NEW k \in Keys
             PROVE  \A i \in DOMAIN grants'[k] : grants'[k][i].stamp <= grants'[k][i].at
  BY DEF GrantsPast
<1>1. grants \in [Keys -> Seq(Grant)] /\ grants[k] \in Seq(Grant)
  BY DEF TypeOK
<1>2. \A i \in DOMAIN grants[k] : grants[k][i].stamp <= grants[k][i].at
  BY DEF GrantsPast
<1>3. CASE grants' = grants
  BY <1>2, <1>3
<1>4. CASE Emptied(rpm', grants')
  BY <1>4 DEF Emptied
<1>5. ASSUME NEW r \in Reqs, RpmRefused(r) \/ RpmTaken(r)
      PROVE  \A i \in DOMAIN grants'[k] : grants'[k][i].stamp <= grants'[k][i].at
  <2> DEFINE g == [at |-> clock, stamp |-> req[r].now]
  <2>1. g \in Grant /\ g.stamp <= g.at
    BY AdmissionAssumption DEF TypeOK, Grant, ReqRecord, NowPast
  <2>2. grants'[k] = grants[k] \/ grants'[k] = Append(grants[k], g)
    BY <1>1, <1>5 DEF RpmRefused, RpmTaken
  <2> HIDE DEF g
  <2>3. \A i \in DOMAIN Append(grants[k], g) :
          \/ i \in DOMAIN grants[k] /\ Append(grants[k], g)[i] = grants[k][i]
          \/ Append(grants[k], g)[i] = g
    BY <1>1, <2>1
  <2>4. CASE grants'[k] = grants[k]
    BY <1>2, <2>4
  <2>5. CASE grants'[k] = Append(grants[k], g)
    BY <1>2, <2>1, <2>3, <2>5
  <2> QED
    BY <2>2, <2>4, <2>5
<1> QED
  BY <1>3, <1>4, <1>5, RpmSteps

LEMMA RowReadStep ==
  ASSUME TypeOK, RowRead, [Next]_vars, UNCHANGED limits
  PROVE  RowRead'
<1>1. ASSUME NEW r \in Reqs, Handler(r)
      PROVE  RowRead'
  <2>1. \A s \in Reqs \ {r} : req'[s] = req[s]
    BY <1>1, OthersWait
  <2>2. req'[r].stage # "idle" => req'[r].limits = limits[req'[r].key]
    <3>1. ASSUME NEW k \in Keys, Authenticate(r, k)
          PROVE  req'[r].limits = limits[req'[r].key]
      BY <3>1 DEF Authenticate, TypeOK, ReqRecord
    <3>2. CASE Finished(r)
      BY <3>2, IdleTyped DEF Finished, TypeOK
    <3>3. CASE ~At(r, "idle") /\ (\E stage \in Stages : Goto(r, stage))
      BY <3>3 DEF Goto, At, RowRead, TypeOK, ReqRecord
    <3>4. CASE ReadClock(r)
      BY <3>4 DEF ReadClock, At, RowRead, TypeOK, ReqRecord
    <3>5. ASSUME NEW c \in Charges, Complete(r, c)
          PROVE  req'[r].limits = limits[req'[r].key]
      BY <3>5 DEF Complete, At, RowRead, TypeOK, ReqRecord
    <3> QED
      BY <1>1, <3>1, <3>2, <3>3, <3>4, <3>5
      DEF Handler, RefuseExpired, RefuseRpm, RefuseTpm, RefuseBudget, Admit,
          RefuseConcurrency, Enter, Record, Settle, Release, Stages, At
  <2> QED
    BY <2>1, <2>2 DEF RowRead, At
<1>2. CASE Restart
  BY <1>2, IdleTyped DEF Restart, RowRead, At
<1>3. CASE \/ \E k \in Keys, l \in Limits : UpdateKey(k, l)
           \/ \E k \in Keys : BudgetUsage(k)
           \/ Tick \/ UNCHANGED vars
  BY <1>3 DEF UpdateKey, BudgetUsage, Tick, vars, RowRead, At
<1> QED
  BY <1>1, <1>2, <1>3 DEF Next

LEMMA NoSpareStep ==
  ASSUME TypeOK, RowRead, NoSpare, [Next]_vars, UNCHANGED limits
  PROVE  NoSpare'
<1> SUFFICES ASSUME NEW k \in Keys
             PROVE  /\ Len(rpm'[k]) <= limits[k].rpm
                    /\ Covered(rpm'[k], DOMAIN rpm'[k], Stamps(grants'[k]))
  BY DEF NoSpare
<1>1. /\ rpm \in [Keys -> Seq(Nat)] /\ grants \in [Keys -> Seq(Grant)]
      /\ rpm[k] \in Seq(Nat) /\ grants[k] \in Seq(Grant)
      /\ Stamps(grants[k]) \in Seq(Nat)
      /\ limits[k].rpm \in Nat /\ clock \in Nat
  BY AdmissionAssumption, StampsTyped DEF TypeOK, LimitRecord
<1>2. Len(rpm[k]) <= limits[k].rpm /\ Covered(rpm[k], DOMAIN rpm[k], Stamps(grants[k]))
  BY DEF NoSpare
<1>3. CASE rpm' = rpm /\ grants' = grants
  BY <1>2, <1>3
<1>4. CASE Emptied(rpm', grants')
  <2>1. rpm'[k] = <<>> /\ grants'[k] = <<>>
    BY <1>4 DEF Emptied
  <2>2. FreshTimes(<<>>, 0) = DOMAIN <<>>
    BY DEF FreshTimes
  <2>3. Covered(<<>>, DOMAIN <<>>, <<>>)
    BY <2>2, EmptyCovered
  <2>4. Len(<<>>) = 0
    OBVIOUS
  <2> QED
    BY <1>1, <2>1, <2>3, <2>4, StampsTyped
<1>5. ASSUME NEW r \in Reqs, At(r, "timed"), req[r].limits.rpm > 0,
             RpmRefused(r) \/ RpmTaken(r)
      PROVE  /\ Len(rpm'[k]) <= limits[k].rpm
             /\ Covered(rpm'[k], DOMAIN rpm'[k], Stamps(grants'[k]))
  <2>1. CASE req[r].key # k
    <3>1. rpm'[k] = rpm[k] /\ grants'[k] = grants[k]
      BY <1>1, <1>5, <2>1 DEF RpmRefused, RpmTaken
    <3> QED
      BY <1>2, <3>1
  <2>2. CASE req[r].key = k
    <3> DEFINE keep == FreshTimes(rpm[k], req[r].now)
               q == Filtered(rpm[k], keep)
               now == req[r].now
               l == limits[k].rpm
    <3>1. req[r].limits.rpm = l /\ RpmKept(r) = keep
      BY <1>5, <2>2 DEF RowRead, At, RpmKept
    <3>2. keep \in SUBSET DOMAIN rpm[k]
      BY DEF FreshTimes
    <3>3. now \in Nat
      BY DEF TypeOK, ReqRecord
    <3> HIDE DEF keep, now
    <3>4. /\ IsFiniteSet(keep) /\ Cardinality(keep) \in 0..Len(rpm[k])
          /\ q \in Seq(Nat) /\ Len(q) = Cardinality(keep)
      BY <1>1, <3>2, FilterType
    <3>5. CASE RpmRefused(r)
      <4>1. Cardinality(keep) >= l
        BY <1>5, <3>1, <3>5 DEF RpmRefused, RpmFull
      <4>2. Cardinality(keep) = Len(rpm[k])
        BY <1>1, <1>2, <3>4, <4>1
      <4>3. IsFiniteSet(DOMAIN rpm[k]) /\ Cardinality(DOMAIN rpm[k]) = Len(rpm[k])
        <5>1. \A n \in Nat : IsFiniteSet(1..n) /\ Cardinality(1..n) = n
          BY FS_Interval
        <5> QED
          BY <1>1, <5>1
      <4>4. keep = DOMAIN rpm[k]
        BY <3>2, <4>2, <4>3, FS_Subset
      <4>5. rpm'[k] = Compact(rpm[k], keep) /\ grants'[k] = grants[k]
        BY <1>1, <2>2, <3>1, <3>5 DEF RpmRefused
      <4>6. rpm'[k] = rpm[k]
        BY <1>1, <4>4, <4>5, CompactWhole
      <4> QED
        BY <1>2, <4>5, <4>6
    <3>6. CASE RpmTaken(r)
      <4>1. Cardinality(keep) < l
        BY <1>1, <1>5, <3>1, <3>4, <3>6 DEF RpmTaken, RpmFull
      <4>2. /\ rpm'[k] = Append(q, now)
            /\ grants'[k] = Append(grants[k], [at |-> clock, stamp |-> now])
        <5>1. /\ rpm' = [rpm EXCEPT ![k] = Append(Filtered(@, keep), now)]
              /\ grants' = [grants EXCEPT ![k] =
                              Append(@, [at |-> clock, stamp |-> now])]
          BY <2>2, <3>1, <3>6 DEF RpmTaken, now
        <5> QED
          BY <1>1, <5>1
      <4>7. Stamps(Append(grants[k], [at |-> clock, stamp |-> now]))
              = Append(Stamps(grants[k]), now)
        BY <1>1, <3>3, SlotStamped
      <4>3. Covered(q, DOMAIN q, Stamps(grants[k]))
        BY <1>1, <1>2, <3>2, FilterCovered
      <4> HIDE DEF q
      <4>4. Covered(Append(q, now), DOMAIN q \cup {Len(q) + 1},
                    Append(Stamps(grants[k]), now))
        BY <1>1, <3>3, <3>4, <4>3, CoveredAppend
      <4>5. /\ DOMAIN Append(q, now) = DOMAIN q \cup {Len(q) + 1}
            /\ Len(Append(q, now)) = Len(q) + 1
        <5>1. /\ DOMAIN Append(q, now) = 1..(Len(q) + 1) /\ DOMAIN q = 1..Len(q)
              /\ Len(q) \in Nat /\ Len(Append(q, now)) = Len(q) + 1
          BY <3>3, <3>4
        <5> QED
          BY <5>1
      <4>6. Len(q) + 1 <= l
        BY <1>1, <3>4, <4>1
      <4> QED
        BY <4>2, <4>4, <4>5, <4>6, <4>7
    <3> QED
      BY <1>5, <3>5, <3>6
  <2> QED
    BY <2>1, <2>2
<1> QED
  BY <1>3, <1>4, <1>5, RpmSteps

\* While the settings stay as they are, a request is refused for its RPM limit
\* only when that many slots were really taken in the minute before its now:
\* the in-place prune, which a refusal does not store, counts nothing twice.
THEOREM RpmRefusalAlwaysJustified == Spec /\ SettingsStay => RpmRefusalJustified
<1> DEFINE Inv == TypeOK /\ NowPast /\ GrantsPast /\ RowRead /\ NoSpare
<1>1. Init => Inv
  <2> SUFFICES ASSUME Init
               PROVE  NowPast /\ GrantsPast /\ RowRead /\ NoSpare
    BY TypeInit
  <2>1. RowRead
    BY IdleTyped DEF Init, RowRead, At
  <2>2. ASSUME NEW k \in Keys
        PROVE  Len(rpm[k]) <= limits[k].rpm /\ Covered(rpm[k], DOMAIN rpm[k], Stamps(grants[k]))
    <3>1. rpm[k] = <<>> /\ grants[k] = <<>>
      BY DEF Init
    <3>2. FreshTimes(<<>>, 0) = DOMAIN <<>>
      BY DEF FreshTimes
    <3>3. Covered(<<>>, DOMAIN <<>>, <<>>)
      BY <3>2, EmptyCovered
    <3>4. Len(<<>>) = 0 /\ limits[k].rpm \in Nat
      BY TypeInit DEF TypeOK, LimitRecord
    <3> QED
      BY <3>1, <3>3, <3>4, StampsTyped
  <2>3. NowPast /\ GrantsPast
    BY DEF Init, NowPast, IdleReq, GrantsPast
  <2> QED
    BY <2>1, <2>2, <2>3 DEF NoSpare
<1>2. Inv /\ [Next]_vars /\ [UNCHANGED limits]_limits => Inv'
  BY TypeInductive, NowPastStep, GrantsPastStep, RowReadStep, NoSpareStep
<1>3. ASSUME Inv, NEW r \in Reqs, RefuseRpm(r)
      PROVE  LiveGrants(req[r].key, req[r].now) >= req[r].limits.rpm
  <2> DEFINE k == req[r].key
             now == req[r].now
  <2>1. k \in Keys /\ now \in Nat /\ req[r].limits.rpm \in Nat
    BY <1>3 DEF RefuseRpm, At, TypeOK, ReqRecord, LimitRecord
  <2>2. /\ rpm[k] \in Seq(Nat) /\ grants[k] \in Seq(Grant)
        /\ Stamps(grants[k]) \in Seq(Nat) /\ DOMAIN Stamps(grants[k]) = DOMAIN grants[k]
    BY <1>3, <2>1, StampsTyped DEF TypeOK
  <2>3. Cardinality(FreshTimes(rpm[k], now)) >= req[r].limits.rpm
    BY <1>3 DEF RefuseRpm, RpmFull, RpmKept
  <2>4. Covered(rpm[k], FreshTimes(rpm[k], now), Stamps(grants[k]))
    <3>1. FreshTimes(rpm[k], now) \in SUBSET DOMAIN rpm[k]
      BY DEF FreshTimes
    <3>2. Covered(rpm[k], DOMAIN rpm[k], Stamps(grants[k]))
      BY <1>3, <2>1 DEF NoSpare
    <3> QED
      BY <3>1, <3>2, CoveredPart
  <2> HIDE DEF k, now
  <2>5. /\ Cardinality(FreshTimes(rpm[k], now)) \in Nat
        /\ Cardinality(FreshTimes(Stamps(grants[k]), now)) \in Nat
        /\ Cardinality(FreshTimes(rpm[k], now))
             <= Cardinality(FreshTimes(Stamps(grants[k]), now))
    BY <2>1, <2>2, <2>4, LiveGrantsFewer
  <2> DEFINE live == {i \in DOMAIN grants[k] : now - grants[k][i].at < Window}
  <2>6. FreshTimes(Stamps(grants[k]), now) \subseteq live
    <3>1. \A i \in DOMAIN grants[k] :
            /\ grants[k][i].at \in Nat /\ grants[k][i].stamp \in Nat
            /\ grants[k][i].stamp <= grants[k][i].at
            /\ Stamps(grants[k])[i] = grants[k][i].stamp
      <4>1. \A i \in DOMAIN grants[k] : grants[k][i] \in Grant
        BY <2>2
      <4> QED
        BY <1>3, <2>1, <4>1 DEF Grant, Stamps, GrantsPast
    <3> QED
      BY <2>1, <2>2, <3>1, AdmissionAssumption DEF FreshTimes
  <2>7. IsFiniteSet(live)
    <3>1. live \in SUBSET DOMAIN grants[k]
      OBVIOUS
    <3> QED
      BY <2>2, <3>1, FilterType
  <2> HIDE DEF live
  <2>8. /\ Cardinality(live) \in Nat
        /\ Cardinality(FreshTimes(Stamps(grants[k]), now)) <= Cardinality(live)
    BY <2>6, <2>7, FS_Subset, FS_CardinalityType
  <2> QED
    BY <2>1, <2>3, <2>5, <2>8 DEF LiveGrants, k, now, live
<1>4. Inv /\ [Next]_vars
        => [\A r \in Reqs :
              RefuseRpm(r) =>
                LiveGrants(req[r].key, req[r].now) >= req[r].limits.rpm]_vars
  BY <1>3
<1> HIDE DEF Inv
<1> QED
  BY <1>1, <1>2, <1>4, PTL DEF Spec, SettingsStay, RpmRefusalJustified

-----------------------------------------------------------------------------
(* The budget windows.  What a window in memory has more than the ledger is  *)
(* what its handlers have recorded and not yet settled.                      *)

Parts == {"tok", "usd", "cny"}
LabelsPast == \A k \in Keys, p \in Periods : win[k][p].label <= Label(p)

\* A charge adds to each of the three parts.
LEMMA ChargeAdds ==
  /\ \A w \in UseRecord, c \in ChargeRecord, part \in Parts :
       AddCharge(w, c)[part] = w[part] + c[part]
  /\ \A w \in UseRecord, c \in ChargeRecord : AddCharge(w, c).label = w.label
  /\ \A w \in ChargeRecord, c \in ChargeRecord, part \in Parts :
       AddCharge(w, c)[part] = w[part] + c[part]
  /\ \A w \in UseRecord, part \in Parts : w[part] \in Nat
  /\ \A c \in ChargeRecord, part \in Parts : c[part] \in Nat
<1>1. ASSUME NEW w \in UseRecord, NEW c \in ChargeRecord
      PROVE  /\ AddCharge(w, c).label = w.label
             /\ AddCharge(w, c).tok = w.tok + c.tok
             /\ AddCharge(w, c).usd = w.usd + c.usd
             /\ AddCharge(w, c).cny = w.cny + c.cny
  BY DEF AddCharge, UseRecord
<1>2. ASSUME NEW w \in ChargeRecord, NEW c \in ChargeRecord
      PROVE  /\ AddCharge(w, c).tok = w.tok + c.tok
             /\ AddCharge(w, c).usd = w.usd + c.usd
             /\ AddCharge(w, c).cny = w.cny + c.cny
  BY DEF AddCharge, ChargeRecord
<1>3. \A w \in UseRecord : w.tok \in Nat /\ w.usd \in Nat /\ w.cny \in Nat
  BY DEF UseRecord
<1>4. \A c \in ChargeRecord : c.tok \in Nat /\ c.usd \in Nat /\ c.cny \in Nat
  BY DEF ChargeRecord
<1> QED
  BY <1>1, <1>2, <1>3, <1>4 DEF Parts

\* The labels only grow, as the clock does.
LEMMA LabelGrows ==
  ASSUME clock \in Nat, clock' \in Nat, clock <= clock'
  PROVE  \A p \in Periods :
           Label(p) \in Nat /\ Label(p)' \in Nat /\ Label(p) <= Label(p)'
<1>1. \A a, b \in Nat, n \in Nat \ {0} :
        a <= b => a \div n \in Nat /\ b \div n \in Nat /\ a \div n <= b \div n
  OBVIOUS
<1>2. /\ DayOf(clock) \in Nat /\ DayOf(clock') \in Nat
      /\ DayOf(clock) <= DayOf(clock')
  BY <1>1, AdmissionAssumption DEF DayOf
<1>3. /\ DayOf(clock) \div MonthDays \in Nat /\ DayOf(clock') \div MonthDays \in Nat
      /\ DayOf(clock) \div MonthDays <= DayOf(clock') \div MonthDays
  BY <1>1, <1>2, AdmissionAssumption
<1> QED
  BY <1>2, <1>3 DEF Label

\* Rolling a window over changes nothing that anybody sees of it.
LEMMA RollHidden ==
  ASSUME TypeOK, NEW k \in Keys, NEW l \in LimitRecord, RollWindow(k, l),
         clock' = clock
  PROVE  \A j \in Keys, p \in Periods :
           /\ Current(j, p)' = Current(j, p)
           /\ win'[j][p].label \in {win[j][p].label, Label(p)}
<1>1. l.period \in Periods /\ win \in [Keys -> [Periods -> UseRecord]]
  BY DEF LimitRecord, TypeOK
<1>2. \A p \in Periods : Label(p)' = Label(p)
  BY DEF Label
<1>3. \A p \in Periods : Current(k, p).label = Label(p)
  BY DEF Current, EmptyUse
<1>4. ASSUME NEW j \in Keys, NEW p \in Periods
      PROVE  /\ Current(j, p)' = Current(j, p)
             /\ win'[j][p].label \in {win[j][p].label, Label(p)}
  <2>1. CASE win'[j][p] = win[j][p]
    BY <1>2, <2>1 DEF Current
  <2>2. CASE j = k /\ p = l.period /\ win'[j][p] = Current(j, p)
    BY <1>2, <1>3, <2>2 DEF Current
  <2> QED
    BY <1>1, <2>1, <2>2 DEF RollWindow
<1> QED
  BY <1>4

LEMMA PendingType ==
  ASSUME TypeOK, NEW k \in Keys, NEW part \in Parts
  PROVE  Pending(k, part) \in Nat
<1> DEFINE w == [r \in Reqs |-> req[r].charge[part]]
<1>1. \A r \in Reqs : w[r] \in Nat
  <2>1. \A r \in Reqs : req[r].charge \in ChargeRecord
    BY DEF TypeOK, ReqRecord
  <2> QED
    BY <2>1, ChargeAdds
<1>2. Unsettled(k) \in SUBSET Reqs
  BY DEF Unsettled
<1> HIDE DEF w
<1>3. SumFunctionOnSet(w, Unsettled(k)) \in Nat
  BY <1>1, <1>2, AdmissionAssumption, SumType
<1> QED
  BY <1>3 DEF Pending, w

\* What a step of one handler does to the charges on their way.
LEMMA PendingStep ==
  ASSUME TypeOK, TypeOK', NEW k \in Keys, NEW part \in Parts, NEW r \in Reqs,
         \A s \in Reqs \ {r} : req'[s] = req[s]
  PROVE  /\ (r \notin Unsettled(k) /\ r \notin Unsettled(k)')
              => Pending(k, part)' = Pending(k, part)
         /\ (r \notin Unsettled(k) /\ r \in Unsettled(k)')
              => Pending(k, part)' = Pending(k, part) + req'[r].charge[part]
         /\ (r \in Unsettled(k) /\ r \notin Unsettled(k)')
              => Pending(k, part) = Pending(k, part)' + req[r].charge[part]
<1> DEFINE w == [s \in Reqs |-> req[s].charge[part]]
           v == [s \in Reqs |-> req'[s].charge[part]]
           S == Unsettled(k)
           T == Unsettled(k)'
           U == S \ {r}
<1>1. \A s \in Reqs : w[s] \in Nat /\ v[s] \in Nat
  <2>1. \A s \in Reqs : req[s].charge \in ChargeRecord /\ req'[s].charge \in ChargeRecord
    BY DEF TypeOK, ReqRecord
  <2> QED
    BY <2>1, ChargeAdds
<1>2. S \in SUBSET Reqs /\ T \in SUBSET Reqs /\ U \in SUBSET Reqs /\ T \ {r} = U
  BY DEF Unsettled, At
<1>3. \A s \in U : v[s] = w[s]
  BY <1>2
<1>4. w[r] = req[r].charge[part] /\ v[r] = req'[r].charge[part]
  OBVIOUS
<1>5. /\ Pending(k, part) = SumFunctionOnSet(w, S)
      /\ Pending(k, part)' = SumFunctionOnSet(v, T)
  BY DEF Pending
<1> HIDE DEF w, v, S, T, U
<1>6. IsFiniteSet(Reqs) /\ IsFiniteSet(U)
  BY <1>2, AdmissionAssumption, FS_Subset
<1>7. SumFunctionOnSet(v, U) = SumFunctionOnSet(w, U)
  BY <1>3, <1>6, SumSame
<1>8. r \notin S => S = U
  BY DEF U
<1>9. r \notin T => T = U
  BY <1>2
<1>10. r \in S => SumFunctionOnSet(w, S) = w[r] + SumFunctionOnSet(w, U)
  BY <1>1, <1>2, <1>6, SumRemove DEF U
<1>11. r \in T => SumFunctionOnSet(v, T) = v[r] + SumFunctionOnSet(v, U)
  BY <1>1, <1>2, <1>6, SumRemove
<1>12. SumFunctionOnSet(w, U) \in Nat /\ w[r] \in Nat /\ v[r] \in Nat
  BY <1>1, <1>2, <1>6, SumType
<1>13. r \notin S /\ r \notin T => Pending(k, part)' = Pending(k, part)
  BY <1>5, <1>7, <1>8, <1>9
<1>14. r \notin S /\ r \in T => Pending(k, part)' = Pending(k, part) + req'[r].charge[part]
  BY <1>4, <1>5, <1>7, <1>8, <1>11, <1>12
<1>15. r \in S /\ r \notin T => Pending(k, part) = Pending(k, part)' + req[r].charge[part]
  BY <1>4, <1>5, <1>7, <1>9, <1>10, <1>12
<1> QED
  BY <1>13, <1>14, <1>15 DEF S, T

\* What a step of a handler does to the windows: only record changes what they
\* show, and only in the window of the period it read.
LEMMA HandlerWindows ==
  ASSUME TypeOK, NEW r \in Reqs, Handler(r)
  PROVE  /\ clock' = clock
         /\ \A j \in Keys, p \in Periods :
              /\ win'[j][p].label \in {win[j][p].label, Label(p)}
              /\ \/ Current(j, p)' = Current(j, p)
                 \/ /\ Record(r) /\ j = req[r].key /\ p = req[r].limits.period
                    /\ HasBudget(req[r].limits)
                    /\ Current(j, p)' = AddCharge(Current(j, p), req[r].charge)
<1>1. clock' = clock
  BY DEF Handler, Authenticate, ReadClock, RefuseExpired, RefuseRpm,
     RefuseTpm, RefuseBudget, Admit, RefuseConcurrency, Enter, Complete,
     Record, Settle, Release
<1>2. \A p \in Periods : Label(p)' = Label(p)
  BY <1>1 DEF Label
<1>3. CASE win' = win
  BY <1>1, <1>2, <1>3 DEF Current
<1>4. CASE RefuseBudget(r) \/ Admit(r)
  <2>1. /\ req[r].key \in Keys /\ req[r].limits \in LimitRecord
        /\ RollWindow(req[r].key, req[r].limits)
    BY <1>4 DEF RefuseBudget, Admit, At, TypeOK, ReqRecord
  <2> QED
    BY <1>1, <2>1, RollHidden
<1>5. CASE Record(r) /\ HasBudget(req[r].limits)
  <2> DEFINE k == req[r].key
             l == req[r].limits
             c == req[r].charge
             w == AddCharge(Current(k, l.period), c)
  <2>1. k \in Keys /\ l.period \in Periods /\ c \in ChargeRecord
    BY <1>5 DEF Record, At, TypeOK, ReqRecord, LimitRecord
  <2>2. win \in [Keys -> [Periods -> UseRecord]]
    BY DEF TypeOK
  <2>3. win' = [win EXCEPT ![k][l.period] = w]
    BY <1>5 DEF Record
  <2>4. w.label = Label(l.period)
    <3>1. Current(k, l.period).label = Label(l.period)
      BY DEF Current, EmptyUse
    <3>2. Current(k, l.period) \in UseRecord
      BY <2>1, WindowTypes
    <3> QED
      BY <2>1, <3>1, <3>2, ChargeAdds
  <2>5. ASSUME NEW j \in Keys, NEW p \in Periods
        PROVE  /\ win'[j][p].label \in {win[j][p].label, Label(p)}
               /\ \/ Current(j, p)' = Current(j, p)
                  \/ /\ j = k /\ p = l.period
                     /\ Current(j, p)' = AddCharge(Current(j, p), c)
    <3> HIDE DEF w, k, l, c
    <3>1. CASE j = k /\ p = l.period
      <4>1. win'[j][p] = w
        BY <2>1, <2>2, <2>3, <3>1
      <4>2. Current(j, p)' = w
        BY <1>2, <2>4, <3>1, <4>1 DEF Current
      <4> QED
        BY <2>4, <3>1, <4>1, <4>2 DEF w
    <3>2. CASE ~(j = k /\ p = l.period)
      <4>1. win'[j][p] = win[j][p]
        BY <2>1, <2>2, <2>3, <3>2
      <4> QED
        BY <1>2, <4>1 DEF Current
    <3> QED
      BY <3>1, <3>2
  <2> QED
    BY <1>1, <1>5, <2>5
<1>6. CASE ~RefuseBudget(r) /\ ~Admit(r) /\ ~(Record(r) /\ HasBudget(req[r].limits))
  <2>1. win' = win
    BY <1>6 DEF Handler, Authenticate, ReadClock, RefuseExpired, RefuseRpm,
       RefuseTpm, RefuseConcurrency, Enter, Complete, Record, Settle, Release
  <2> QED
    BY <1>3, <2>1
<1> QED
  BY <1>4, <1>5, <1>6

LEMMA LabelsPastStep ==
  ASSUME TypeOK, NowPast, LabelsPast, [Next]_vars
  PROVE  /\ clock \in Nat /\ clock' \in Nat /\ clock <= clock'
         /\ LabelsPast'
<1>1. clock \in Nat /\ clock' \in Nat /\ clock <= clock' /\ TypeOK'
  <2>1. TypeOK'
    BY TypeInductive
  <2>2. clock \in 0..MaxClock /\ clock' \in 0..MaxClock
    BY <2>1 DEF TypeOK
  <2> QED
    BY <2>1, <2>2, NowPastStep, AdmissionAssumption
<1>2. \A p \in Periods : Label(p) \in Nat /\ Label(p)' \in Int /\ Label(p) <= Label(p)'
  BY <1>1, LabelGrows
<1>3. \A k \in Keys, p \in Periods : win[k][p].label \in Int
  <2>1. \A k \in Keys, p \in Periods : win[k][p] \in UseRecord
    BY DEF TypeOK
  <2> QED
    BY <2>1 DEF UseRecord
<1>4. ASSUME \A k \in Keys, p \in Periods :
               win'[k][p].label \in {win[k][p].label, Label(p)}
      PROVE  LabelsPast'
  <2>1. \A k \in Keys, p \in Periods : win'[k][p].label <= Label(p)'
    BY <1>2, <1>3, <1>4 DEF LabelsPast
  <2> QED
    BY <2>1 DEF LabelsPast
<1>5. ASSUME NEW r \in Reqs, Handler(r)
      PROVE  LabelsPast'
  BY <1>4, <1>5, HandlerWindows
<1>6. ASSUME NEW k \in Keys, BudgetUsage(k)
      PROVE  LabelsPast'
  <2>1. limits[k] \in LimitRecord /\ clock' = clock
    BY <1>6 DEF BudgetUsage, TypeOK
  <2> QED
    BY <1>4, <1>6, <2>1, RollHidden DEF BudgetUsage
<1>7. CASE Restart
  <2>1. ASSUME NEW k \in Keys, NEW p \in Periods
        PROVE  win'[k][p].label = Label(p)
    <3>1. win'[k][p] = Loaded(k, p)
      BY <1>7 DEF Restart
    <3>2. Loaded(k, p).label = Label(p)
      <4>1. Label(p) \in Days
        BY LabelInDays
      <4>2. EmptyUse(Label(p)) \in UseRecord /\ EmptyUse(Label(p)).label = Label(p)
        BY <4>1 DEF EmptyUse, UseRecord, Days
      <4>3. ledger[k][p][Label(p)] \in ChargeRecord
        BY <4>1 DEF TypeOK
      <4> QED
        BY <4>2, <4>3, ChargeAdds DEF Loaded
    <3> QED
      BY <3>1, <3>2
  <2> QED
    BY <1>1, <1>4, <2>1
<1>8. CASE \/ \E k \in Keys, l \in Limits : UpdateKey(k, l)
           \/ Tick \/ UNCHANGED vars
  <2>1. win' = win
    BY <1>8 DEF UpdateKey, Tick, vars
  <2> QED
    BY <1>1, <1>4, <2>1
<1> QED
  BY <1>1, <1>5, <1>6, <1>7, <1>8 DEF Next

\* What the clock does to a window: it stays or it is empty.
LEMMA TickWindows ==
  ASSUME TypeOK, LabelsPast, clock \in Nat, clock' \in Nat, clock <= clock',
         win' = win
  PROVE  \A k \in Keys, p \in Periods :
           \/ Current(k, p)' = EmptyUse(Label(p)')
           \/ Current(k, p)' = Current(k, p) /\ Label(p)' = Label(p)
<1> SUFFICES ASSUME NEW k \in Keys, NEW p \in Periods
             PROVE  \/ Current(k, p)' = EmptyUse(Label(p)')
                    \/ Current(k, p)' = Current(k, p) /\ Label(p)' = Label(p)
  OBVIOUS
<1>1. Label(p) \in Nat /\ Label(p) <= Label(p)' /\ win[k][p].label <= Label(p)
  BY LabelGrows DEF LabelsPast
<1>2. win[k][p].label \in Int
  BY DEF TypeOK, UseRecord
<1>3. CASE win[k][p].label = Label(p)'
  <2>1. Label(p)' = Label(p)
    BY <1>1, <1>2, <1>3
  <2> QED
    BY <2>1 DEF Current
<1>4. CASE win[k][p].label # Label(p)'
  BY <1>4 DEF Current
<1> QED
  BY <1>3, <1>4

\* The handlers that have recorded and not settled after a handler's step.
LEMMA UnsettledSteps ==
  ASSUME TypeOK, NEW r \in Reqs, Handler(r), NEW k \in Keys
  PROVE  /\ ~Record(r) => r \notin Unsettled(k)'
         /\ ~Settle(r) => r \notin Unsettled(k)
         /\ Record(r) => /\ r \notin Unsettled(k)
                         /\ r \in Unsettled(k)' <=>
                              k = req[r].key /\ HasBudget(req[r].limits)
                         /\ req'[r].charge = req[r].charge
         /\ Settle(r) => (r \in Unsettled(k) => k = req[r].key)
<1>1. ASSUME Record(r)
      PROVE  /\ At(r, "done") /\ req'[r].stage = "recorded"
             /\ req'[r].key = req[r].key /\ req'[r].limits = req[r].limits
             /\ req'[r].charge = req[r].charge
  BY <1>1 DEF Record, Goto, At, TypeOK, ReqRecord
<1>2. ASSUME ~Record(r)
      PROVE  req'[r].stage # "recorded"
  <2>1. CASE Finished(r)
    BY <2>1, IdleTyped DEF Finished, TypeOK
  <2>2. ASSUME NEW k1 \in Keys, Authenticate(r, k1)
        PROVE  req'[r].stage # "recorded"
    BY <2>2 DEF Authenticate, TypeOK, ReqRecord
  <2>3. CASE ReadClock(r)
    BY <2>3 DEF ReadClock, TypeOK, ReqRecord
  <2>4. ASSUME NEW c \in Charges, Complete(r, c)
        PROVE  req'[r].stage # "recorded"
    BY <2>4 DEF Complete, TypeOK, ReqRecord
  <2>5. CASE \E stage \in Stages \ {"recorded"} : Goto(r, stage)
    BY <2>5 DEF Goto, TypeOK, ReqRecord
  <2> QED
    BY <1>2, <2>1, <2>2, <2>3, <2>4, <2>5
    DEF Handler, RefuseExpired, RefuseRpm, RefuseTpm, RefuseBudget, Admit,
        RefuseConcurrency, Enter, Settle, Release, Stages
<1>3. ~Settle(r) => ~At(r, "recorded")
  BY DEF Handler, Authenticate, ReadClock, RefuseExpired, RefuseRpm,
     RefuseTpm, RefuseBudget, Admit, RefuseConcurrency, Enter, Complete,
     Record, Release, At
<1> QED
  BY <1>1, <1>2, <1>3 DEF Unsettled, At

LEMMA LoadedType ==
  ASSUME TypeOK
  PROVE  \A k \in Keys, p \in Periods :
           /\ Loaded(k, p).label = Label(p)
           /\ \A part \in Parts : Loaded(k, p)[part] \in Nat
<1> SUFFICES ASSUME NEW k \in Keys, NEW p \in Periods
             PROVE  /\ Loaded(k, p).label = Label(p)
                    /\ \A part \in Parts : Loaded(k, p)[part] \in Nat
  OBVIOUS
<1>1. Label(p) \in Days
  BY LabelInDays
<1>2. EmptyUse(Label(p)) \in UseRecord /\ EmptyUse(Label(p)).label = Label(p)
  BY <1>1 DEF EmptyUse, UseRecord, Days
<1>3. ledger[k][p][Label(p)] \in ChargeRecord
  BY <1>1 DEF TypeOK
<1>4. Loaded(k, p) \in UseRecord
  BY <1>2, <1>3, WindowTypes DEF Loaded
<1> QED
  BY <1>2, <1>3, <1>4, ChargeAdds DEF Loaded

\* What settling a request adds to the ledger.
LEMMA SettledLedger ==
  ASSUME TypeOK, NEW r \in Reqs, Handler(r), NEW k \in Keys, NEW p \in Periods,
         NEW part \in Parts
  PROVE  /\ Loaded(k, p)[part] \in Nat /\ Loaded(k, p)'[part] \in Nat
         /\ Loaded(k, p)[part] <= Loaded(k, p)'[part]
         /\ Settle(r) /\ k = req[r].key =>
              Loaded(k, p)'[part] = Loaded(k, p)[part] + req[r].charge[part]
<1>1. clock' = clock /\ Label(p)' = Label(p)
  BY HandlerWindows DEF Label
<1>2. Label(p) \in Days
  BY LabelInDays
<1> DEFINE n == Label(p)
           e == EmptyUse(n)
           row == ledger[k][p][n]
<1>3. e \in UseRecord /\ row \in ChargeRecord /\ e[part] = 0
  <2>1. e \in UseRecord /\ e[part] = 0
    BY <1>2 DEF EmptyUse, UseRecord, Days, Parts
  <2>2. row \in ChargeRecord
    BY <1>2 DEF TypeOK
  <2> QED
    BY <2>1, <2>2
<1>4. Loaded(k, p) = AddCharge(e, row) /\ Loaded(k, p)' = AddCharge(e, ledger'[k][p][n])
  BY <1>1 DEF Loaded
<1>5. Loaded(k, p)[part] = row[part] /\ row[part] \in Nat
  BY <1>3, <1>4, ChargeAdds
<1>6. CASE ~(Settle(r) /\ k = req[r].key)
  <2>1. ledger'[k] = ledger[k]
    <3>1. CASE Settle(r)
      BY <1>6, <3>1 DEF Settle, TypeOK
    <3>2. CASE ~Settle(r)
      BY <3>2 DEF Handler, Authenticate, ReadClock, RefuseExpired, RefuseRpm,
         RefuseTpm, RefuseBudget, Admit, RefuseConcurrency, Enter, Complete,
         Record, Release
    <3> QED
      BY <3>1, <3>2
  <2>2. Loaded(k, p)' = Loaded(k, p)
    BY <1>4, <2>1
  <2> QED
    BY <1>5, <1>6, <2>2
<1>7. CASE Settle(r) /\ k = req[r].key
  <2>1. req[r].charge \in ChargeRecord
    BY DEF TypeOK, ReqRecord
  <2>2. ledger'[k][p][n] = AddCharge(row, req[r].charge)
    <3>1. ledger'[k] = Charged(k, req[r].charge)
      BY <1>7 DEF Settle, TypeOK
    <3>2. Charged(k, req[r].charge)[p]
            = [ledger[k][p] EXCEPT ![n] = AddCharge(@, req[r].charge)]
      BY DEF Charged
    <3>3. ledger[k][p] \in [Days -> ChargeRecord]
      BY DEF TypeOK
    <3> HIDE DEF n
    <3> QED
      BY <1>2, <3>1, <3>2, <3>3 DEF n
  <2>3. /\ AddCharge(row, req[r].charge) \in ChargeRecord
        /\ AddCharge(row, req[r].charge)[part] = row[part] + req[r].charge[part]
        /\ req[r].charge[part] \in Nat
    BY <1>3, <2>1, WindowTypes, ChargeAdds
  <2> HIDE DEF row, e, n
  <2>4. Loaded(k, p)'[part] = 0 + AddCharge(row, req[r].charge)[part]
    BY <1>3, <1>4, <2>2, <2>3, ChargeAdds
  <2> QED
    BY <1>5, <2>3, <2>4
<1> QED
  BY <1>6, <1>7

\* The same after a step.
LEMMA SumTypesNext ==
  (TypeOK => \A k \in Keys, part \in Parts :
               /\ Pending(k, part) \in Nat
               /\ \A p \in Periods : Loaded(k, p)[part] \in Nat)'
<1>1. TypeOK => \A k \in Keys, part \in Parts :
                  /\ Pending(k, part) \in Nat
                  /\ \A p \in Periods : Loaded(k, p)[part] \in Nat
  BY PendingType, LoadedType
<1> QED
  BY <1>1, PTL

BudgetInvariant ==
  TypeOK /\ NowPast /\ LabelsPast /\ RestartForgetsOnlyUnsettled

LEMMA RestartForgetsStep ==
  BudgetInvariant /\ [Next]_vars => RestartForgetsOnlyUnsettled'
<1> SUFFICES ASSUME BudgetInvariant, [Next]_vars,
                    NEW k \in Keys, NEW p \in Periods, NEW part \in Parts
             PROVE  Current(k, p)'[part] <= Loaded(k, p)'[part] + Pending(k, part)'
  BY DEF RestartForgetsOnlyUnsettled, Parts
<1>1. /\ TypeOK /\ TypeOK' /\ LabelsPast
      /\ clock \in Nat /\ clock' \in Nat /\ clock <= clock'
  BY TypeInductive, LabelsPastStep DEF BudgetInvariant
<1>2. Current(k, p)[part] <= Loaded(k, p)[part] + Pending(k, part)
  BY DEF BudgetInvariant, RestartForgetsOnlyUnsettled, Parts
<1>3. Pending(k, part) \in Nat /\ Pending(k, part)' \in Nat
  <2>1. Pending(k, part) \in Nat
    BY <1>1, PendingType
  <2> QED
    BY <1>1, <2>1, SumTypesNext
<1>4. Current(k, p) \in UseRecord /\ Current(k, p)[part] \in Nat
  BY <1>1, WindowTypes, ChargeAdds
<1>5. ASSUME NEW r \in Reqs, Handler(r)
      PROVE  Current(k, p)'[part] <= Loaded(k, p)'[part] + Pending(k, part)'
  <2>1. /\ Loaded(k, p)[part] \in Nat /\ Loaded(k, p)'[part] \in Nat
        /\ Loaded(k, p)[part] <= Loaded(k, p)'[part]
        /\ Settle(r) /\ k = req[r].key =>
             Loaded(k, p)'[part] = Loaded(k, p)[part] + req[r].charge[part]
    BY <1>1, <1>5, SettledLedger
  <2>2. req[r].charge \in ChargeRecord /\ req[r].charge[part] \in Nat
    <3>1. req[r].charge \in ChargeRecord
      BY <1>1 DEF TypeOK, ReqRecord
    <3> QED
      BY <3>1, ChargeAdds
  <2>3. /\ r \notin Unsettled(k) /\ r \notin Unsettled(k)'
             => Pending(k, part)' = Pending(k, part)
        /\ r \notin Unsettled(k) /\ r \in Unsettled(k)'
             => Pending(k, part)' = Pending(k, part) + req'[r].charge[part]
        /\ r \in Unsettled(k) /\ r \notin Unsettled(k)'
             => Pending(k, part) = Pending(k, part)' + req[r].charge[part]
    BY <1>1, <1>5, OthersWait, PendingStep
  <2>4. /\ ~Record(r) => r \notin Unsettled(k)'
        /\ ~Settle(r) => r \notin Unsettled(k)
        /\ Record(r) => /\ r \notin Unsettled(k)
                        /\ r \in Unsettled(k)' <=>
                             k = req[r].key /\ HasBudget(req[r].limits)
                        /\ req'[r].charge = req[r].charge
        /\ Settle(r) => (r \in Unsettled(k) => k = req[r].key)
    BY <1>1, <1>5, UnsettledSteps
  <2>5. \/ Current(k, p)' = Current(k, p)
        \/ /\ Record(r) /\ k = req[r].key /\ HasBudget(req[r].limits)
           /\ Current(k, p)' = AddCharge(Current(k, p), req[r].charge)
    BY <1>1, <1>5, HandlerWindows
  <2>6. CASE Record(r) /\ r \in Unsettled(k)'
    <3>1. Pending(k, part)' = Pending(k, part) + req[r].charge[part]
      BY <2>3, <2>4, <2>6
    <3>2. \/ Current(k, p)'[part] = Current(k, p)[part]
          \/ Current(k, p)'[part] = Current(k, p)[part] + req[r].charge[part]
      BY <1>4, <2>2, <2>5, ChargeAdds
    <3> QED
      BY <1>2, <1>3, <1>4, <2>1, <2>2, <3>1, <3>2
  <2>7. CASE Record(r) /\ r \notin Unsettled(k)'
    <3>1. Pending(k, part)' = Pending(k, part) /\ Current(k, p)' = Current(k, p)
      BY <2>3, <2>4, <2>5, <2>7
    <3> QED
      BY <1>2, <1>3, <1>4, <2>1, <3>1
  <2>8. CASE Settle(r) /\ r \in Unsettled(k)
    <3>1. /\ Pending(k, part) = Pending(k, part)' + req[r].charge[part]
          /\ k = req[r].key /\ ~Record(r)
      BY <2>3, <2>4, <2>8
    <3>2. /\ Current(k, p)' = Current(k, p)
          /\ Loaded(k, p)'[part] = Loaded(k, p)[part] + req[r].charge[part]
      BY <2>1, <2>5, <2>8, <3>1
    <3> QED
      BY <1>2, <1>3, <1>4, <2>1, <2>2, <3>1, <3>2
  <2>9. CASE ~Record(r) /\ ~(Settle(r) /\ r \in Unsettled(k))
    <3>1. Pending(k, part)' = Pending(k, part) /\ Current(k, p)' = Current(k, p)
      BY <2>3, <2>4, <2>5, <2>9
    <3> QED
      BY <1>2, <1>3, <1>4, <2>1, <3>1
  <2> QED
    BY <2>6, <2>7, <2>8, <2>9
<1>6. ASSUME req' = req, ledger' = ledger, Label(p)' = Label(p),
             Current(k, p)' = Current(k, p)
      PROVE  Current(k, p)'[part] <= Loaded(k, p)'[part] + Pending(k, part)'
  <2>1. Loaded(k, p)' = Loaded(k, p) /\ Pending(k, part)' = Pending(k, part)
    BY <1>6 DEF Loaded, Pending, Unsettled, At
  <2> QED
    BY <1>2, <1>6, <2>1
<1>7. ASSUME NEW j \in Keys, NEW l \in Limits, UpdateKey(j, l)
      PROVE  Current(k, p)'[part] <= Loaded(k, p)'[part] + Pending(k, part)'
  BY <1>6, <1>7 DEF UpdateKey, Current, Label
<1>8. ASSUME NEW j \in Keys, BudgetUsage(j)
      PROVE  Current(k, p)'[part] <= Loaded(k, p)'[part] + Pending(k, part)'
  <2>1. limits[j] \in LimitRecord
    BY <1>1 DEF TypeOK
  <2> QED
    BY <1>1, <1>6, <1>8, <2>1, RollHidden DEF BudgetUsage, Label
<1>9. ASSUME Current(k, p)' = EmptyUse(Label(p)')
      PROVE  Current(k, p)'[part] <= Loaded(k, p)'[part] + Pending(k, part)'
  <2>1. Current(k, p)'[part] = 0
    BY <1>9 DEF EmptyUse, Parts
  <2>2. Loaded(k, p)'[part] \in Nat
    BY <1>1, SumTypesNext
  <2> QED
    BY <1>3, <2>1, <2>2
<1>10. CASE Tick
  BY <1>1, <1>6, <1>9, <1>10, TickWindows DEF Tick
<1>11. CASE Restart
  <2>1. Current(k, p)' = Loaded(k, p)'
    <3>1. Label(p)' = Label(p) /\ Loaded(k, p)' = Loaded(k, p)
      BY <1>11 DEF Restart, Loaded, Label
    <3>2. Loaded(k, p).label = Label(p)
      BY <1>1, LoadedType
    <3>3. win'[k][p] = Loaded(k, p)
      BY <1>11 DEF Restart
    <3> QED
      BY <3>1, <3>2, <3>3 DEF Current
  <2>2. Loaded(k, p)'[part] \in Nat
    BY <1>1, SumTypesNext
  <2> QED
    BY <1>3, <2>1, <2>2
<1>12. CASE UNCHANGED vars
  BY <1>6, <1>12 DEF vars, Current, Label
<1> QED
  BY <1>5, <1>7, <1>8, <1>10, <1>11, <1>12 DEF Next

\* A restart never brings back less than the windows showed, except for the
\* charges that were recorded in memory and had not reached the ledger.
THEOREM RestartForgetsLittle == Spec => []RestartForgetsOnlyUnsettled
<1>1. Init => BudgetInvariant
  <2> SUFFICES ASSUME Init
               PROVE  NowPast /\ LabelsPast /\ RestartForgetsOnlyUnsettled
    BY TypeInit DEF BudgetInvariant
  <2>1. TypeOK /\ clock \in Nat
    BY TypeInit, AdmissionAssumption DEF TypeOK
  <2>2. \A p \in Periods : Label(p) \in Nat
    BY <2>1, LabelInDays DEF Days
  <2>3. NowPast /\ LabelsPast
    BY <2>2 DEF Init, NowPast, IdleReq, LabelsPast, EmptyUse, NoLabel
  <2>4. ASSUME NEW k \in Keys, NEW p \in Periods, NEW part \in Parts
        PROVE  Current(k, p)[part] <= Loaded(k, p)[part] + Pending(k, part)
    <3>1. Current(k, p)[part] = 0
      BY <2>2 DEF Init, Current, EmptyUse, NoLabel, Parts
    <3>2. Loaded(k, p)[part] \in Nat /\ Pending(k, part) \in Nat
      BY <2>1, LoadedType, PendingType
    <3> QED
      BY <3>1, <3>2
  <2> QED
    BY <2>3, <2>4 DEF RestartForgetsOnlyUnsettled, Parts
<1>2. BudgetInvariant /\ [Next]_vars => BudgetInvariant'
  BY TypeInductive, NowPastStep, LabelsPastStep, RestartForgetsStep DEF BudgetInvariant
<1>3. BudgetInvariant => RestartForgetsOnlyUnsettled
  BY DEF BudgetInvariant
<1> QED
  BY <1>1, <1>2, <1>3, PTL DEF Spec

-----------------------------------------------------------------------------
(* How far a token budget can be passed.                                     *)

\* The charge that a handler carries to record is one that a request can cost.
ChargesKnown == \A r \in Reqs : At(r, "done") => req[r].charge \in Charges

LEMMA ChargesKnownStep ==
  ASSUME TypeOK, ChargesKnown, [Next]_vars
  PROVE  ChargesKnown'
<1>1. ASSUME NEW r \in Reqs, Handler(r)
      PROVE  ChargesKnown'
  <2>1. req'[r].stage = "done" => req'[r].charge \in Charges
    <3>1. CASE Finished(r)
      BY <3>1, IdleTyped DEF Finished, TypeOK
    <3>2. ASSUME NEW k \in Keys, Authenticate(r, k)
          PROVE  req'[r].stage # "done"
      BY <3>2 DEF Authenticate, TypeOK, ReqRecord
    <3>3. CASE ReadClock(r)
      BY <3>3 DEF ReadClock, TypeOK, ReqRecord
    <3>4. ASSUME NEW c \in Charges, Complete(r, c)
          PROVE  req'[r].charge \in Charges
      BY <3>4 DEF Complete, TypeOK, ReqRecord
    <3>5. CASE \E stage \in Stages \ {"done"} : Goto(r, stage)
      BY <3>5 DEF Goto, TypeOK, ReqRecord
    <3> QED
      BY <1>1, <3>1, <3>2, <3>3, <3>4, <3>5
      DEF Handler, RefuseExpired, RefuseRpm, RefuseTpm, RefuseBudget, Admit,
          RefuseConcurrency, Enter, Record, Settle, Release, Stages
  <2> QED
    BY <1>1, <2>1, OthersWait DEF ChargesKnown, At
<1>2. CASE Restart
  BY <1>2, IdleTyped DEF Restart, ChargesKnown, At
<1>3. CASE \/ \E k \in Keys, l \in Limits : UpdateKey(k, l)
           \/ \E k \in Keys : BudgetUsage(k)
           \/ Tick \/ UNCHANGED vars
  BY <1>3 DEF UpdateKey, BudgetUsage, Tick, vars, ChargesKnown, At
<1> QED
  BY <1>1, <1>2, <1>3 DEF Next

LEMMA DearestBounds ==
  ASSUME IsFiniteSet(Charges), Charges # {}
  PROVE  DearestCharge \in Nat /\ \A c \in Charges : c.tok <= DearestCharge
<1> DEFINE T == {c.tok : c \in Charges}
           f == [c \in Charges |-> c.tok]
<1>1. T \in SUBSET Nat /\ T # {}
  BY AdmissionAssumption DEF ChargeRecord
<1>2. IsFiniteSet(T)
  <2>1. f \in Surjection(Charges, T)
    BY DEF Surjection
  <2> QED
    BY <2>1, FS_Surjection
<1> HIDE DEF T
<1>3. PICK n \in T : \A m \in T : m <= n
  BY <1>1, <1>2, GreatestNumber
<1>4. \A m \in T : n >= m
  BY <1>1, <1>3
<1>5. Max(T) \in T /\ \A m \in T : Max(T) >= m
  BY <1>4 DEF Max
<1>6. Max(T) \in Nat /\ \A m \in T : m <= Max(T)
  BY <1>1, <1>5
<1> QED
  BY <1>6 DEF T, DearestCharge

LEMMA Products ==
  /\ \A d, m, n \in Nat : m <= n => d * m <= d * n /\ d * m \in Nat /\ d * n \in Nat
  /\ \A d, n \in Nat : d * (n + 1) = d * n + d
OBVIOUS

\* Only admission puts a request in flight, and record takes it out again.
LEMMA InFlightSteps ==
  ASSUME TypeOK, NEW r \in Reqs, Handler(r), NEW k \in Keys
  PROVE  /\ ~(Admit(r) /\ req[r].key = k) => InFlight(k)' \subseteq InFlight(k)
         /\ Record(r) /\ req[r].key = k => r \in InFlight(k) /\ r \notin InFlight(k)'
<1> DEFINE flight == {"admitted", "inside", "done"}
<1>1. \A s \in Reqs \ {r} : s \in InFlight(k)' <=> s \in InFlight(k)
  BY OthersWait DEF InFlight
<1>2. ASSUME NEW stage \in Stages, Goto(r, stage)
      PROVE  req'[r].stage = stage /\ req'[r].key = req[r].key
  BY <1>2 DEF Goto, TypeOK, ReqRecord
<1>3. ASSUME ~Admit(r), r \in InFlight(k)'
      PROVE  r \in InFlight(k)
  <2>0. req'[r].key = k /\ req'[r].stage \in flight
    BY <1>3 DEF InFlight
  <2>1. CASE Finished(r)
    BY <2>0, <2>1, IdleTyped DEF Finished, TypeOK
  <2>2. ASSUME NEW j \in Keys, Authenticate(r, j)
        PROVE  FALSE
    BY <2>0, <2>2 DEF Authenticate, TypeOK, ReqRecord
  <2>3. CASE ReadClock(r)
    BY <2>0, <2>3 DEF ReadClock, TypeOK, ReqRecord
  <2>4. ASSUME NEW c \in Charges, Complete(r, c)
        PROVE  r \in InFlight(k)
    BY <2>0, <2>4 DEF Complete, At, InFlight, TypeOK, ReqRecord
  <2>5. CASE Enter(r)
    BY <1>2, <2>0, <2>5 DEF Enter, At, InFlight, Stages
  <2>6. CASE Record(r) \/ Settle(r)
    BY <1>2, <2>0, <2>6 DEF Record, Settle, Stages
  <2> QED
    BY <1>3, <2>1, <2>2, <2>3, <2>4, <2>5, <2>6
    DEF Handler, RefuseExpired, RefuseRpm, RefuseTpm, RefuseBudget,
        RefuseConcurrency, Release
<1>4. ASSUME Admit(r), req[r].key # k
      PROVE  r \notin InFlight(k)'
  BY <1>2, <1>4 DEF Admit, InFlight, Stages
<1>5. ASSUME Record(r), req[r].key = k
      PROVE  r \in InFlight(k) /\ r \notin InFlight(k)'
  BY <1>2, <1>5 DEF Record, At, InFlight, Stages
<1>6. InFlight(k) \subseteq Reqs /\ InFlight(k)' \subseteq Reqs
  BY DEF InFlight
<1> QED
  BY <1>1, <1>3, <1>4, <1>5, <1>6

OvershootInvariant ==
  /\ TypeOK /\ NowPast /\ LabelsPast /\ ChargesKnown
  /\ count.updates = 0 => RowRead
  /\ OvershootBounded

LEMMA OvershootStep ==
  ASSUME IsFiniteSet(Charges), Charges # {}, OvershootInvariant, [Next]_vars
  PROVE  OvershootBounded' /\ (count'.updates = 0 => RowRead')
<1>1. /\ TypeOK /\ TypeOK' /\ LabelsPast
      /\ clock \in Nat /\ clock' \in Nat /\ clock <= clock'
  BY TypeInductive, LabelsPastStep DEF OvershootInvariant
<1>2. SUFFICES ASSUME count'.updates = 0
               PROVE  /\ RowRead'
                      /\ count'.restarts = 0 => OvershootBounded'
  BY DEF OvershootBounded
<1>3. /\ count \in [starts : Nat, updates : Nat, restarts : Nat]
      /\ \A k \in Keys, l \in Limits : ~UpdateKey(k, l)
      /\ count.updates = 0
  <2>1. count \in [starts : Nat, updates : Nat, restarts : Nat]
    BY <1>1 DEF TypeOK
  <2>2. ASSUME NEW k \in Keys, NEW l \in Limits, UpdateKey(k, l)
        PROVE  FALSE
    BY <1>2, <2>1, <2>2 DEF UpdateKey
  <2>3. CASE \E r \in Reqs : Handler(r)
    <3>1. count'.updates = count.updates
      BY <2>1, <2>3 DEF Handler, Authenticate, ReadClock, RefuseExpired, RefuseRpm,
         RefuseTpm, RefuseBudget, Admit, RefuseConcurrency, Enter, Complete,
         Record, Settle, Release
    <3> QED
      BY <1>2, <2>1, <2>2, <3>1
  <2>4. CASE ~(\E r \in Reqs : Handler(r))
    <3>1. count'.updates = count.updates
      BY <2>1, <2>2, <2>4 DEF Next, BudgetUsage, Tick, Restart, vars
    <3> QED
      BY <1>2, <2>1, <2>2, <3>1
  <2> QED
    BY <2>3, <2>4
<1>4. limits' = limits
  BY <1>3 DEF Next, Handler, Authenticate, ReadClock, RefuseExpired, RefuseRpm,
     RefuseTpm, RefuseBudget, Admit, RefuseConcurrency, Enter, Complete,
     Record, Settle, Release, BudgetUsage, Tick, Restart, vars
<1>5. RowRead /\ RowRead'
  BY <1>1, <1>3, <1>4, RowReadStep DEF OvershootInvariant
<1>6. SUFFICES ASSUME count'.restarts = 0, NEW k \in Keys, limits[k].tokens > 0,
                      NEW p \in Periods, p = limits[k].period
               PROVE  Current(k, p)'.tok + DearestCharge * Cardinality(InFlight(k)')
                        < limits[k].tokens + DearestCharge * Cardinality(Reqs)
  <2>1. \A k \in Keys : limits[k].period \in Periods
    BY <1>1 DEF TypeOK, LimitRecord
  <2> QED
    BY <1>4, <1>5, <2>1 DEF OvershootBounded
<1> DEFINE B == limits[k].tokens
           D == DearestCharge
           u == Current(k, p).tok
           u1 == Current(k, p)'.tok
           F == Cardinality(InFlight(k))
           F1 == Cardinality(InFlight(k)')
           N == Cardinality(Reqs)
<1>7. B \in Nat /\ B > 0
  BY <1>1, <1>6 DEF TypeOK, LimitRecord
<1>8. /\ ~Restart
      /\ count.restarts = 0
  <2>1. ASSUME Restart
        PROVE  FALSE
    BY <1>3, <1>6, <2>1 DEF Restart
  <2>2. count'.restarts = count.restarts
    BY <1>3, <2>1 DEF Next, Handler, Authenticate, ReadClock, RefuseExpired, RefuseRpm,
       RefuseTpm, RefuseBudget, Admit, RefuseConcurrency, Enter, Complete,
       Record, Settle, Release, BudgetUsage, Tick, vars
  <2> QED
    BY <1>6, <2>1, <2>2
<1>9. u + D * F < B + D * N
  BY <1>3, <1>6, <1>8 DEF OvershootInvariant, OvershootBounded
<1>10. /\ D \in Nat /\ u \in Nat /\ N \in Nat /\ F \in 0..N /\ F1 \in 0..N
       /\ IsFiniteSet(InFlight(k)) /\ IsFiniteSet(InFlight(k)')
  <2>1. u \in Nat
    <3>1. Current(k, p) \in UseRecord
      BY <1>1, <1>7, WindowTypes
    <3> QED
      BY <3>1 DEF UseRecord
  <2>2. InFlight(k) \in SUBSET Reqs /\ InFlight(k)' \in SUBSET Reqs
    BY DEF InFlight
  <2>3. /\ IsFiniteSet(InFlight(k)) /\ F \in Nat /\ F <= N
        /\ IsFiniteSet(InFlight(k)') /\ F1 \in Nat /\ F1 <= N /\ N \in Nat
    BY <2>2, AdmissionAssumption, FS_Subset, FS_CardinalityType
  <2> HIDE DEF F, F1, N, u
  <2> QED
    BY <2>1, <2>3, DearestBounds
\* Nothing is admitted or charged.
<1>11. ASSUME u1 = u, InFlight(k)' \subseteq InFlight(k)
       PROVE  u1 + D * F1 < B + D * N
  <2>1. F1 <= F
    BY <1>10, <1>11, FS_Subset
  <2> HIDE DEF u, u1, F, F1, N, B, D
  <2>2. D * F1 <= D * F /\ D * F1 \in Nat /\ D * F \in Nat /\ D * N \in Nat
    BY <1>10, <2>1, Products
  <2> QED
    BY <1>7, <1>9, <1>10, <1>11, <2>2
\* The window holds less than the budget: the requests in flight cannot bring
\* it past the bound.
<1>12. ASSUME u1 \in Nat, u1 < B
       PROVE  u1 + D * F1 < B + D * N
  <2> HIDE DEF u, u1, F, F1, N, B, D
  <2>1. D * F1 <= D * N /\ D * F1 \in Nat /\ D * N \in Nat
    BY <1>10, Products
  <2> QED
    BY <1>7, <1>12, <2>1
\* A request in flight is charged.
<1>13. ASSUME NEW r \in Reqs, Handler(r), Record(r), req[r].key = k
       PROVE  u1 + D * F1 < B + D * N
  <2>1. r \in InFlight(k) /\ InFlight(k)' \subseteq InFlight(k) \ {r}
    <3>1. ~Admit(r)
      BY <1>13 DEF Record, Admit, At
    <3> QED
      BY <1>1, <1>13, <3>1, InFlightSteps
  <2>2. F1 + 1 <= F
    <3>1. /\ Cardinality(InFlight(k) \ {r}) = F - 1
          /\ IsFiniteSet(InFlight(k) \ {r})
      BY <1>10, <2>1, FS_RemoveElement
    <3>2. F1 <= Cardinality(InFlight(k) \ {r})
      BY <2>1, <3>1, FS_Subset
    <3> HIDE DEF F, F1, N, D, u
    <3> QED
      BY <1>10, <3>1, <3>2
  <2>3. req[r].charge \in ChargeRecord /\ req[r].charge.tok <= D
    <3>1. req[r].charge \in Charges
      BY <1>13 DEF OvershootInvariant, ChargesKnown, Record
    <3> QED
      BY <3>1, DearestBounds, AdmissionAssumption
  <2>4. u1 = u \/ u1 = u + req[r].charge.tok
    <3>1. \/ Current(k, p)' = Current(k, p)
          \/ Current(k, p)' = AddCharge(Current(k, p), req[r].charge)
      BY <1>1, <1>7, <1>13, HandlerWindows
    <3>2. Current(k, p) \in UseRecord
      BY <1>1, <1>7, WindowTypes
    <3>3. AddCharge(Current(k, p), req[r].charge).tok = u + req[r].charge.tok
      BY <2>3, <3>2 DEF AddCharge, UseRecord
    <3> QED
      BY <3>1, <3>3
  <2>5. req[r].charge.tok \in Nat
    BY <2>3 DEF ChargeRecord
  <2> HIDE DEF u, u1, F, F1, N, B, D
  <2>6. D * F1 + D <= D * F /\ D * F1 \in Nat /\ D * F \in Nat /\ D * N \in Nat
    <3>1. D * (F1 + 1) <= D * F /\ D * F \in Nat
      BY <1>10, <2>2, Products
    <3>2. D * (F1 + 1) = D * F1 + D
      BY <1>10, Products
    <3>3. D * F1 \in Nat /\ D * N \in Nat
      BY <1>10, Products
    <3> QED
      BY <3>1, <3>2, <3>3
  <2> QED
    BY <1>7, <1>9, <1>10, <2>3, <2>4, <2>5, <2>6
<1>14. ASSUME NEW r \in Reqs, Handler(r)
       PROVE  u1 + D * F1 < B + D * N
  <2>1. CASE Record(r) /\ req[r].key = k
    BY <1>13, <1>14, <2>1
  <2>2. CASE ~(Record(r) /\ req[r].key = k)
    <3>1. u1 = u
      BY <1>1, <1>7, <1>14, <2>2, HandlerWindows
    <3>2. CASE Admit(r) /\ req[r].key = k
      <4>1. req[r].limits = limits[k]
        BY <1>5, <3>2 DEF RowRead, Admit, At
      <4>2. ~(u >= B)
        BY <1>6, <3>2, <4>1 DEF Admit, BudgetSpent, OverBudget
      <4> HIDE DEF u, u1, F, F1, N, B, D
      <4> QED
        BY <1>7, <1>10, <1>12, <3>1, <4>2
    <3>3. CASE ~(Admit(r) /\ req[r].key = k)
      <4>1. InFlight(k)' \subseteq InFlight(k)
        BY <1>1, <1>14, <3>3, InFlightSteps
      <4> QED
        BY <1>11, <3>1, <4>1
    <3> QED
      BY <3>2, <3>3
  <2> QED
    BY <2>1, <2>2
<1>15. ASSUME NEW j \in Keys, BudgetUsage(j)
       PROVE  u1 + D * F1 < B + D * N
  <2>1. limits[j] \in LimitRecord /\ clock' = clock /\ req' = req
    BY <1>1, <1>15 DEF BudgetUsage, TypeOK
  <2>2. u1 = u
    BY <1>1, <1>7, <1>15, <2>1, RollHidden DEF BudgetUsage
  <2>3. InFlight(k)' = InFlight(k)
    BY <2>1 DEF InFlight
  <2> QED
    BY <1>11, <2>2, <2>3
<1>16. CASE Tick
  <2>1. InFlight(k)' = InFlight(k)
    BY <1>16 DEF Tick, InFlight
  <2>2. \/ Current(k, p)' = EmptyUse(Label(p)')
        \/ Current(k, p)' = Current(k, p)
    BY <1>1, <1>7, <1>16, TickWindows DEF Tick
  <2>3. ASSUME Current(k, p)' = EmptyUse(Label(p)')
        PROVE  u1 + D * F1 < B + D * N
    <3>1. u1 = 0
      BY <2>3 DEF EmptyUse
    <3> HIDE DEF u, u1, F, F1, N, B, D
    <3> QED
      BY <1>7, <1>12, <3>1
  <2>4. CASE Current(k, p)' = Current(k, p)
    <3>1. u1 = u
      BY <2>4
    <3>2. InFlight(k)' \subseteq InFlight(k)
      BY <2>1
    <3> QED
      BY <1>11, <3>1, <3>2
  <2> QED
    BY <2>2, <2>3, <2>4
<1>17. CASE UNCHANGED vars
  <2>1. u1 = u /\ InFlight(k)' = InFlight(k)
    BY <1>17 DEF vars, Current, Label, InFlight
  <2> QED
    BY <1>11, <2>1
<1>18. u1 + D * F1 < B + D * N
  BY <1>3, <1>8, <1>14, <1>15, <1>16, <1>17 DEF Next
<1> QED
  BY <1>18

\* While the settings stay and the process runs, the tokens charged to a
\* budget window never reach the budget plus what the other handlers can cost,
\* whatever was in flight when the last request was admitted.
THEOREM OvershootAlwaysBounded ==
  ASSUME IsFiniteSet(Charges), Charges # {}
  PROVE  Spec => []OvershootBounded
<1>1. Init => OvershootInvariant
  <2> SUFFICES ASSUME Init
               PROVE  OvershootInvariant
    OBVIOUS
  <2>1. TypeOK
    BY TypeInit
  <2>2. \A p \in Periods : Label(p) \in Nat
    BY <2>1, LabelInDays DEF Days
  <2>3. NowPast /\ LabelsPast
    BY <2>2 DEF Init, NowPast, IdleReq, LabelsPast, EmptyUse, NoLabel
  <2>4. ChargesKnown /\ RowRead
    BY IdleTyped DEF Init, ChargesKnown, RowRead, At
  <2>5. ASSUME NEW k \in Keys, limits[k].tokens > 0
        PROVE  Current(k, limits[k].period).tok + DearestCharge * Cardinality(InFlight(k))
                 < limits[k].tokens + DearestCharge * Cardinality(Reqs)
    <3>1. InFlight(k) = {}
      BY IdleTyped DEF Init, InFlight
    <3>2. limits[k].period \in Periods /\ limits[k].tokens \in Nat
      BY <2>1 DEF TypeOK, LimitRecord
    <3>3. Current(k, limits[k].period).tok = 0
      BY <2>2, <3>2 DEF Init, Current, EmptyUse, NoLabel
    <3>4. Cardinality(InFlight(k)) = 0 /\ Cardinality(Reqs) \in Nat
      BY <3>1, FS_EmptySet, FS_CardinalityType, AdmissionAssumption
    <3> DEFINE D == DearestCharge
               N == Cardinality(Reqs)
    <3>5. D \in Nat
      BY DearestBounds
    <3> HIDE DEF D, N
    <3>6. D * 0 = 0 /\ D * N \in Nat
      BY <3>4, <3>5, Products DEF N
    <3> QED
      BY <2>5, <3>2, <3>3, <3>4, <3>6 DEF D, N
  <2> QED
    BY <2>1, <2>3, <2>4, <2>5 DEF OvershootInvariant, OvershootBounded
<1>2. OvershootInvariant /\ [Next]_vars => OvershootInvariant'
  <2> SUFFICES ASSUME OvershootInvariant, [Next]_vars
               PROVE  OvershootInvariant'
    OBVIOUS
  <2>1. OvershootBounded' /\ (count'.updates = 0 => RowRead')
    BY OvershootStep
  <2>2. TypeOK' /\ NowPast' /\ LabelsPast' /\ ChargesKnown'
    BY TypeInductive, NowPastStep, LabelsPastStep, ChargesKnownStep
    DEF OvershootInvariant
  <2> QED
    BY <2>1, <2>2 DEF OvershootInvariant
<1>3. OvershootInvariant => OvershootBounded
  BY DEF OvershootInvariant
<1> QED
  BY <1>1, <1>2, <1>3, PTL DEF Spec
=============================================================================
