----------------------- MODULE ExecutionEngineProofs -----------------------
(***************************************************************************)
(* What holds of the execution engine for every number of tasks, every set *)
(* of requests, every limit and every length of run; and, from the same    *)
(* lemmas, of the bot that runs it between syncs and restarts, for every   *)
(* P&L and margin as well.                                                 *)
(***************************************************************************)
EXTENDS TradingBot, KillSwitchProofs, DataLemmas

USE DEF Idle, Calling

(* The operations of the kill switch keep its type.                        *)
LEMMA ActivatedType ==
    ASSUME NEW k \in KSType, NEW l \in Levels, NEW t \in Nat
    PROVE  Activated(k, l, t) \in KSType
<1>1. CASE l = "INACTIVE"
  BY <1>1 DEF Activated
<1>2. CASE l # "INACTIVE"
  <2>1. [action |-> "ACTIVATED", level |-> l, time |-> t] \in LogEntry
    BY DEF LogEntry
  <2>2. Append(k.log, [action |-> "ACTIVATED", level |-> l, time |-> t]) \in Seq(LogEntry)
    BY <2>1 DEF KSType
  <2> QED
    BY <1>2, <2>2 DEF Activated, KSType
<1> QED
  BY <1>1, <1>2

(* Deactivating keeps the switch well typed.                               *)
LEMMA DeactivatedType ==
    ASSUME NEW k \in KSType, NEW t \in Nat
    PROVE  Deactivated(k, t) \in KSType
<1>1. CASE k.level = "INACTIVE"
  BY <1>1 DEF Deactivated
<1>2. CASE k.level # "INACTIVE"
  <2>1. [action |-> "DEACTIVATED", level |-> k.level, time |-> t] \in LogEntry
    BY DEF LogEntry, KSType
  <2>2. Append(k.log, [action |-> "DEACTIVATED", level |-> k.level, time |-> t]) \in Seq(LogEntry)
    BY <2>1 DEF KSType
  <2> QED
    BY <1>2, <2>2 DEF Deactivated, KSType, Levels
<1> QED
  BY <1>1, <1>2

(* An entry at the end of the trail keeps its type.                        *)
LEMMA RecordType ==
    ASSUME audit \in Seq(AuditEntry), NEW e \in EventTypes, NEW id \in Nat, Record(e, id)
    PROVE  audit' \in Seq(AuditEntry)
<1>1. [event |-> e, order_id |-> id] \in AuditEntry
  BY DEF AuditEntry
<1> QED
  BY <1>1 DEF Record

(* A recorded order keeps the type of the risk state.                      *)
LEMMA RecordOrderPlacedType ==
    ASSUME RiskTypeOK, now \in Nat, NEW o \in Requests, RecordOrderPlaced(o)
    PROVE  RiskTypeOK'
<1>1. o.symbol \in Symbols /\ o.quantity \in Int /\ o.price \in Int
  BY EngineAssumption
<1>2. OrderValue(o) \in Int
  BY <1>1 DEF OrderValue
<1>3. order_timestamps' \in Seq(Nat)
  BY DEF RiskTypeOK, RecordOrderPlaced
<1>4. positions' \in [Symbols -> Int]
  BY <1>1 DEF RiskTypeOK, RecordOrderPlaced
<1> QED
  BY <1>2, <1>3, <1>4 DEF RiskTypeOK, RecordOrderPlaced

(* The verdict of the risk manager keeps the types.                        *)
LEMMA CheckType ==
    ASSUME RiskTypeOK, audit \in Seq(AuditEntry), NEW o \in Requests, Check(o)
    PROVE  RiskTypeOK' /\ audit' \in Seq(AuditEntry)
<1>1. audit' \in Seq(AuditEntry)
  BY RecordType DEF Check, EventTypes
<1>2. order_rejections' \in Nat
  BY DEF Check, RiskTypeOK
<1> QED
  BY <1>1, <1>2 DEF Check, RiskTypeOK

(* A task in flight holds the record of its call.                          *)
LEMMA InFlightCall ==
    ASSUME EngineTypeOK, NEW t \in Tasks, call[t].pc # "idle"
    PROVE  call[t] \in Calls
BY DEF EngineTypeOK

(* The state between steps always has the shape EngineTypeOK gives it.     *)
LEMMA TypeInductive ==
    ASSUME EngineTypeOK, [EngineNext]_vars
    PROVE  EngineTypeOK'
<1> USE DEF EngineTypeOK
<1>1. ASSUME NEW t \in Tasks, SubmitBlocked(t)
      PROVE  EngineTypeOK'
  <2>1. audit' \in Seq(AuditEntry)
    BY <1>1, RecordType DEF SubmitBlocked, EventTypes
  <2>2. outcomes' \in [Statuses -> Nat]
    BY <1>1 DEF SubmitBlocked, Tally, Statuses
  <2> QED
    BY <1>1, <2>1, <2>2 DEF SubmitBlocked, ClockTypeOK, RiskTypeOK, riskVars
<1>2. ASSUME NEW t \in Tasks, NEW o \in Requests, SubmitRiskRejected(t, o)
      PROVE  EngineTypeOK'
  <2>1. audit' \in Seq(AuditEntry) /\ RiskTypeOK'
    BY <1>2, CheckType DEF SubmitRiskRejected
  <2>2. outcomes' \in [Statuses -> Nat]
    BY <1>2 DEF SubmitRiskRejected, Tally, Statuses
  <2> QED
    BY <1>2, <2>1, <2>2 DEF SubmitRiskRejected, ClockTypeOK
<1>3. ASSUME NEW t \in Tasks, NEW o \in Requests, SubmitCleared(t, o)
      PROVE  EngineTypeOK'
  <2>1. audit' \in Seq(AuditEntry) /\ RiskTypeOK'
    BY <1>3, CheckType DEF SubmitCleared
  <2>2. [pc |-> "calling", order |-> o, attempt |-> 0, submitted_at |-> now,
         sub |-> submissions + 1, id |-> 0] \in Calls
    BY EngineAssumption DEF Calls, ClockTypeOK
  <2>3. call' \in [Tasks -> Calls \cup {Idle}]
    BY <1>3, <2>2 DEF SubmitCleared
  <2>4. \A u \in Tasks : call'[u].pc = "sleeping" => call'[u].attempt < MaxRetries
    BY <1>3 DEF SubmitCleared
  <2> QED
    BY <1>3, <2>1, <2>3, <2>4 DEF SubmitCleared, ClockTypeOK
<1>4. ASSUME NEW t \in Tasks, PlaceReturns(t)
      PROVE  EngineTypeOK'
  <2>1. call[t] \in Calls
    BY <1>4, InFlightCall DEF PlaceReturns
  <2>2. RiskTypeOK'
    BY <1>4, <2>1, RecordOrderPlacedType DEF PlaceReturns, Calls, ClockTypeOK
  <2>3. audit' \in Seq(AuditEntry)
    BY <1>4, <2>1, RecordType DEF PlaceReturns, EventTypes, Calls
  <2>4. outcomes' \in [Statuses -> Nat]
    BY <1>4 DEF PlaceReturns, Tally, Statuses
  <2>5. call' \in [Tasks -> Calls \cup {Idle}]
    BY <1>4 DEF PlaceReturns
  <2>6. \A u \in Tasks : call'[u].pc = "sleeping" => call'[u].attempt < MaxRetries
    BY <1>4 DEF PlaceReturns
  <2> QED
    BY <1>4, <2>2, <2>3, <2>4, <2>5, <2>6 DEF PlaceReturns, ClockTypeOK
<1>5. ASSUME NEW t \in Tasks, PlaceReturnsRejected(t)
      PROVE  EngineTypeOK'
  <2>1. audit' \in Seq(AuditEntry)
    BY <1>5, RecordType DEF PlaceReturnsRejected, EventTypes
  <2>2. outcomes' \in [Statuses -> Nat]
    BY <1>5 DEF PlaceReturnsRejected, Tally, Statuses
  <2>3. call' \in [Tasks -> Calls \cup {Idle}]
    BY <1>5 DEF PlaceReturnsRejected
  <2>4. \A u \in Tasks : call'[u].pc = "sleeping" => call'[u].attempt < MaxRetries
    BY <1>5 DEF PlaceReturnsRejected
  <2> QED
    BY <1>5, <2>1, <2>2, <2>3, <2>4
    DEF PlaceReturnsRejected, ClockTypeOK, RiskTypeOK, riskVars
<1>6. ASSUME NEW t \in Tasks, PlaceRaisesRetry(t)
      PROVE  EngineTypeOK'
  <2>1. call[t] \in Calls
    BY <1>6, InFlightCall DEF PlaceRaisesRetry
  <2>2. [call[t] EXCEPT !.pc = "sleeping"] \in Calls
    BY <2>1 DEF Calls
  <2>3. call' = [call EXCEPT ![t] = [call[t] EXCEPT !.pc = "sleeping"]]
    BY <1>6 DEF PlaceRaisesRetry
  <2>4. call' \in [Tasks -> Calls \cup {Idle}]
    BY <2>2, <2>3
  <2>5. \A u \in Tasks : call'[u].pc = "sleeping" => call'[u].attempt < MaxRetries
    BY <1>6, <2>1, <2>3 DEF PlaceRaisesRetry, Calls
  <2> QED
    BY <1>6, <2>4, <2>5 DEF PlaceRaisesRetry, ClockTypeOK, RiskTypeOK, riskVars
<1>7. ASSUME NEW t \in Tasks, PlaceRaisesOut(t)
      PROVE  EngineTypeOK'
  <2>1. outcomes' \in [Statuses -> Nat]
    BY <1>7 DEF PlaceRaisesOut, Tally, Statuses
  <2>2. call' \in [Tasks -> Calls \cup {Idle}]
    BY <1>7 DEF PlaceRaisesOut
  <2>3. \A u \in Tasks : call'[u].pc = "sleeping" => call'[u].attempt < MaxRetries
    BY <1>7 DEF PlaceRaisesOut
  <2> QED
    BY <1>7, <2>1, <2>2, <2>3 DEF PlaceRaisesOut, ClockTypeOK, RiskTypeOK, riskVars
<1>8. ASSUME NEW t \in Tasks, RetryWake(t)
      PROVE  EngineTypeOK'
  <2>1. call[t] \in Calls /\ call[t].attempt < MaxRetries
    BY <1>8, InFlightCall DEF RetryWake
  <2>2. [call[t] EXCEPT !.pc = "calling", !.attempt = @ + 1, !.id = 0] \in Calls
    <3>1. call[t].attempt + 1 \in 0..MaxRetries
      BY <2>1, EngineAssumption DEF Calls
    <3> QED
      BY <2>1, <3>1 DEF Calls
  <2>3. call' = [call EXCEPT ![t] = [call[t] EXCEPT !.pc = "calling", !.attempt = @ + 1, !.id = 0]]
    BY <1>8 DEF RetryWake
  <2>4. call' \in [Tasks -> Calls \cup {Idle}]
    BY <2>2, <2>3
  <2>5. \A u \in Tasks : call'[u].pc = "sleeping" => call'[u].attempt < MaxRetries
    BY <2>1, <2>3 DEF Calls
  <2> QED
    BY <1>8, <2>4, <2>5 DEF RetryWake, ClockTypeOK, RiskTypeOK, riskVars
<1>9. ASSUME NEW t \in Tasks, RequestLeaves(t)
      PROVE  EngineTypeOK'
  <2>1. call[t] \in Calls
    BY <1>9, InFlightCall DEF RequestLeaves
  <2>2. [call[t] EXCEPT !.id = Len(book) + 1] \in Calls
    <3>1. Len(book) + 1 \in Nat
      OBVIOUS
    <3> QED
      BY <2>1, <3>1 DEF Calls
  <2>3. call' = [call EXCEPT ![t] = [call[t] EXCEPT !.id = Len(book) + 1]]
    BY <1>9 DEF RequestLeaves
  <2>4. call' \in [Tasks -> Calls \cup {Idle}]
    BY <2>2, <2>3
  <2>5. \A u \in Tasks : call'[u].pc = "sleeping" => call'[u].attempt < MaxRetries
    BY <2>1, <2>3 DEF Calls
  <2>6. [sub |-> call[t].sub, status |-> "SENT"] \in Orders
    BY <2>1 DEF Calls, Orders
  <2>7. book' \in Seq(Orders)
    BY <1>9, <2>6 DEF RequestLeaves
  <2> QED
    BY <1>9, <2>4, <2>5, <2>7 DEF RequestLeaves, ClockTypeOK, RiskTypeOK, riskVars
<1>10. ASSUME NEW id \in 1..Len(book), OrderStep(id)
       PROVE  EngineTypeOK'
  <2>1. ASSUME NEW s \in {"OPEN", "FILLED", "CANCELLED"}, book' = [book EXCEPT ![id].status = s]
        PROVE  book' \in Seq(Orders)
    <3>1. book[id] \in Orders
      OBVIOUS
    <3>2. [book[id] EXCEPT !.status = s] \in Orders
      BY <3>1 DEF Orders
    <3>3. book' = [book EXCEPT ![id] = [book[id] EXCEPT !.status = s]]
      BY <2>1
    <3> QED
      BY <3>2, <3>3
  <2>2. audit' \in Seq(AuditEntry)
    BY <1>10, RecordType
    DEF OrderStep, CancelAccepted, CancelRefused, CancelRaises, RequestArrives, ExchangeFills,
        EventTypes
  <2>3. book' \in Seq(Orders)
    BY <1>10, <2>1
    DEF OrderStep, CancelAccepted, CancelRefused, CancelRaises, RequestArrives, ExchangeFills
  <2> QED
    BY <1>10, <2>2, <2>3
    DEF OrderStep, CancelAccepted, CancelRefused, CancelRaises, RequestArrives, ExchangeFills,
        CancelFrame,
        ClockTypeOK, RiskTypeOK, riskVars
<1>11. CASE Authenticate
  BY <1>11 DEF Authenticate, ClockTypeOK, RiskTypeOK, riskVars
<1>12. CASE Operator
  <2>1. ks' \in KSType
    BY <1>12, ActivatedType, DeactivatedType
    DEF Operator, OperatorActivates, OperatorDeactivates, ClockTypeOK
  <2>2. allowed_symbols' \in SUBSET Symbols
    BY <1>12 DEF Operator, RegisterSymbol, RiskTypeOK, riskVars
  <2> QED
    BY <1>12, <2>1, <2>2
    DEF Operator, RegisterSymbol, EngineFrame, engineVars, ClockTypeOK, RiskTypeOK, riskVars
<1>13. CASE TimePasses
  BY <1>13 DEF TimePasses, Tick, EngineFrame, engineVars, ClockTypeOK, RiskTypeOK, riskVars
<1>14. CASE UNCHANGED vars
  BY <1>14 DEF vars, engineVars, ClockTypeOK, RiskTypeOK, riskVars
<1> QED
  BY <1>1, <1>2, <1>3, <1>4, <1>5, <1>6, <1>7, <1>8, <1>9, <1>10, <1>11, <1>12, <1>13, <1>14
  DEF EngineNext, TaskStep, Reply

(* So has the state the constructors build.                                *)
LEMMA InitType == EngineInit => EngineTypeOK
<1> SUFFICES ASSUME EngineInit PROVE EngineTypeOK
  OBVIOUS
<1>1. ks \in KSType
  BY DEF EngineInit, KSInit, Fresh, KSType, Levels, LogEntry
<1>2. RiskTypeOK
  BY RiskAssumption DEF EngineInit, RiskInit, RiskTypeOK
<1>3. \A t \in Tasks : call[t] = Idle
  BY DEF EngineInit
<1>4. call \in [Tasks -> Calls \cup {Idle}]
  BY DEF EngineInit
<1>5. audit \in Seq(AuditEntry) /\ book \in Seq(Orders)
  BY DEF EngineInit, AuditInit
<1>6. outcomes \in [Statuses -> Nat] /\ connected \in BOOLEAN
  BY DEF EngineInit
<1> QED
  BY <1>1, <1>2, <1>3, <1>4, <1>5, <1>6
  DEF EngineInit, EngineTypeOK, ClockInit, ClockTypeOK

(* Type correctness of the engine: src/execution/engine.py with the risk   *)
(* state, kill switch and audit trail it writes to.                        *)
THEOREM EngineTypeCorrect == EngineSpec => []EngineTypeOK
BY InitType, TypeInductive, PTL DEF EngineSpec
-----------------------------------------------------------------------------
(* What a step does to the orders in flight and to the recorded ones: a    *)
(* call begins, succeeds, fails, or nothing of this changes.               *)

Begins(t) ==
    /\ t \notin InFlight
    /\ InFlight' = InFlight \cup {t}
    /\ \E o \in Requests : SubmitCleared(t, o)

Succeeds(t) ==
    /\ t \in InFlight
    /\ InFlight' = InFlight \ {t}
    /\ PlaceReturns(t)

Fails(t) ==
    /\ t \in InFlight
    /\ InFlight' = InFlight \ {t}
    /\ UNCHANGED <<now, daily_order_count, order_timestamps, current_exposure>>

Quiet ==
    /\ InFlight' = InFlight
    /\ now' \in Nat /\ now' >= now
    /\ UNCHANGED <<daily_order_count, order_timestamps, current_exposure>>

(* Of all steps only these touch what the limits count: a call begins,     *)
(* succeeds or fails; every other step leaves calls in flight and counters *)
(* alone.                                                                  *)
LEMMA StepKinds ==
    ASSUME EngineTypeOK, [EngineNext]_vars
    PROVE  \/ Quiet
           \/ \E t \in Tasks : Begins(t) \/ Succeeds(t) \/ Fails(t)
<1> USE DEF EngineTypeOK, ClockTypeOK, InFlight
<1>1. ASSUME NEW t \in Tasks, SubmitBlocked(t)
      PROVE  Quiet
  BY <1>1 DEF SubmitBlocked, Quiet, riskVars
<1>2. ASSUME NEW t \in Tasks, NEW o \in Requests, SubmitRiskRejected(t, o)
      PROVE  Quiet
  BY <1>2 DEF SubmitRiskRejected, Check, Quiet
<1>3. ASSUME NEW t \in Tasks, NEW o \in Requests, SubmitCleared(t, o)
      PROVE  Begins(t)
  BY <1>3 DEF SubmitCleared, CanSubmit, Begins
<1>4. ASSUME NEW t \in Tasks, PlaceReturns(t)
      PROVE  Succeeds(t)
  BY <1>4 DEF PlaceReturns, Succeeds
<1>5. ASSUME NEW t \in Tasks, PlaceReturnsRejected(t)
      PROVE  Fails(t)
  BY <1>5 DEF PlaceReturnsRejected, Fails, riskVars
<1>6. ASSUME NEW t \in Tasks, PlaceRaisesRetry(t)
      PROVE  Quiet
  BY <1>6 DEF PlaceRaisesRetry, Quiet, riskVars
<1>7. ASSUME NEW t \in Tasks, PlaceRaisesOut(t)
      PROVE  Fails(t)
  BY <1>7 DEF PlaceRaisesOut, Fails, riskVars
<1>8. ASSUME NEW t \in Tasks, RetryWake(t)
      PROVE  Quiet
  BY <1>8 DEF RetryWake, Quiet, riskVars
<1>9. ASSUME NEW t \in Tasks, RequestLeaves(t)
      PROVE  Quiet
  BY <1>9 DEF RequestLeaves, Quiet, riskVars
<1>10. ASSUME NEW id \in 1..Len(book), OrderStep(id)
       PROVE  Quiet
  BY <1>10
  DEF OrderStep, CancelAccepted, CancelRefused, CancelRaises, RequestArrives, ExchangeFills,
      CancelFrame, Quiet, riskVars
<1>11. CASE Authenticate
  BY <1>11 DEF Authenticate, Quiet, riskVars
<1>12. CASE Operator
  BY <1>12 DEF Operator, RegisterSymbol, EngineFrame, engineVars, Quiet, riskVars
<1>13. CASE TimePasses
  BY <1>13 DEF TimePasses, Tick, EngineFrame, engineVars, Quiet, riskVars
<1>14. CASE UNCHANGED vars
  BY <1>14 DEF vars, engineVars, Quiet, riskVars
<1> QED
  BY <1>1, <1>2, <1>3, <1>4, <1>5, <1>6, <1>7, <1>8, <1>9, <1>10, <1>11, <1>12, <1>13, <1>14
  DEF EngineNext, TaskStep, Reply
-----------------------------------------------------------------------------
(* How many tasks can be in flight.                                        *)
LEMMA InFlightFinite ==
    /\ IsFiniteSet(InFlight)
    /\ Cardinality(InFlight) \in Nat
    /\ Cardinality(Tasks) \in Nat
    /\ Cardinality(InFlight) <= Cardinality(Tasks)
<1>1. InFlight \subseteq Tasks
  BY DEF InFlight
<1> QED
  BY <1>1, EngineAssumption, FS_Subset, FS_CardinalityType

(* The same of the next state.                                             *)
LEMMA InFlightFinitePrime ==
    /\ IsFiniteSet(InFlight')
    /\ Cardinality(InFlight') \in Nat
    /\ Cardinality(InFlight') <= Cardinality(Tasks)
<1>1. InFlight' \subseteq Tasks
  BY DEF InFlight
<1> QED
  BY <1>1, EngineAssumption, FS_Subset, FS_CardinalityType

(* A call that ends takes one from the number of those in flight.          *)
LEMMA InFlightLess ==
    ASSUME NEW t \in InFlight, InFlight' = InFlight \ {t}
    PROVE  Cardinality(InFlight') = Cardinality(InFlight) - 1
BY InFlightFinite, FS_RemoveElement

(* The overshoot of T4 is inductive by itself: a call begins only below    *)
(* the limit, where every other task may already be in flight.             *)
LEMMA DailyOvershootInductive ==
    ASSUME EngineTypeOK, DailyOvershoot, [EngineNext]_vars
    PROVE  DailyOvershoot'
<1> USE InFlightFinite, InFlightFinitePrime DEF DailyOvershoot
<1>0. daily_order_count \in Nat /\ MaxDailyOrders \in Nat
  BY RiskAssumption DEF EngineTypeOK, RiskTypeOK
<1>1. CASE Quiet
  BY <1>1 DEF Quiet
<1>2. ASSUME NEW t \in Tasks, Begins(t)
      PROVE  DailyOvershoot'
  <2>1. PICK o \in Requests : SubmitCleared(t, o)
    BY <1>2 DEF Begins
  <2>2. daily_order_count < MaxDailyOrders
    BY <2>1 DEF SubmitCleared, AllPassed, T4
  <2>3. daily_order_count' = daily_order_count
    BY <2>1 DEF SubmitCleared, Check
  <2> QED
    BY <1>0, <2>2, <2>3
<1>3. ASSUME NEW t \in Tasks, Succeeds(t)
      PROVE  DailyOvershoot'
  <2>1. daily_order_count' = daily_order_count + 1
    BY <1>3 DEF Succeeds, PlaceReturns, RecordOrderPlaced
  <2>2. Cardinality(InFlight') = Cardinality(InFlight) - 1
    BY <1>3, InFlightLess DEF Succeeds
  <2> QED
    BY <1>0, <2>1, <2>2
<1>4. ASSUME NEW t \in Tasks, Fails(t)
      PROVE  DailyOvershoot'
  <2>1. Cardinality(InFlight') = Cardinality(InFlight) - 1
    BY <1>4, InFlightLess DEF Fails
  <2> QED
    BY <1>0, <1>4, <2>1 DEF Fails
<1> QED
  BY <1>1, <1>2, <1>3, <1>4, StepKinds

(* T4 read before an await and written after it overshoots the daily limit *)
(* by less than the number of tasks, whatever broker, retries and limits.  *)
THEOREM DailyOvershootHolds == EngineSpec => []DailyOvershoot
<1>1. EngineInit => DailyOvershoot
  <2> SUFFICES ASSUME EngineInit PROVE DailyOvershoot
    OBVIOUS
  <2>1. InFlight = {}
    BY DEF EngineInit, InFlight
  <2>2. Cardinality(InFlight) = 0
    BY <2>1, FS_EmptySet
  <2>3. Cardinality(Tasks) >= 1
    BY EngineAssumption, FS_EmptySet, FS_CardinalityType
  <2> QED
    BY <2>2, <2>3, InFlightFinite, RiskAssumption DEF DailyOvershoot, EngineInit, RiskInit
<1>2. EngineTypeOK /\ DailyOvershoot /\ [EngineNext]_vars => DailyOvershoot'
  BY DailyOvershootInductive
<1> QED
  BY <1>1, <1>2, EngineTypeCorrect, PTL DEF EngineSpec
-----------------------------------------------------------------------------
(* The orders of a window of time.                                         *)

(* The orders of a window are finitely many.                               *)
LEMMA WindowFinite ==
    ASSUME order_timestamps \in Seq(Nat), NEW w, NEW t
    PROVE  /\ IsFiniteSet(Window(w, t))
           /\ Cardinality(Window(w, t)) \in Nat
<1>1. IsFiniteSet(1..Len(order_timestamps))
  BY FS_Interval
<1>2. Window(w, t) \in SUBSET (1..Len(order_timestamps))
  BY DEF Window
<1> QED
  BY <1>1, <1>2, FS_Subset, FS_CardinalityType

(* Time only takes orders out of the window.                               *)
LEMMA RecentFades ==
    ASSUME order_timestamps \in Seq(Nat), NEW w \in Nat, NEW t \in Nat, NEW u \in Nat, t <= u
    PROVE  Cardinality(Window(w, u)) <= Cardinality(Window(w, t))
<1>1. Window(w, u) \in SUBSET Window(w, t)
  BY DEF Window
<1> QED
  BY <1>1, WindowFinite, FS_Subset

(* Recording an order puts at most that order into it.                     *)
LEMMA RecentGrows ==
    ASSUME order_timestamps \in Seq(Nat), now \in Nat, NEW w \in Nat,
           order_timestamps' = Append(order_timestamps, now), now' = now
    PROVE  Recent(w)' <= Recent(w) + 1
<1> DEFINE n == Len(order_timestamps) + 1
<1>1. Window(w, now)' \in SUBSET (Window(w, now) \cup {n})
  BY DEF Window
<1>2. n \notin Window(w, now)
  BY DEF Window
<1>3. /\ IsFiniteSet(Window(w, now) \cup {n})
      /\ Cardinality(Window(w, now) \cup {n}) = Cardinality(Window(w, now)) + 1
  BY <1>2, WindowFinite, FS_AddElement
<1>4. Cardinality(Window(w, now)') <= Cardinality(Window(w, now)) + 1
  BY <1>1, <1>3, FS_Subset
<1>5. Recent(w)' = Cardinality(Window(w, now)')
  BY DEF Recent
<1> QED
  BY <1>4, <1>5, WindowFinite DEF Recent

(* The bound for one window; RateOvershoot has two of them.                *)
WindowOvershoot(w, limit) ==
    Recent(w) + Cardinality(InFlight) <= limit + Cardinality(Tasks) - 1

(* The overshoot of one window of T5, of any length and limit.             *)
LEMMA WindowOvershootInductive ==
    ASSUME EngineTypeOK, [EngineNext]_vars,
           NEW w \in Nat, NEW limit \in Nat, WindowOvershoot(w, limit),
           \A t \in Tasks, o \in Requests : SubmitCleared(t, o) => Recent(w) < limit
    PROVE  WindowOvershoot(w, limit)'
<1> USE InFlightFinite, InFlightFinitePrime DEF WindowOvershoot
<1>0. /\ order_timestamps \in Seq(Nat) /\ now \in Nat
      /\ Recent(w) \in Nat
  BY WindowFinite DEF EngineTypeOK, RiskTypeOK, ClockTypeOK, Recent
<1>a. EngineTypeOK'
  BY TypeInductive
<1>b. Recent(w)' \in Nat
  <2>1. order_timestamps' \in Seq(Nat) /\ now' \in Nat
    BY <1>a DEF EngineTypeOK, RiskTypeOK, ClockTypeOK
  <2>2. IsFiniteSet(1..Len(order_timestamps'))
    BY <2>1, FS_Interval
  <2>3. Window(w, now)' \in SUBSET (1..Len(order_timestamps'))
    BY DEF Window
  <2>4. Recent(w)' = Cardinality(Window(w, now)')
    BY DEF Recent
  <2> QED
    BY <2>2, <2>3, <2>4, FS_Subset, FS_CardinalityType
<1>1. CASE Quiet
  <2>1. Recent(w)' = Cardinality(Window(w, now'))
    BY <1>1 DEF Quiet, Recent, Window
  <2>2. Cardinality(Window(w, now')) <= Recent(w)
    BY <1>0, <1>1, RecentFades DEF Quiet, Recent
  <2> QED
    BY <1>0, <1>1, <1>b, <2>1, <2>2 DEF Quiet
<1>2. ASSUME NEW t \in Tasks, Begins(t)
      PROVE  WindowOvershoot(w, limit)'
  <2>1. PICK o \in Requests : SubmitCleared(t, o)
    BY <1>2 DEF Begins
  <2>2. Recent(w) < limit
    BY <2>1
  <2>3. Recent(w)' = Recent(w)
    BY <2>1 DEF SubmitCleared, Check, Recent, Window
  <2> QED
    BY <1>0, <2>2, <2>3
<1>3. ASSUME NEW t \in Tasks, Succeeds(t)
      PROVE  WindowOvershoot(w, limit)'
  <2>1. Recent(w)' <= Recent(w) + 1
    BY <1>0, <1>3, RecentGrows DEF Succeeds, PlaceReturns, RecordOrderPlaced
  <2>2. Cardinality(InFlight') = Cardinality(InFlight) - 1
    BY <1>3, InFlightLess DEF Succeeds
  <2> QED
    BY <1>0, <1>b, <2>1, <2>2
<1>4. ASSUME NEW t \in Tasks, Fails(t)
      PROVE  WindowOvershoot(w, limit)'
  <2>1. Cardinality(InFlight') = Cardinality(InFlight) - 1
    BY <1>4, InFlightLess DEF Fails
  <2>2. Recent(w)' = Recent(w)
    BY <1>4 DEF Fails, Recent, Window
  <2> QED
    BY <1>0, <2>1, <2>2
<1> QED
  BY <1>1, <1>2, <1>3, <1>4, StepKinds

(* T5 read before an await and written after it overshoots the limits per  *)
(* second and per minute by less than the number of tasks.                 *)
THEOREM RateOvershootHolds == EngineSpec => []RateOvershoot
<1> USE RiskAssumption
<1>1. EngineInit => RateOvershoot
  <2> SUFFICES ASSUME EngineInit PROVE RateOvershoot
    OBVIOUS
  <2>1. InFlight = {}
    BY DEF EngineInit, InFlight
  <2>2. \A w \in Nat : Recent(w) = 0
    <3>1. order_timestamps = <<>> /\ order_timestamps \in Seq(Nat)
      BY DEF EngineInit, RiskInit
    <3>2. \A w \in Nat : Window(w, now) = {}
      BY <3>1 DEF Window
    <3> QED
      BY <3>1, <3>2, WindowFinite, FS_EmptySet DEF Recent
  <2>3. Cardinality({}) = 0
    BY FS_EmptySet
  <2>4. Cardinality(Tasks) >= 1
    BY EngineAssumption, FS_EmptySet, FS_CardinalityType
  <2>5. /\ MaxOrdersPerSecond \in Nat /\ MaxOrdersPerMinute \in Nat
        /\ OneSecond \in Nat /\ OneMinute \in Nat /\ Cardinality(Tasks) \in Nat
    BY EngineAssumption, FS_CardinalityType
  <2>6. /\ Recent(OneSecond) = 0 /\ Recent(OneMinute) = 0 /\ Cardinality(InFlight) = 0
    BY <2>1, <2>2, <2>3, <2>5
  <2> QED
    BY <2>4, <2>5, <2>6 DEF RateOvershoot
<1>2. EngineTypeOK /\ RateOvershoot /\ [EngineNext]_vars => RateOvershoot'
  <2> SUFFICES ASSUME EngineTypeOK, RateOvershoot, [EngineNext]_vars
               PROVE  RateOvershoot'
    OBVIOUS
  <2>1. \A t \in Tasks, o \in Requests : SubmitCleared(t, o) =>
            Recent(OneSecond) < MaxOrdersPerSecond /\ Recent(OneMinute) < MaxOrdersPerMinute
    BY DEF SubmitCleared, AllPassed, T5
  <2>2. WindowOvershoot(OneSecond, MaxOrdersPerSecond)'
    BY <2>1, WindowOvershootInductive DEF RateOvershoot, WindowOvershoot
  <2>3. WindowOvershoot(OneMinute, MaxOrdersPerMinute)'
    BY <2>1, WindowOvershootInductive DEF RateOvershoot, WindowOvershoot
  <2> QED
    BY <2>2, <2>3 DEF RateOvershoot, WindowOvershoot
<1> QED
  BY <1>1, <1>2, EngineTypeCorrect, PTL DEF EngineSpec
-----------------------------------------------------------------------------
(* The kill switch.  InFlightPredatesHalt is inductive once it is known    *)
(* that no order was submitted in the future.                              *)

HaltInv ==
    /\ \A t \in InFlight : call[t].submitted_at <= now
    /\ InFlightPredatesHalt

(* A call keeps what submit gave it.                                       *)
Kept(t) ==
    /\ call'[t].submitted_at = call[t].submitted_at
    /\ call'[t].order = call[t].order
    /\ call'[t].sub = call[t].sub

(* Only submit writes what a call was given; every other step keeps it.    *)
LEMMA CallKept ==
    ASSUME EngineTypeOK, [EngineNext]_vars, NEW t \in Tasks, t \in InFlight'
    PROVE  \/ t \in InFlight /\ Kept(t)
           \/ /\ \E o \in Requests : SubmitCleared(t, o)
              /\ call'[t].submitted_at = now
<1> USE DEF Kept, InFlight, EngineTypeOK, Calls
<1>1. ASSUME NEW u \in Tasks, SubmitBlocked(u)
      PROVE  call' = call
  BY <1>1 DEF SubmitBlocked
<1>2. ASSUME NEW u \in Tasks, NEW o \in Requests, SubmitRiskRejected(u, o)
      PROVE  call' = call
  BY <1>2 DEF SubmitRiskRejected
<1>3. ASSUME NEW u \in Tasks, NEW o \in Requests, SubmitCleared(u, o)
      PROVE  \/ t \in InFlight /\ Kept(t)
             \/ t = u /\ call'[t].submitted_at = now
  BY <1>3 DEF SubmitCleared
<1>4. ASSUME NEW u \in Tasks, Reply(u) \/ RetryWake(u) \/ RequestLeaves(u)
      PROVE  t \in InFlight /\ Kept(t)
  <2>1. CASE call' = [call EXCEPT ![u] = Idle]
    BY <2>1
  <2>2. CASE call' = [call EXCEPT ![u].pc = "sleeping"] /\ call[u].pc = "calling"
    BY <2>2
  <2>3. CASE call' = [call EXCEPT ![u].pc = "calling", ![u].attempt = @ + 1, ![u].id = 0]
             /\ call[u].pc = "sleeping"
    BY <2>3
  <2>4. CASE call' = [call EXCEPT ![u].id = Len(book) + 1] /\ call[u].pc = "calling"
    BY <2>4
  <2> QED
    BY <1>4, <2>1, <2>2, <2>3, <2>4
    DEF Reply, PlaceReturns, PlaceReturnsRejected, PlaceRaisesRetry, PlaceRaisesOut,
        RetryWake, RequestLeaves
<1>5. ASSUME NEW id \in 1..Len(book), OrderStep(id)
      PROVE  call' = call
  BY <1>5
  DEF OrderStep, CancelAccepted, CancelRefused, CancelRaises, RequestArrives, ExchangeFills,
      CancelFrame
<1>6. CASE Authenticate \/ Operator \/ TimePasses \/ UNCHANGED vars
  <2>1. call' = call
    BY <1>6 DEF Authenticate, Operator, TimePasses, EngineFrame, engineVars, vars
  <2> QED
    BY <2>1
<1> QED
  BY <1>1, <1>2, <1>3, <1>4, <1>5, <1>6 DEF EngineNext, TaskStep

(* What a step may do to the switch and the clock: time passes over a      *)
(* switch that stays, or the switch moves and, if it halts, holds the      *)
(* present time.                                                           *)
LEMMA SwitchKept ==
    ASSUME EngineTypeOK, [EngineNext]_vars
    PROVE  \/ ks' = ks /\ now' \in Nat /\ now' >= now
           \/ /\ now' = now
              /\ \/ ks'.level \notin {"PAUSE", "KILL"}
                 \/ ks'.activation_time = now
                 \/ ks' = ks
<1> USE DEF EngineTypeOK, ClockTypeOK
<1>1. ASSUME NEW t \in Tasks, TaskStep(t)
      PROVE  ks' = ks /\ now' = now
  BY <1>1
  DEF TaskStep, SubmitBlocked, SubmitRiskRejected, SubmitCleared, Reply, PlaceReturns,
      PlaceReturnsRejected, PlaceRaisesRetry, PlaceRaisesOut, RetryWake, RequestLeaves
<1>2. ASSUME NEW id \in 1..Len(book), OrderStep(id)
      PROVE  ks' = ks /\ now' = now
  BY <1>2
  DEF OrderStep, CancelAccepted, CancelRefused, CancelRaises, RequestArrives, ExchangeFills,
      CancelFrame
<1>3. CASE Operator
  <2>1. ASSUME NEW l \in Levels, OperatorActivates(l)
        PROVE  ks' = ks \/ ks'.activation_time = now
    BY <2>1 DEF OperatorActivates, Activated
  <2>2. ASSUME OperatorDeactivates
        PROVE  ks' = ks \/ ks'.level = "INACTIVE"
    BY <2>2 DEF OperatorDeactivates, Deactivated
  <2> QED
    BY <1>3, <2>1, <2>2 DEF Operator
<1>4. CASE Authenticate \/ TimePasses \/ UNCHANGED vars
  BY <1>4 DEF Authenticate, TimePasses, Tick, vars
<1> QED
  BY <1>1, <1>2, <1>3, <1>4 DEF EngineNext

(* The strengthening is inductive: submissions lie in the past, and what   *)
(* is in flight under a halt was submitted no later than it.               *)
LEMMA HaltInvInductive ==
    ASSUME EngineTypeOK, HaltInv, [EngineNext]_vars
    PROVE  HaltInv'
<1> SUFFICES ASSUME NEW t \in Tasks, t \in InFlight'
             PROVE  /\ call'[t].submitted_at <= now'
                    /\ ks'.level \in {"PAUSE", "KILL"} =>
                           call'[t].submitted_at <= ks'.activation_time
  BY DEF HaltInv, InFlightPredatesHalt, InFlight
<1>0. now \in Nat
  BY DEF EngineTypeOK, ClockTypeOK
<1>1. CASE /\ \E o \in Requests : SubmitCleared(t, o)
           /\ call'[t].submitted_at = now
  <2>1. ks' = ks /\ now' = now /\ CheckOrderAllowed(ks.level)
    BY <1>1 DEF SubmitCleared
  <2> QED
    BY <1>0, <1>1, <2>1 DEF CheckOrderAllowed
<1>2. CASE t \in InFlight /\ call'[t].submitted_at = call[t].submitted_at
  <2>1. call[t].submitted_at \in Nat
    BY <1>2 DEF EngineTypeOK, Calls, InFlight
  <2>2. /\ call[t].submitted_at <= now
        /\ ks.level \in {"PAUSE", "KILL"} => call[t].submitted_at <= ks.activation_time
    BY <1>2 DEF HaltInv, InFlightPredatesHalt
  <2> QED
    BY <1>0, <1>2, <2>1, <2>2, SwitchKept
<1> QED
  BY <1>1, <1>2, CallKept DEF Kept

(* Whatever is still on its way to the broker while the kill switch stops  *)
(* orders was submitted before the switch was thrown.                      *)
THEOREM InFlightPredatesHaltHolds == EngineSpec => []InFlightPredatesHalt
<1>1. EngineInit => HaltInv
  BY DEF EngineInit, HaltInv, InFlightPredatesHalt, InFlight
<1>2. EngineTypeOK /\ HaltInv /\ [EngineNext]_vars => HaltInv'
  BY HaltInvInductive
<1>3. HaltInv => InFlightPredatesHalt
  BY DEF HaltInv
<1> QED
  BY <1>1, <1>2, <1>3, EngineTypeCorrect, PTL DEF EngineSpec
-----------------------------------------------------------------------------
(* The exposure.  What the orders on their way would add is a sum over the *)
(* tasks in flight; each of its terms passed T3.                           *)

ExposureInv ==
    /\ ExposureOvershoot
    /\ \A t \in InFlight : T3(call[t].order)

(* The value of an order is a number, and what it adds is that or nothing. *)
LEMMA AddsNat ==
    \A o \in Requests : /\ OrderValue(o) \in Int /\ Adds(o) \in Nat
                        /\ Adds(o) >= OrderValue(o) /\ Adds(o) \in {0, OrderValue(o)}
<1> SUFFICES ASSUME NEW o \in Requests
             PROVE  /\ OrderValue(o) \in Int /\ Adds(o) \in Nat
                    /\ Adds(o) >= OrderValue(o) /\ Adds(o) \in {0, OrderValue(o)}
  OBVIOUS
<1>1. o.quantity \in Int /\ o.price \in Int
  BY EngineAssumption
<1>2. OrderValue(o) \in Int
  BY <1>1 DEF OrderValue
<1> QED
  BY <1>2 DEF Adds

(* The terms of the sum, now and after the step.                           *)
LEMMA PendingType ==
    ASSUME EngineTypeOK
    PROVE  /\ DOMAIN Pending = InFlight
           /\ \A t \in InFlight : /\ call[t].order \in Requests
                                  /\ Pending[t] = Adds(call[t].order)
                                  /\ Pending[t] \in Nat
<1>1. \A t \in InFlight : call[t].order \in Requests
  BY InFlightCall DEF InFlight, Calls
<1> QED
  BY <1>1, AddsNat DEF Pending

(* After a step Pending gives every order in flight its value.             *)
LEMMA PendingTypePrime ==
    ASSUME EngineTypeOK'
    PROVE  /\ DOMAIN Pending' = InFlight'
           /\ \A t \in InFlight' : /\ call'[t].order \in Requests
                                   /\ Pending'[t] = Adds(call'[t].order)
                                   /\ Pending'[t] \in Nat
<1>1. \A t \in InFlight' : call'[t].order \in Requests
  BY DEF EngineTypeOK, InFlight, Calls
<1> QED
  BY <1>1, AddsNat DEF Pending, Adds, OrderValue

(* A call that begins brings its order to the sum.                         *)
LEMMA PendingGrows ==
    ASSUME EngineTypeOK, EngineTypeOK', NEW t \in Tasks, t \notin InFlight,
           InFlight' = InFlight \cup {t},
           \A u \in InFlight : call'[u].order = call[u].order
    PROVE  SumFunction(Pending') = SumFunction(Pending) + Adds(call'[t].order)
<1>1. \A u \in InFlight : Pending'[u] = Pending[u]
  BY PendingType, PendingTypePrime
<1> QED
  BY <1>1, PendingType, PendingTypePrime, InFlightFinite, SumMore

(* A call that ends takes its order from it.                               *)
LEMMA PendingShrinks ==
    ASSUME EngineTypeOK, EngineTypeOK', NEW t \in InFlight, InFlight' = InFlight \ {t},
           \A u \in InFlight' : call'[u].order = call[u].order
    PROVE  /\ SumFunction(Pending) = SumFunction(Pending') + Adds(call[t].order)
           /\ SumFunction(Pending') \in Int
<1>1. \A u \in InFlight' : Pending'[u] = Pending[u]
  BY PendingType, PendingTypePrime
<1>2. DOMAIN Pending = DOMAIN Pending' \cup {t} /\ t \notin DOMAIN Pending'
  BY PendingType, PendingTypePrime
<1>3. /\ \A u \in DOMAIN Pending' : Pending'[u] \in Int /\ Pending[u] = Pending'[u]
      /\ Pending[t] \in Int /\ IsFiniteSet(DOMAIN Pending')
  BY <1>1, PendingType, PendingTypePrime, InFlightFinitePrime
<1>4. Pending[t] = Adds(call[t].order)
  BY PendingType
<1> QED
  BY <1>2, <1>3, <1>4, SumMore

(* What passed T3 adds no more than its limit.                             *)
LEMMA PendingWithin ==
    ASSUME EngineTypeOK, \A t \in InFlight : T3(call[t].order)
    PROVE  \A t \in InFlight : Pending[t] <= MaxOrderValue
<1> SUFFICES ASSUME NEW t \in InFlight
             PROVE  Adds(call[t].order) <= MaxOrderValue
  BY PendingType
<1>1. call[t].order \in Requests /\ OrderValue(call[t].order) <= MaxOrderValue
  BY PendingType DEF T3
<1> QED
  BY <1>1, AddsNat, RiskAssumption

(* What all tasks but one may add, kept from the prover as a product.       *)
OthersMost == (Cardinality(Tasks) - 1) * MaxOrderValue

(* A limit no smaller than T8's, and room beyond it for the other tasks.   *)
Room(limit, extra) ==
    limit \in Int /\ extra \in Int /\ MaxTotalExposure <= limit /\ OthersMost <= extra

WithinRoom(limit, extra) == current_exposure + SumFunction(Pending) <= limit + extra

(* A call begins within T3 and T8, where every other task may have an      *)
(* order on its way that passed T3; no step passes a limit that is at      *)
(* least T8's by more than these may add.                                  *)
LEMMA ExposureStep ==
    ASSUME EngineTypeOK, [EngineNext]_vars, \A t \in InFlight : T3(call[t].order),
           NEW limit, NEW extra, Room(limit, extra), WithinRoom(limit, extra)
    PROVE  /\ current_exposure' + SumFunction(Pending') <= limit + extra
           /\ \A t \in InFlight' : T3(call'[t].order)
<1> DEFINE P == SumFunction(Pending)
           Q == SumFunction(Pending')
<1>0. /\ current_exposure \in Int /\ MaxTotalExposure \in Nat /\ MaxOrderValue \in Nat
      /\ P \in Int /\ P <= Cardinality(InFlight) * MaxOrderValue
      /\ limit \in Int /\ extra \in Int /\ current_exposure + P <= limit + extra
      /\ EngineTypeOK'
  <2>1. \A t \in InFlight : Pending[t] \in Int /\ Pending[t] <= MaxOrderValue
    BY PendingType, PendingWithin
  <2>2. P \in Int /\ P <= Cardinality(InFlight) * MaxOrderValue
    BY <2>1, PendingType, InFlightFinite, RiskAssumption, SumBounded
  <2> QED
    BY <2>2, TypeInductive, RiskAssumption DEF EngineTypeOK, RiskTypeOK, Room, WithinRoom
<1> HIDE DEF P, Q
<1> SUFFICES /\ current_exposure' + Q <= limit + extra
             /\ \A t \in InFlight' : T3(call'[t].order)
  BY DEF Q
<1>a. \A t \in InFlight' :
         \/ t \in InFlight /\ call'[t].order = call[t].order
         \/ \E o \in Requests : SubmitCleared(t, o)
  <2>1. \A t \in InFlight' : t \in Tasks
    BY DEF InFlight
  <2> QED
    BY <2>1, CallKept DEF Kept
<1>b. \A t \in Tasks, o \in Requests :
         SubmitCleared(t, o) => /\ call'[t].order = o /\ T3(o)
                                /\ current_exposure' = current_exposure
                                /\ current_exposure + OrderValue(o) <= MaxTotalExposure
  BY DEF SubmitCleared, Check, AllPassed, T8, EngineTypeOK
<1>c. \A t \in InFlight' : T3(call'[t].order)
  <2> SUFFICES ASSUME NEW t \in InFlight'
               PROVE  T3(call'[t].order)
    OBVIOUS
  <2>1. t \in Tasks
    BY DEF InFlight
  <2> QED
    BY <1>a, <1>b, <2>1
<1>1. CASE Quiet
  <2>1. InFlight' = InFlight /\ current_exposure' = current_exposure
    BY <1>1 DEF Quiet
  <2>2. \A t \in InFlight : call'[t].order = call[t].order
    BY <1>a, <2>1 DEF SubmitCleared, CanSubmit, InFlight
  <2>3. Pending' = Pending
    BY <2>1, <2>2 DEF Pending, Adds, OrderValue
  <2> QED
    BY <1>0, <1>c, <2>1, <2>3 DEF P, Q
<1>2. ASSUME NEW t \in Tasks, Begins(t)
      PROVE  current_exposure' + Q <= limit + extra
  <2>1. PICK o \in Requests : SubmitCleared(t, o)
    BY <1>2 DEF Begins
  <2>2. \A u \in InFlight : call'[u].order = call[u].order
    BY <1>2, <2>1 DEF SubmitCleared, InFlight, EngineTypeOK, Begins
  <2>3. Q = P + Adds(o)
    BY <1>0, <1>2, <1>b, <2>1, <2>2, PendingGrows DEF Begins, P, Q
  <2>4. P <= extra
    <3>1. Cardinality(InFlight) <= Cardinality(Tasks) - 1
      <4>1. Cardinality(InFlight \cup {t}) = Cardinality(InFlight) + 1
        BY <1>2, InFlightFinite, FS_AddElement DEF Begins
      <4>2. InFlight \cup {t} \subseteq Tasks
        BY DEF InFlight
      <4>3. Cardinality(InFlight \cup {t}) <= Cardinality(Tasks)
        BY <4>2, EngineAssumption, FS_Subset
      <4> QED
        BY <4>1, <4>3, InFlightFinite
    <3>2. \A a, b, m \in Nat : a <= b => a * m <= b * m
      OBVIOUS
    <3>3. Cardinality(Tasks) - 1 \in Nat
      BY <3>1, InFlightFinite
    <3>4. Cardinality(InFlight) * MaxOrderValue <= OthersMost
      BY <1>0, <3>1, <3>2, <3>3, InFlightFinite DEF OthersMost
    <3>5. Cardinality(InFlight) * MaxOrderValue \in Int /\ OthersMost \in Int
      BY <1>0, <3>3, InFlightFinite DEF OthersMost
    <3> QED
      BY <1>0, <3>4, <3>5 DEF Room
  <2>5. /\ current_exposure' = current_exposure
        /\ current_exposure + OrderValue(o) <= MaxTotalExposure
    BY <1>b, <2>1
  <2>6. Adds(o) = 0 \/ Adds(o) = OrderValue(o)
    BY AddsNat
  <2>7. OrderValue(o) \in Int
    BY AddsNat
  <2>8. MaxTotalExposure <= limit
    BY DEF Room
  <2> QED
    BY <1>0, <2>3, <2>4, <2>5, <2>6, <2>7, <2>8
<1>3. ASSUME NEW t \in Tasks, Succeeds(t) \/ Fails(t)
      PROVE  current_exposure' + Q <= limit + extra
  <2>1. t \in InFlight /\ InFlight' = InFlight \ {t}
    BY <1>3 DEF Succeeds, Fails
  <2>2. \A u \in InFlight' : call'[u].order = call[u].order
    BY <1>a, <2>1 DEF SubmitCleared, CanSubmit, InFlight
  <2>3. P = Q + Adds(call[t].order) /\ Q \in Int
    BY <1>0, <2>1, <2>2, PendingShrinks DEF P, Q
  <2>4. /\ Adds(call[t].order) \in Nat /\ OrderValue(call[t].order) \in Int
        /\ Adds(call[t].order) >= OrderValue(call[t].order)
    BY <2>1, PendingType, AddsNat
  <2>5. current_exposure' <= current_exposure + Adds(call[t].order)
    BY <1>0, <1>3, <2>4 DEF Succeeds, PlaceReturns, RecordOrderPlaced, Fails
  <2>6. current_exposure' \in Int
    BY <1>0 DEF EngineTypeOK, RiskTypeOK
  <2>7. /\ current_exposure \in Int /\ P \in Int /\ limit \in Int /\ extra \in Int
        /\ current_exposure + P <= limit + extra
    BY <1>0
  <2>8. current_exposure + (Q + Adds(call[t].order)) <= limit + extra
    BY <2>3, <2>7
  <2>9. \A a, b, c, d, l, x \in Int : b <= a + c /\ a + (d + c) <= l + x => b + d <= l + x
    OBVIOUS
  <2>10. Adds(call[t].order) \in Int
    BY <2>4
  <2> QED
    BY <2>3, <2>5, <2>6, <2>7, <2>8, <2>9, <2>10
<1> QED
  BY <1>c, <1>1, <1>2, <1>3, StepKinds

(* The bound on T8's overshoot is inductive with T3 of what is in flight.  *)
LEMMA ExposureInductive ==
    ASSUME EngineTypeOK, ExposureInv, [EngineNext]_vars
    PROVE  ExposureInv'
<1>1. OthersMost \in Int /\ MaxTotalExposure \in Int
  BY InFlightFinite, RiskAssumption DEF OthersMost
<1>2. Room(MaxTotalExposure, OthersMost)
  BY <1>1 DEF Room
<1>3. WithinRoom(MaxTotalExposure, OthersMost)
  BY DEF ExposureInv, ExposureOvershoot, OthersMost, WithinRoom
<1>4. /\ current_exposure' + SumFunction(Pending') <= MaxTotalExposure + OthersMost
      /\ \A t \in InFlight' : T3(call'[t].order)
  BY <1>2, <1>3, ExposureStep DEF ExposureInv
<1> QED
  BY <1>4 DEF ExposureInv, ExposureOvershoot, OthersMost, T3, OrderValue

(* T8 read before an await and written after it overshoots the exposure    *)
(* limit by at most the largest order T3 lets through for each other task, *)
(* the orders on their way counted in.                                     *)
THEOREM ExposureOvershootHolds == EngineSpec => []ExposureOvershoot
<1>1. EngineInit => ExposureInv
  <2> SUFFICES ASSUME EngineInit PROVE ExposureInv
    OBVIOUS
  <2>1. InFlight = {}
    BY DEF EngineInit, InFlight
  <2>2. SumFunction(Pending) = 0
    BY <2>1, SumEmpty DEF SumFunction, Pending
  <2>3. (Cardinality(Tasks) - 1) * MaxOrderValue >= 0
    <3>1. Cardinality(Tasks) - 1 \in Nat
      BY InFlightFinite, EngineAssumption, FS_EmptySet
    <3>2. \A a, b \in Nat : a * b >= 0
      OBVIOUS
    <3> QED
      BY <3>1, <3>2, RiskAssumption
  <2>4. current_exposure = 0 /\ MaxTotalExposure \in Nat
    BY RiskAssumption DEF EngineInit, RiskInit
  <2>5. (Cardinality(Tasks) - 1) * MaxOrderValue \in Int
    BY InFlightFinite, RiskAssumption
  <2> QED
    BY <2>1, <2>2, <2>3, <2>4, <2>5 DEF ExposureInv, ExposureOvershoot
<1>2. EngineTypeOK /\ ExposureInv /\ [EngineNext]_vars => ExposureInv'
  BY ExposureInductive
<1>3. ExposureInv => ExposureOvershoot
  BY DEF ExposureInv
<1> QED
  BY <1>1, <1>2, <1>3, EngineTypeCorrect, PTL DEF EngineSpec
-----------------------------------------------------------------------------
(* The adapter as shipped: at most one order is on its way at any time, so *)
(* the limits hold exactly.                                                *)

OneAtATime ==
    /\ \A t, u \in InFlight : t = u
    /\ \A t \in InFlight : daily_order_count < MaxDailyOrders
    /\ daily_order_count <= MaxDailyOrders

(* The blocking adapter without retries: at most one call is in flight,    *)
(* and while it is, the day has room for it.                               *)
LEMMA OneAtATimeInductive ==
    ASSUME BlockingSDK, MaxRetries = 0, EngineTypeOK, OneAtATime, [EngineNext]_vars
    PROVE  OneAtATime'
<1> USE DEF OneAtATime
<1>0. daily_order_count \in Nat /\ MaxDailyOrders \in Nat
  BY RiskAssumption DEF EngineTypeOK, RiskTypeOK
<1>1. CASE Quiet
  BY <1>1 DEF Quiet
<1>2. ASSUME NEW t \in Tasks, Begins(t)
      PROVE  OneAtATime'
  <2>1. PICK o \in Requests : SubmitCleared(t, o)
    BY <1>2 DEF Begins
  <2>2. LoopFree /\ daily_order_count < MaxDailyOrders /\ daily_order_count' = daily_order_count
    BY <2>1 DEF SubmitCleared, CanSubmit, AllPassed, T4, Check
  <2>3. ASSUME NEW u \in InFlight PROVE FALSE
    <3>1. call[u] \in Calls /\ call[u].pc # "calling"
      BY <2>2, InFlightCall DEF InFlight, LoopFree
    <3>2. call[u].pc = "sleeping" /\ call[u].attempt < MaxRetries
      BY <3>1 DEF EngineTypeOK, Calls, InFlight
    <3> QED
      BY <3>1, <3>2 DEF Calls
  <2>4. InFlight' = {t}
    BY <1>2, <2>3 DEF Begins
  <2> QED
    BY <1>0, <2>2, <2>4
<1>3. ASSUME NEW t \in Tasks, Succeeds(t)
      PROVE  OneAtATime'
  <2>1. daily_order_count' = daily_order_count + 1 /\ daily_order_count < MaxDailyOrders
    BY <1>3 DEF Succeeds, PlaceReturns, RecordOrderPlaced
  <2>2. InFlight' = {}
    BY <1>3 DEF Succeeds
  <2> QED
    BY <1>0, <2>1, <2>2
<1>4. ASSUME NEW t \in Tasks, Fails(t)
      PROVE  OneAtATime'
  BY <1>4 DEF Fails
<1> QED
  BY <1>1, <1>2, <1>3, <1>4, StepKinds

(* With the blocking adapter and no retries the daily limit is never       *)
(* passed.                                                                 *)
THEOREM DailyLimitExact ==
    ASSUME BlockingSDK, MaxRetries = 0
    PROVE  EngineSpec => [](daily_order_count <= MaxDailyOrders)
<1>1. EngineInit => OneAtATime
  BY RiskAssumption DEF EngineInit, RiskInit, OneAtATime, InFlight
<1>2. EngineTypeOK /\ OneAtATime /\ [EngineNext]_vars => OneAtATime'
  BY OneAtATimeInductive
<1>3. OneAtATime => daily_order_count <= MaxDailyOrders
  BY DEF OneAtATime
<1> QED
  BY <1>1, <1>2, <1>3, EngineTypeCorrect, PTL DEF EngineSpec
-----------------------------------------------------------------------------
(* The trail, the counters and the results.                                *)

PlacedEvents == {"ORDER_PLACED", "ORDER_CONFIRMED"}

(* How many calls of submit ended with a status, kept from the prover as    *)
(* an application.                                                         *)
Ended(s) == outcomes[s]

Counts ==
    /\ Recorded({"RISK_CHECK_PASSED"}) =
           Ended("BROKER_SUBMITTED") + Ended("BROKER_REJECTED")
               + Ended("RAISED") + Cardinality(InFlight)
    /\ Recorded({"ORDER_REJECTED"}) =
           Ended("KILL_SWITCH_BLOCKED") + Ended("BROKER_REJECTED")
    /\ Recorded({"RISK_CHECK_FAILED"}) = Ended("RISK_REJECTED")
    /\ Ended("RISK_REJECTED") = order_rejections
    /\ Recorded(PlacedEvents) = Ended("BROKER_SUBMITTED")
    /\ daily_order_count = Ended("BROKER_SUBMITTED")
    /\ daily_order_count = Len(order_timestamps)

(* Each order number is in one place: in one entry of the trail, if the    *)
(* exchange has the order, or with one call in flight.                     *)
Named ==
    /\ \A i, j \in EntriesOf(PlacedEvents) :
           /\ audit[i].order_id \in 1..Len(book)
           /\ book[audit[i].order_id].status # "SENT"
           /\ audit[i].order_id = audit[j].order_id => i = j
    /\ \A t \in InFlight :
           /\ call[t].id <= Len(book)
           /\ call[t].id # 0 =>
                  /\ \A i \in EntriesOf(PlacedEvents) : audit[i].order_id # call[t].id
                  /\ \A u \in InFlight : call[u].id = call[t].id => u = t

(* The entries of any kind are finitely many.                              *)
LEMMA RecordedFinite ==
    ASSUME audit \in Seq(AuditEntry), NEW E
    PROVE  /\ EntriesOf(E) \subseteq 1..Len(audit)
           /\ IsFiniteSet(EntriesOf(E))
           /\ Recorded(E) \in Nat
<1>1. EntriesOf(E) \subseteq 1..Len(audit)
  BY DEF EntriesOf
<1>2. IsFiniteSet(1..Len(audit))
  BY FS_Interval
<1> QED
  BY <1>1, <1>2, FS_Subset, FS_CardinalityType DEF Recorded

(* AuditTrail.record adds one entry to those of its kind and leaves all    *)
(* others as they are.                                                     *)
LEMMA RecordAdds ==
    ASSUME audit \in Seq(AuditEntry), NEW e \in EventTypes, NEW id \in Nat, Record(e, id),
           NEW E
    PROVE  /\ EntriesOf(E)' = IF e \in E THEN EntriesOf(E) \cup {Len(audit) + 1}
                                         ELSE EntriesOf(E)
           /\ Recorded(E)' = IF e \in E THEN Recorded(E) + 1 ELSE Recorded(E)
           /\ \A i \in 1..Len(audit) : audit'[i] = audit[i]
           /\ audit'[Len(audit) + 1] = [event |-> e, order_id |-> id]
<1>1. /\ \A i \in 1..Len(audit) : audit'[i] = audit[i]
      /\ audit'[Len(audit) + 1] = [event |-> e, order_id |-> id]
      /\ Len(audit') = Len(audit) + 1
  BY DEF Record
<1>2. audit'[Len(audit) + 1].event = e
  BY <1>1
<1>3. EntriesOf(E)' = IF e \in E THEN EntriesOf(E) \cup {Len(audit) + 1} ELSE EntriesOf(E)
  BY <1>1, <1>2 DEF EntriesOf
<1>4. Len(audit) + 1 \notin EntriesOf(E)
  BY DEF EntriesOf
<1>5. Cardinality(EntriesOf(E) \cup {Len(audit) + 1}) = Recorded(E) + 1
  BY <1>4, RecordedFinite, FS_AddElement DEF Recorded
<1>6. Recorded(E)' = Cardinality(EntriesOf(E)')
  BY DEF Recorded
<1> QED
  BY <1>1, <1>3, <1>5, <1>6 DEF Recorded

(* What one entry does to the counts that are compared.                    *)
LEMMA RecordCounts ==
    ASSUME audit \in Seq(AuditEntry), NEW e \in EventTypes, NEW id \in Nat, Record(e, id)
    PROVE  /\ Recorded({"RISK_CHECK_PASSED"})' =
                  IF e = "RISK_CHECK_PASSED" THEN Recorded({"RISK_CHECK_PASSED"}) + 1
                                             ELSE Recorded({"RISK_CHECK_PASSED"})
           /\ Recorded({"ORDER_REJECTED"})' =
                  IF e = "ORDER_REJECTED" THEN Recorded({"ORDER_REJECTED"}) + 1
                                          ELSE Recorded({"ORDER_REJECTED"})
           /\ Recorded({"RISK_CHECK_FAILED"})' =
                  IF e = "RISK_CHECK_FAILED" THEN Recorded({"RISK_CHECK_FAILED"}) + 1
                                             ELSE Recorded({"RISK_CHECK_FAILED"})
           /\ Recorded(PlacedEvents)' =
                  IF e \in PlacedEvents THEN Recorded(PlacedEvents) + 1
                                        ELSE Recorded(PlacedEvents)
BY RecordAdds

(* One result more of one kind.                                            *)
LEMMA TallyCounts ==
    ASSUME outcomes \in [Statuses -> Nat], NEW s \in Statuses, Tally(s)
    PROVE  \A r \in Statuses : Ended(r)' = IF r = s THEN Ended(r) + 1 ELSE Ended(r)
BY DEF Tally, Ended

(* A call that begins adds one to the number of those in flight.           *)
LEMMA InFlightMore ==
    ASSUME NEW t, t \notin InFlight, InFlight' = InFlight \cup {t}
    PROVE  Cardinality(InFlight') = Cardinality(InFlight) + 1
BY InFlightFinite, FS_AddElement

(* Every step adds as much to one side of each equation as to the other.   *)
LEMMA CountsInductive ==
    ASSUME EngineTypeOK, Counts, [EngineNext]_vars
    PROVE  Counts'
<1>0. /\ audit \in Seq(AuditEntry) /\ outcomes \in [Statuses -> Nat]
      /\ daily_order_count \in Nat /\ order_rejections \in Nat
      /\ order_timestamps \in Seq(Nat)
  BY DEF EngineTypeOK, RiskTypeOK
<1>a. \A E : Recorded(E) \in Nat
  BY <1>0, RecordedFinite
<1>b. Statuses = {"BROKER_SUBMITTED", "KILL_SWITCH_BLOCKED", "RISK_REJECTED",
                  "BROKER_REJECTED", "RAISED"}
  BY DEF Statuses
<1>c. /\ "ORDER_REJECTED" \in EventTypes /\ "RISK_CHECK_FAILED" \in EventTypes
      /\ "RISK_CHECK_PASSED" \in EventTypes /\ "ORDER_CANCELLED" \in EventTypes
      /\ PlacedEvents \subseteq EventTypes
      /\ PlacedEvents \cap {"ORDER_REJECTED", "RISK_CHECK_FAILED", "RISK_CHECK_PASSED",
                            "ORDER_CANCELLED"} = {}
  BY DEF EventTypes, PlacedEvents
<1>e. /\ Ended("BROKER_SUBMITTED") \in Nat /\ Ended("KILL_SWITCH_BLOCKED") \in Nat
      /\ Ended("RISK_REJECTED") \in Nat /\ Ended("BROKER_REJECTED") \in Nat
      /\ Ended("RAISED") \in Nat
      /\ Cardinality(InFlight) \in Nat
  BY <1>0, <1>b, InFlightFinite DEF Ended
<1> USE DEF Counts
<1>1. ASSUME NEW t \in Tasks, SubmitBlocked(t)
      PROVE  Counts'
  <2>1. Cardinality(InFlight)' = Cardinality(InFlight)
    BY <1>1 DEF SubmitBlocked, InFlight
  <2>2. /\ Ended("KILL_SWITCH_BLOCKED")' = Ended("KILL_SWITCH_BLOCKED") + 1
        /\ Ended("BROKER_SUBMITTED")' = Ended("BROKER_SUBMITTED")
        /\ Ended("RISK_REJECTED")' = Ended("RISK_REJECTED")
        /\ Ended("BROKER_REJECTED")' = Ended("BROKER_REJECTED")
        /\ Ended("RAISED")' = Ended("RAISED")
    BY <1>0, <1>1, <1>b, TallyCounts DEF SubmitBlocked
  <2>3. /\ Recorded({"ORDER_REJECTED"})' = Recorded({"ORDER_REJECTED"}) + 1
        /\ Recorded({"RISK_CHECK_PASSED"})' = Recorded({"RISK_CHECK_PASSED"})
        /\ Recorded({"RISK_CHECK_FAILED"})' = Recorded({"RISK_CHECK_FAILED"})
        /\ Recorded(PlacedEvents)' = Recorded(PlacedEvents)
    BY <1>0, <1>1, <1>c, RecordCounts DEF SubmitBlocked
  <2> QED
    BY SMTT(20), <1>0, <1>a, <1>e, <1>1, <1>b, <2>1, <2>2, <2>3 DEF SubmitBlocked, riskVars
<1>2. ASSUME NEW t \in Tasks, NEW o \in Requests, SubmitRiskRejected(t, o)
      PROVE  Counts'
  <2>1. Cardinality(InFlight)' = Cardinality(InFlight)
    BY <1>2 DEF SubmitRiskRejected, InFlight
  <2>2. Record("RISK_CHECK_FAILED", 0) /\ order_rejections' = order_rejections + 1
    BY <1>2 DEF SubmitRiskRejected, Check
  <2>3. /\ Ended("RISK_REJECTED")' = Ended("RISK_REJECTED") + 1
        /\ Ended("BROKER_SUBMITTED")' = Ended("BROKER_SUBMITTED")
        /\ Ended("KILL_SWITCH_BLOCKED")' = Ended("KILL_SWITCH_BLOCKED")
        /\ Ended("BROKER_REJECTED")' = Ended("BROKER_REJECTED")
        /\ Ended("RAISED")' = Ended("RAISED")
    BY <1>0, <1>2, <1>b, TallyCounts DEF SubmitRiskRejected
  <2>4. /\ Recorded({"RISK_CHECK_FAILED"})' = Recorded({"RISK_CHECK_FAILED"}) + 1
        /\ Recorded({"RISK_CHECK_PASSED"})' = Recorded({"RISK_CHECK_PASSED"})
        /\ Recorded({"ORDER_REJECTED"})' = Recorded({"ORDER_REJECTED"})
        /\ Recorded(PlacedEvents)' = Recorded(PlacedEvents)
    BY <1>0, <1>c, <2>2, RecordCounts
  <2> QED
    BY <1>0, <1>a, <1>e, <1>2, <1>b, <2>1, <2>2, <2>3, <2>4 DEF SubmitRiskRejected, Check
<1>3. ASSUME NEW t \in Tasks, NEW o \in Requests, SubmitCleared(t, o)
      PROVE  Counts'
  <2>1. Cardinality(InFlight') = Cardinality(InFlight) + 1
    <3>1. t \notin InFlight /\ InFlight' = InFlight \cup {t}
      BY <1>3 DEF SubmitCleared, CanSubmit, InFlight, EngineTypeOK
    <3> QED
      BY <3>1, InFlightMore
  <2>2. Record("RISK_CHECK_PASSED", 0) /\ order_rejections' = order_rejections
    BY <1>3 DEF SubmitCleared, Check
  <2>3. /\ Recorded({"RISK_CHECK_PASSED"})' = Recorded({"RISK_CHECK_PASSED"}) + 1
        /\ Recorded({"RISK_CHECK_FAILED"})' = Recorded({"RISK_CHECK_FAILED"})
        /\ Recorded({"ORDER_REJECTED"})' = Recorded({"ORDER_REJECTED"})
        /\ Recorded(PlacedEvents)' = Recorded(PlacedEvents)
    BY <1>0, <1>c, <2>2, RecordCounts
  <2>4. /\ \A s : Ended(s)' = Ended(s)
        /\ UNCHANGED <<daily_order_count, order_rejections, order_timestamps>>
    BY <1>3, <2>2 DEF SubmitCleared, Check, Ended
  <2> QED
    BY <1>e, <2>1, <2>3, <2>4
<1>4. ASSUME NEW t \in Tasks, PlaceReturns(t)
      PROVE  Counts'
  <2>1. Cardinality(InFlight') = Cardinality(InFlight) - 1
    <3>1. t \in InFlight /\ InFlight' = InFlight \ {t}
      BY <1>4 DEF PlaceReturns, InFlight, EngineTypeOK
    <3> QED
      BY <3>1, InFlightLess
  <2>2. PICK e \in PlacedEvents : Record(e, call[t].id)
    BY <1>4 DEF PlaceReturns, PlacedEvents
  <2>3. call[t].id \in Nat
    BY <1>4, InFlightCall DEF PlaceReturns, Calls
  <2>4. Len(order_timestamps') = Len(order_timestamps) + 1
    BY <1>0, <1>4 DEF PlaceReturns, RecordOrderPlaced
  <2>5. /\ Ended("BROKER_SUBMITTED")' = Ended("BROKER_SUBMITTED") + 1
        /\ Ended("KILL_SWITCH_BLOCKED")' = Ended("KILL_SWITCH_BLOCKED")
        /\ Ended("RISK_REJECTED")' = Ended("RISK_REJECTED")
        /\ Ended("BROKER_REJECTED")' = Ended("BROKER_REJECTED")
        /\ Ended("RAISED")' = Ended("RAISED")
    BY <1>0, <1>4, <1>b, TallyCounts DEF PlaceReturns
  <2>6. /\ Recorded(PlacedEvents)' = Recorded(PlacedEvents) + 1
        /\ Recorded({"RISK_CHECK_PASSED"})' = Recorded({"RISK_CHECK_PASSED"})
        /\ Recorded({"RISK_CHECK_FAILED"})' = Recorded({"RISK_CHECK_FAILED"})
        /\ Recorded({"ORDER_REJECTED"})' = Recorded({"ORDER_REJECTED"})
    BY <1>0, <1>c, <2>2, <2>3, RecordCounts
  <2>7. daily_order_count' = daily_order_count + 1 /\ order_rejections' = order_rejections
    BY <1>4 DEF PlaceReturns, RecordOrderPlaced
  <2>8. Recorded({"RISK_CHECK_PASSED"})' =
           Ended("BROKER_SUBMITTED")' + Ended("BROKER_REJECTED")'
               + Ended("RAISED")' + Cardinality(InFlight')
    BY SMTT(20), <1>a, <1>e, <2>1, <2>5, <2>6
  <2>9. Recorded({"ORDER_REJECTED"})' =
           Ended("KILL_SWITCH_BLOCKED")' + Ended("BROKER_REJECTED")'
    BY <1>a, <1>e, <2>5, <2>6
  <2>10. Recorded(PlacedEvents)' = Ended("BROKER_SUBMITTED")'
    BY <1>a, <1>e, <2>5, <2>6
  <2>11. daily_order_count' = Ended("BROKER_SUBMITTED")'
    BY <1>a, <1>e, <2>5, <2>7
  <2>12. daily_order_count' = Len(order_timestamps')
    BY <2>4, <2>7
  <2> QED
    BY <2>5, <2>6, <2>7, <2>8, <2>9, <2>10, <2>11, <2>12
<1>5. ASSUME NEW t \in Tasks, PlaceReturnsRejected(t)
      PROVE  Counts'
  <2>1. Cardinality(InFlight') = Cardinality(InFlight) - 1
    <3>1. t \in InFlight /\ InFlight' = InFlight \ {t}
      BY <1>5 DEF PlaceReturnsRejected, InFlight, EngineTypeOK
    <3> QED
      BY <3>1, InFlightLess
  <2>2. /\ Ended("BROKER_REJECTED")' = Ended("BROKER_REJECTED") + 1
        /\ Ended("BROKER_SUBMITTED")' = Ended("BROKER_SUBMITTED")
        /\ Ended("KILL_SWITCH_BLOCKED")' = Ended("KILL_SWITCH_BLOCKED")
        /\ Ended("RISK_REJECTED")' = Ended("RISK_REJECTED")
        /\ Ended("RAISED")' = Ended("RAISED")
    BY <1>0, <1>5, <1>b, TallyCounts DEF PlaceReturnsRejected
  <2>3. /\ Recorded({"ORDER_REJECTED"})' = Recorded({"ORDER_REJECTED"}) + 1
        /\ Recorded({"RISK_CHECK_PASSED"})' = Recorded({"RISK_CHECK_PASSED"})
        /\ Recorded({"RISK_CHECK_FAILED"})' = Recorded({"RISK_CHECK_FAILED"})
        /\ Recorded(PlacedEvents)' = Recorded(PlacedEvents)
    BY <1>0, <1>5, <1>c, RecordCounts DEF PlaceReturnsRejected
  <2>4. UNCHANGED <<daily_order_count, order_rejections, order_timestamps>>
    BY <1>5 DEF PlaceReturnsRejected, riskVars
  <2>5. Recorded({"RISK_CHECK_PASSED"})' =
           Ended("BROKER_SUBMITTED")' + Ended("BROKER_REJECTED")'
               + Ended("RAISED")' + Cardinality(InFlight')
    BY <1>e, <2>1, <2>2, <2>3
  <2>6. Recorded({"ORDER_REJECTED"})' =
           Ended("KILL_SWITCH_BLOCKED")' + Ended("BROKER_REJECTED")'
    BY <1>e, <2>2, <2>3
  <2> QED
    BY <2>2, <2>3, <2>4, <2>5, <2>6
<1>6. ASSUME NEW t \in Tasks, PlaceRaisesOut(t)
      PROVE  Counts'
  <2>1. Cardinality(InFlight') = Cardinality(InFlight) - 1
    <3>1. t \in InFlight /\ InFlight' = InFlight \ {t}
      BY <1>6 DEF PlaceRaisesOut, InFlight, EngineTypeOK
    <3> QED
      BY <3>1, InFlightLess
  <2>2. \A E : Recorded(E)' = Recorded(E)
    BY <1>6 DEF PlaceRaisesOut, Recorded, EntriesOf
  <2>3. /\ Ended("RAISED")' = Ended("RAISED") + 1
        /\ Ended("BROKER_SUBMITTED")' = Ended("BROKER_SUBMITTED")
        /\ Ended("KILL_SWITCH_BLOCKED")' = Ended("KILL_SWITCH_BLOCKED")
        /\ Ended("RISK_REJECTED")' = Ended("RISK_REJECTED")
        /\ Ended("BROKER_REJECTED")' = Ended("BROKER_REJECTED")
    BY <1>0, <1>6, <1>b, TallyCounts DEF PlaceRaisesOut
  <2>4. UNCHANGED <<daily_order_count, order_rejections, order_timestamps>>
    BY <1>6 DEF PlaceRaisesOut, riskVars
  <2> QED
    BY <1>e, <2>1, <2>2, <2>3, <2>4
<1>7. ASSUME NEW t \in Tasks, PlaceRaisesRetry(t) \/ RetryWake(t) \/ RequestLeaves(t)
      PROVE  Counts'
  <2>1. InFlight' = InFlight
    <3>1. call[t] \in Calls
      BY <1>7, InFlightCall DEF PlaceRaisesRetry, RetryWake, RequestLeaves
    <3>2. CASE call' = [call EXCEPT ![t].pc = "sleeping"]
      BY <1>7, <3>1, <3>2
      DEF PlaceRaisesRetry, RetryWake, RequestLeaves, Calls, InFlight, EngineTypeOK
    <3>3. CASE call' = [call EXCEPT ![t].pc = "calling", ![t].attempt = @ + 1, ![t].id = 0]
      BY <1>7, <3>1, <3>3
      DEF PlaceRaisesRetry, RetryWake, RequestLeaves, Calls, InFlight, EngineTypeOK
    <3>4. CASE call' = [call EXCEPT ![t].id = Len(book) + 1]
      BY <1>7, <3>1, <3>4
      DEF PlaceRaisesRetry, RetryWake, RequestLeaves, Calls, InFlight, EngineTypeOK
    <3> QED
      BY <1>7, <3>2, <3>3, <3>4 DEF PlaceRaisesRetry, RetryWake, RequestLeaves
  <2>2. \A E : Recorded(E)' = Recorded(E)
    BY <1>7 DEF PlaceRaisesRetry, RetryWake, RequestLeaves, Recorded, EntriesOf
  <2> QED
    BY <1>7, <2>1, <2>2 DEF PlaceRaisesRetry, RetryWake, RequestLeaves, riskVars, Ended
<1>8. ASSUME NEW id \in 1..Len(book), OrderStep(id)
      PROVE  Counts'
  <2>1. UNCHANGED <<riskVars, call, outcomes>>
    BY <1>8
    DEF OrderStep, CancelAccepted, CancelRefused, CancelRaises, RequestArrives, ExchangeFills,
        CancelFrame
  <2>2. Cardinality(InFlight)' = Cardinality(InFlight)
    BY <2>1 DEF InFlight
  <2>3. CASE Record("ORDER_CANCELLED", id)
    <3>1. id \in Nat
      BY DEF EngineTypeOK
    <3>2. /\ Recorded({"RISK_CHECK_PASSED"})' = Recorded({"RISK_CHECK_PASSED"})
          /\ Recorded({"RISK_CHECK_FAILED"})' = Recorded({"RISK_CHECK_FAILED"})
          /\ Recorded({"ORDER_REJECTED"})' = Recorded({"ORDER_REJECTED"})
          /\ Recorded(PlacedEvents)' = Recorded(PlacedEvents)
      BY <1>0, <1>c, <2>3, <3>1, RecordCounts
    <3> QED
      BY <2>1, <2>2, <3>2 DEF riskVars, Ended
  <2>4. CASE UNCHANGED audit
    <3>1. \A E : Recorded(E)' = Recorded(E)
      BY <2>4 DEF Recorded, EntriesOf
    <3> QED
      BY <2>1, <2>2, <3>1 DEF riskVars, Ended
  <2> QED
    BY <1>8, <2>3, <2>4
    DEF OrderStep, CancelAccepted, CancelRefused, CancelRaises, RequestArrives, ExchangeFills
<1>9. CASE Authenticate \/ Operator \/ TimePasses \/ UNCHANGED vars
  <2>1. /\ UNCHANGED <<audit, call, outcomes>>
        /\ UNCHANGED <<daily_order_count, order_rejections, order_timestamps>>
    BY <1>9
    DEF Authenticate, Operator, RegisterSymbol, TimePasses, EngineFrame, engineVars, vars, riskVars
  <2>2. \A E : Recorded(E)' = Recorded(E)
    BY <2>1 DEF Recorded, EntriesOf
  <2>3. Cardinality(InFlight)' = Cardinality(InFlight)
    BY <2>1 DEF InFlight
  <2> QED
    BY <2>1, <2>2, <2>3 DEF Ended
<1> QED
  BY <1>1, <1>2, <1>3, <1>4, <1>5, <1>6, <1>7, <1>8, <1>9 DEF EngineNext, TaskStep, Reply

(* An order that the exchange has is never again one that it has not.      *)
StaysArrived ==
    /\ Len(book') = Len(book)
    /\ \A id \in 1..Len(book) : book[id].status # "SENT" => book'[id].status # "SENT"

(* A step that names no order leaves every order number where it was.      *)
LEMMA NamedKept ==
    ASSUME EngineTypeOK, Named, StaysArrived,
           EntriesOf(PlacedEvents)' = EntriesOf(PlacedEvents),
           \A i \in EntriesOf(PlacedEvents) : audit'[i].order_id = audit[i].order_id,
           \A t \in InFlight' :
               call'[t].id = 0 \/ (t \in InFlight /\ call'[t].id = call[t].id)
    PROVE  Named'
<1>1. Len(book) \in Nat
  BY DEF EngineTypeOK
<1>2. \A i, j \in EntriesOf(PlacedEvents)' :
         /\ audit'[i].order_id \in 1..Len(book')
         /\ book'[audit'[i].order_id].status # "SENT"
         /\ audit'[i].order_id = audit'[j].order_id => i = j
  BY DEF Named, StaysArrived
<1>3. ASSUME NEW t \in InFlight'
      PROVE  /\ call'[t].id <= Len(book')
             /\ call'[t].id # 0 =>
                    /\ \A i \in EntriesOf(PlacedEvents)' : audit'[i].order_id # call'[t].id
                    /\ \A u \in InFlight' : call'[u].id = call'[t].id => u = t
  BY <1>1 DEF Named, StaysArrived
<1> QED
  BY <1>2, <1>3 DEF Named

(* An entry of another kind names no order.                                *)
LEMMA OtherEntries ==
    ASSUME audit \in Seq(AuditEntry), NEW e \in EventTypes \ PlacedEvents, NEW id \in Nat,
           Record(e, id)
    PROVE  /\ EntriesOf(PlacedEvents)' = EntriesOf(PlacedEvents)
           /\ \A i \in EntriesOf(PlacedEvents) : audit'[i].order_id = audit[i].order_id
<1>1. /\ EntriesOf(PlacedEvents)' = EntriesOf(PlacedEvents)
      /\ \A i \in 1..Len(audit) : audit'[i] = audit[i]
  BY RecordAdds
<1> QED
  BY <1>1, RecordedFinite

(* Every step keeps each order number in one place.                        *)
LEMMA NamedInductive ==
    ASSUME EngineTypeOK, Named, [EngineNext]_vars
    PROVE  Named'
<1>0. audit \in Seq(AuditEntry) /\ Len(book) \in Nat /\ book \in Seq(Orders)
  BY DEF EngineTypeOK
<1>a. {"ORDER_REJECTED", "RISK_CHECK_FAILED", "RISK_CHECK_PASSED", "ORDER_CANCELLED"}
          \subseteq EventTypes \ PlacedEvents
  BY DEF EventTypes, PlacedEvents
<1>b. UNCHANGED audit =>
         /\ EntriesOf(PlacedEvents)' = EntriesOf(PlacedEvents)
         /\ \A i \in EntriesOf(PlacedEvents) : audit'[i].order_id = audit[i].order_id
  BY DEF EntriesOf
<1>c. UNCHANGED call =>
         \A t \in InFlight' : t \in InFlight /\ call'[t].id = call[t].id
  BY DEF InFlight
<1>d. UNCHANGED book => StaysArrived
  BY DEF StaysArrived
<1>1. ASSUME NEW t \in Tasks, SubmitBlocked(t)
      PROVE  Named'
  BY <1>0, <1>a, <1>c, <1>d, <1>1, OtherEntries, NamedKept DEF SubmitBlocked
<1>2. ASSUME NEW t \in Tasks, NEW o \in Requests, SubmitRiskRejected(t, o)
      PROVE  Named'
  BY <1>0, <1>a, <1>c, <1>d, <1>2, OtherEntries, NamedKept DEF SubmitRiskRejected, Check
<1>3. ASSUME NEW t \in Tasks, NEW o \in Requests, SubmitCleared(t, o)
      PROVE  Named'
  <2>1. \A u \in InFlight' :
           call'[u].id = 0 \/ (u \in InFlight /\ call'[u].id = call[u].id)
    BY <1>3 DEF SubmitCleared, InFlight, EngineTypeOK
  <2>2. Record("RISK_CHECK_PASSED", 0) /\ StaysArrived
    BY <1>3, <1>d DEF SubmitCleared, Check
  <2> QED
    BY <1>0, <1>a, <2>1, <2>2, OtherEntries, NamedKept
<1>4. ASSUME NEW t \in Tasks, PlaceReturns(t)
      PROVE  Named'
  <2> DEFINE n == Len(audit) + 1
  <2>1. t \in InFlight /\ InFlight' = InFlight \ {t}
    BY <1>4 DEF PlaceReturns, InFlight, EngineTypeOK
  <2>2. \A u \in InFlight' : call'[u] = call[u]
    BY <1>4 DEF PlaceReturns, InFlight, EngineTypeOK
  <2>3. PICK e \in PlacedEvents : Record(e, call[t].id)
    BY <1>4 DEF PlaceReturns, PlacedEvents
  <2>4. /\ call[t].id \in 1..Len(book) /\ call[t].id # 0 /\ book' = book
        /\ book[call[t].id].status # "SENT"
    BY <1>0, <1>4, <2>1, InFlightCall DEF PlaceReturns, Calls, Named
  <2>5. /\ EntriesOf(PlacedEvents)' = EntriesOf(PlacedEvents) \cup {n}
        /\ \A i \in 1..Len(audit) : audit'[i] = audit[i]
        /\ audit'[n].order_id = call[t].id
    <3>1. e \in EventTypes
      BY <2>3 DEF EventTypes, PlacedEvents
    <3>2. call[t].id \in Nat
      BY <1>0, <2>4
    <3>3. /\ EntriesOf(PlacedEvents)' = EntriesOf(PlacedEvents) \cup {n}
          /\ \A i \in 1..Len(audit) : audit'[i] = audit[i]
          /\ audit'[n] = [event |-> e, order_id |-> call[t].id]
      BY <1>0, <2>3, <3>1, <3>2, RecordAdds
    <3> QED
      BY <3>3
  <2>6. \A i \in EntriesOf(PlacedEvents) : i # n /\ audit'[i].order_id = audit[i].order_id
    BY <1>0, <2>5, RecordedFinite
  <2>7. \A i, j \in EntriesOf(PlacedEvents)' :
           /\ audit'[i].order_id \in 1..Len(book')
           /\ book'[audit'[i].order_id].status # "SENT"
           /\ audit'[i].order_id = audit'[j].order_id => i = j
    BY <2>1, <2>4, <2>5, <2>6 DEF Named
  <2>8. ASSUME NEW u \in InFlight'
        PROVE  /\ call'[u].id <= Len(book')
               /\ call'[u].id # 0 =>
                      /\ \A i \in EntriesOf(PlacedEvents)' : audit'[i].order_id # call'[u].id
                      /\ \A v \in InFlight' : call'[v].id = call'[u].id => v = u
    BY <2>1, <2>2, <2>4, <2>5, <2>6 DEF Named
  <2> QED
    BY <2>7, <2>8 DEF Named
<1>5. ASSUME NEW t \in Tasks, PlaceReturnsRejected(t)
      PROVE  Named'
  <2>1. \A u \in InFlight' : u \in InFlight /\ call'[u].id = call[u].id
    BY <1>5 DEF PlaceReturnsRejected, InFlight, EngineTypeOK, Idle
  <2> QED
    BY <1>0, <1>a, <1>d, <1>5, <2>1, OtherEntries, NamedKept DEF PlaceReturnsRejected
<1>6. ASSUME NEW t \in Tasks, PlaceRaisesOut(t) \/ PlaceRaisesRetry(t) \/ RetryWake(t)
      PROVE  Named'
  <2>1. \A u \in InFlight' :
           call'[u].id = 0 \/ (u \in InFlight /\ call'[u].id = call[u].id)
    <3>1. call[t] \in Calls
      BY <1>6, InFlightCall DEF PlaceRaisesOut, PlaceRaisesRetry, RetryWake
    <3> QED
      BY SMTT(20), <1>6, <3>1
      DEF PlaceRaisesOut, PlaceRaisesRetry, RetryWake, InFlight, EngineTypeOK, Calls, Idle
  <2> QED
    BY <1>b, <1>d, <1>6, <2>1, NamedKept DEF PlaceRaisesOut, PlaceRaisesRetry, RetryWake
<1>7. ASSUME NEW t \in Tasks, RequestLeaves(t)
      PROVE  Named'
  <2>1. /\ t \in InFlight /\ InFlight' = InFlight
        /\ call'[t].id = Len(book) + 1
        /\ \A u \in InFlight : u # t => call'[u].id = call[u].id
    <3>1. call[t] \in Calls
      BY <1>7, InFlightCall DEF RequestLeaves
    <3> QED
      BY <1>7, <3>1 DEF RequestLeaves, InFlight, EngineTypeOK, Calls
  <2>2. Len(book') = Len(book) + 1 /\ \A j \in 1..Len(book) : book'[j] = book[j]
    BY <1>0, <1>7 DEF RequestLeaves
  <2>3. /\ EntriesOf(PlacedEvents)' = EntriesOf(PlacedEvents)
        /\ \A i \in EntriesOf(PlacedEvents) : audit'[i].order_id = audit[i].order_id
    BY <1>b, <1>7 DEF RequestLeaves
  <2>4. \A u \in InFlight : call[u].id # Len(book) + 1
    BY <1>0 DEF Named
  <2>5. \A i, j \in EntriesOf(PlacedEvents)' :
           /\ audit'[i].order_id \in 1..Len(book')
           /\ book'[audit'[i].order_id].status # "SENT"
           /\ audit'[i].order_id = audit'[j].order_id => i = j
    BY <1>0, <2>2, <2>3 DEF Named
  <2>6. ASSUME NEW u \in InFlight'
        PROVE  /\ call'[u].id <= Len(book')
               /\ call'[u].id # 0 =>
                      /\ \A i \in EntriesOf(PlacedEvents)' : audit'[i].order_id # call'[u].id
                      /\ \A v \in InFlight' : call'[v].id = call'[u].id => v = u
    <3>1. CASE u = t
      BY <1>0, <2>1, <2>2, <2>3, <2>4, <3>1 DEF Named
    <3>2. CASE u # t
      <4>1. u \in InFlight /\ call'[u].id = call[u].id /\ call[u].id # Len(book) + 1
        BY <2>1, <2>4, <3>2
      <4>2. call[u].id <= Len(book) + 1
        <5>1. call[u] \in Calls
          BY <4>1 DEF InFlight, EngineTypeOK, Idle
        <5> QED
          BY <1>0, <4>1, <5>1 DEF Named, Calls
      <4> QED
        BY <2>1, <2>2, <2>3, <4>1, <4>2 DEF Named
    <3> QED
      BY <3>1, <3>2
  <2> QED
    BY <2>5, <2>6 DEF Named
<1>8. ASSUME NEW id \in 1..Len(book), OrderStep(id)
      PROVE  Named'
  <2>0. UNCHANGED call
    BY <1>8
    DEF OrderStep, CancelAccepted, CancelRefused, CancelRaises, RequestArrives, ExchangeFills,
        CancelFrame
  <2>1. StaysArrived
    <3>1. UNCHANGED book \/ \E s \in {"OPEN", "FILLED", "CANCELLED"} :
                                book' = [book EXCEPT ![id].status = s]
      BY <1>8
      DEF OrderStep, CancelAccepted, CancelRefused, CancelRaises, RequestArrives, ExchangeFills
    <3>2. ASSUME NEW s \in {"OPEN", "FILLED", "CANCELLED"}, book' = [book EXCEPT ![id].status = s]
          PROVE  StaysArrived
      <4>1. Len(book') = Len(book) /\ \A j \in 1..Len(book) : j # id => book'[j] = book[j]
        BY <1>0, <3>2
      <4>2. book'[id] = [book[id] EXCEPT !.status = s] /\ book[id] \in Orders
        BY <1>0, <3>2
      <4>3. book'[id].status = s
        BY <4>2 DEF Orders
      <4> QED
        BY <4>1, <4>3 DEF StaysArrived
    <3> QED
      BY <1>d, <3>1, <3>2
  <2>2. CASE Record("ORDER_CANCELLED", id)
    BY <1>0, <1>a, <1>c, <2>0, <2>1, <2>2, OtherEntries, NamedKept
  <2>3. CASE UNCHANGED audit
    BY <1>b, <1>c, <2>0, <2>1, <2>3, NamedKept
  <2> QED
    BY <1>8, <2>2, <2>3
    DEF OrderStep, CancelAccepted, CancelRefused, CancelRaises, RequestArrives, ExchangeFills
<1>9. CASE Authenticate \/ Operator \/ TimePasses \/ UNCHANGED vars
  <2>1. UNCHANGED <<audit, call, book>>
    BY <1>9
    DEF Authenticate, Operator, TimePasses, EngineFrame, engineVars, vars
  <2> QED
    BY <1>b, <1>c, <1>d, <2>1, NamedKept
<1> QED
  BY <1>1, <1>2, <1>3, <1>4, <1>5, <1>6, <1>7, <1>8, <1>9 DEF EngineNext, TaskStep, Reply

(* The counts and the names hold at the start.                             *)
LEMMA LedgerInit ==
    ASSUME EngineInit
    PROVE  Counts /\ Named
<1>1. audit = <<>> /\ InFlight = {} /\ book = <<>>
  BY DEF EngineInit, AuditInit, InFlight, Idle
<1>2. \A E : EntriesOf(E) = {}
  BY <1>1 DEF EntriesOf
<1>3. \A E : Recorded(E) = 0
  BY <1>2, FS_EmptySet DEF Recorded
<1>4. \A s \in Statuses : Ended(s) = 0
  BY DEF EngineInit, Ended
<1>5. order_rejections = 0 /\ daily_order_count = 0 /\ Len(order_timestamps) = 0
  BY DEF EngineInit, RiskInit
<1>6. Cardinality(InFlight) = 0
  BY <1>1, FS_EmptySet
<1>7. /\ Ended("BROKER_SUBMITTED") = 0 /\ Ended("KILL_SWITCH_BLOCKED") = 0
      /\ Ended("RISK_REJECTED") = 0 /\ Ended("BROKER_REJECTED") = 0 /\ Ended("RAISED") = 0
  BY <1>4 DEF Statuses
<1>8. Counts
  BY <1>3, <1>5, <1>6, <1>7 DEF Counts
<1>9. Named
  BY <1>1, <1>2 DEF Named
<1> QED
  BY <1>8, <1>9

(* AuditReconciles is the two of them.                                     *)
LEMMA LedgerReconciles ==
    ASSUME Counts, Named
    PROVE  AuditReconciles
BY DEF Counts, Named, Ended, PlacedEvents, AuditReconciles

(* The trail, the counters and the results of submit tell one story.       *)
THEOREM AuditReconcilesHolds == EngineSpec => []AuditReconciles
<1>1. EngineInit => Counts /\ Named
  BY LedgerInit
<1>2. EngineTypeOK /\ (Counts /\ Named) /\ [EngineNext]_vars => (Counts /\ Named)'
  BY CountsInductive, NamedInductive
<1>3. Counts /\ Named => AuditReconciles
  BY LedgerReconciles
<1> QED
  BY <1>1, <1>2, <1>3, EngineTypeCorrect, PTL DEF EngineSpec
-----------------------------------------------------------------------------
(* The orders nobody was told of.  Every order at the exchange was taken   *)
(* in some attempt of some call, so it is the attempts that are counted:   *)
(* those of the calls that ended, at most 1 + MaxRetries each, and those   *)
(* that the calls in flight have behind them.                              *)

Spent == [t \in InFlight |->
             IF call[t].pc = "sleeping" \/ call[t].id # 0 THEN call[t].attempt + 1
                                                          ELSE call[t].attempt]

EndedAtBroker == Ended("BROKER_SUBMITTED") + Ended("BROKER_REJECTED") + Ended("RAISED")

BookCounted == Len(book) <= (1 + MaxRetries) * EndedAtBroker + SumFunction(Spent)

(* A call has at most 1 + MaxRetries attempts behind it.                   *)
LEMMA SpentType ==
    ASSUME EngineTypeOK
    PROVE  /\ DOMAIN Spent = InFlight
           /\ \A t \in InFlight : Spent[t] \in Int /\ Spent[t] <= 1 + MaxRetries
<1> SUFFICES ASSUME NEW t \in InFlight
             PROVE  Spent[t] \in Int /\ Spent[t] <= 1 + MaxRetries
  BY DEF Spent
<1>1. call[t] \in Calls
  BY InFlightCall DEF InFlight
<1>2. call[t].attempt \in 0..MaxRetries /\ MaxRetries \in Nat
  BY <1>1, EngineAssumption DEF Calls
<1>3. Spent[t] \in {call[t].attempt, call[t].attempt + 1}
  BY DEF Spent
<1> QED
  BY <1>2, <1>3

(* After a step Spent gives every order in flight a number.                *)
LEMMA SpentTypePrime ==
    ASSUME EngineTypeOK'
    PROVE  /\ DOMAIN Spent' = InFlight'
           /\ \A t \in InFlight' : Spent'[t] \in Int
<1> SUFFICES ASSUME NEW t \in InFlight'
             PROVE  Spent'[t] \in Int
  BY DEF Spent
<1>1. call'[t] \in Calls
  BY DEF EngineTypeOK, InFlight
<1>2. call'[t].attempt \in Int
  BY <1>1, EngineAssumption DEF Calls
<1> QED
  BY <1>2 DEF Spent

(* The attempts spent by those in flight sum up to a number.               *)
LEMMA SpentSum ==
    ASSUME EngineTypeOK
    PROVE  SumFunction(Spent) \in Int
BY SpentType, InFlightFinite, SumInt DEF SumFunction

(* The tallies are numbers.                                                *)
LEMMA EndedType ==
    ASSUME EngineTypeOK
    PROVE  /\ Ended("BROKER_SUBMITTED") \in Nat /\ Ended("BROKER_REJECTED") \in Nat
           /\ Ended("RAISED") \in Nat /\ EndedAtBroker \in Nat
BY DEF EngineTypeOK, Ended, EndedAtBroker, Statuses

(* A step that leaves all of it alone.                                     *)
LEMMA BookCountedKept ==
    ASSUME BookCounted, Len(book') = Len(book), UNCHANGED <<call, outcomes>>
    PROVE  BookCounted'
<1>1. Spent' = Spent
  BY DEF Spent, InFlight
<1>2. EndedAtBroker' = EndedAtBroker
  BY DEF EndedAtBroker, Ended
<1>3. SumFunction(Spent)' = SumFunction(Spent)
  BY <1>1
<1> QED
  BY <1>2, <1>3 DEF BookCounted

(* An attempt goes on: the exchange takes its order, it raises, or it is   *)
(* made again.                                                             *)
LEMMA BookCountedAttempt ==
    ASSUME EngineTypeOK, EngineTypeOK', BookCounted, NEW t \in Tasks,
           RequestLeaves(t) \/ PlaceRaisesRetry(t) \/ RetryWake(t)
    PROVE  BookCounted'
<1>0. t \in InFlight /\ call[t] \in Calls /\ book \in Seq(Orders) /\ MaxRetries \in Nat
  BY EngineAssumption, InFlightCall
  DEF RequestLeaves, PlaceRaisesRetry, RetryWake, InFlight, EngineTypeOK
<1>1. call[t].attempt \in Nat
  BY <1>0 DEF Calls
<1>2. /\ InFlight' = InFlight /\ UNCHANGED outcomes
      /\ \A u \in InFlight \ {t} : call'[u] = call[u]
  <2>1. call'[t].pc # "idle"
    BY <1>0 DEF RequestLeaves, PlaceRaisesRetry, RetryWake, EngineTypeOK, Calls
  <2>2. \A u \in Tasks : u # t => call'[u] = call[u]
    BY DEF RequestLeaves, PlaceRaisesRetry, RetryWake, EngineTypeOK
  <2> QED
    BY <1>0, <2>1, <2>2 DEF RequestLeaves, PlaceRaisesRetry, RetryWake, InFlight
<1>3. SumFunction(Spent') = SumFunction(Spent) + Spent'[t] - Spent[t]
  <2>1. \A u \in InFlight \ {t} : Spent'[u] = Spent[u]
    BY <1>2 DEF Spent
  <2> QED
    BY <1>0, <1>2, <2>1, SpentType, SpentTypePrime, InFlightFinite, SumOther
<1>4. Len(book') - Len(book) <= Spent'[t] - Spent[t]
  <2>1. CASE RequestLeaves(t)
    <3>1. Len(book') = Len(book) + 1
      BY <1>0, <2>1 DEF RequestLeaves
    <3>2. /\ call'[t] = [call[t] EXCEPT !.id = Len(book) + 1]
          /\ call[t].pc = "calling" /\ call[t].id = 0
      BY <1>0, <2>1 DEF RequestLeaves, EngineTypeOK
    <3>3. call'[t].id # 0 /\ call'[t].attempt = call[t].attempt
      BY <1>0, <3>2 DEF Calls
    <3>4. Spent'[t] = call[t].attempt + 1 /\ Spent[t] = call[t].attempt
      BY <1>0, <1>2, <3>2, <3>3 DEF Spent
    <3> QED
      BY <1>0, <1>1, <3>1, <3>4
  <2>2. CASE PlaceRaisesRetry(t)
    <3>1. call'[t] = [call[t] EXCEPT !.pc = "sleeping"]
      BY <1>0, <2>2 DEF PlaceRaisesRetry, EngineTypeOK
    <3>2. call'[t].pc = "sleeping" /\ call'[t].attempt = call[t].attempt
      BY <1>0, <3>1 DEF Calls
    <3>3. Spent'[t] = call[t].attempt + 1
      BY <1>0, <1>2, <3>2 DEF Spent
    <3>4. Spent[t] \in {call[t].attempt, call[t].attempt + 1}
      BY <1>0 DEF Spent
    <3> QED
      BY <1>0, <1>1, <2>2, <3>3, <3>4 DEF PlaceRaisesRetry
  <2>3. CASE RetryWake(t)
    <3>1. /\ call'[t] = [call[t] EXCEPT !.pc = "calling", !.attempt = call[t].attempt + 1, !.id = 0]
          /\ call[t].pc = "sleeping"
      BY <1>0, <2>3 DEF RetryWake, EngineTypeOK
    <3>2. /\ call'[t].pc = "calling" /\ call'[t].id = 0
          /\ call'[t].attempt = call[t].attempt + 1
      BY <1>0, <3>1 DEF Calls
    <3>3. Spent'[t] = call[t].attempt + 1 /\ Spent[t] = call[t].attempt + 1
      BY <1>0, <1>2, <3>1, <3>2 DEF Spent
    <3> QED
      BY <1>0, <1>1, <2>3, <3>3 DEF RetryWake
  <2> QED
    BY <2>1, <2>2, <2>3
<1>5. EndedAtBroker' = EndedAtBroker
  BY <1>2 DEF EndedAtBroker, Ended
<1>6. Spent[t] \in Int /\ Spent'[t] \in Int /\ Len(book) \in Nat /\ Len(book') \in Nat
  BY <1>0, <1>2, SpentType, SpentTypePrime DEF EngineTypeOK
<1>7. (1 + MaxRetries) * EndedAtBroker \in Int
  BY <1>0, EndedType
<1>8. SumFunction(Spent)' = SumFunction(Spent')
  OBVIOUS
<1> QED
  BY <1>3, <1>4, <1>5, <1>6, <1>7, <1>8, SpentSum DEF BookCounted

(* A call ends: what it has behind it is at most what an ended call counts. *)
LEMMA BookCountedEnds ==
    ASSUME EngineTypeOK, EngineTypeOK', BookCounted, NEW t \in Tasks,
           PlaceReturns(t) \/ PlaceReturnsRejected(t) \/ PlaceRaisesOut(t)
    PROVE  BookCounted'
<1>0. /\ t \in InFlight /\ InFlight' = InFlight \ {t} /\ book' = book
      /\ \A u \in InFlight' : call'[u] = call[u]
      /\ MaxRetries \in Nat
  BY EngineAssumption
  DEF PlaceReturns, PlaceReturnsRejected, PlaceRaisesOut, InFlight, EngineTypeOK
<1>1. SumFunction(Spent) = SumFunction(Spent') + Spent[t] /\ SumFunction(Spent') \in Int
  <2>1. \A u \in InFlight' : Spent'[u] = Spent[u]
    BY <1>0 DEF Spent
  <2>2. DOMAIN Spent = DOMAIN Spent' \cup {t} /\ t \notin DOMAIN Spent'
    BY <1>0, SpentType, SpentTypePrime
  <2>3. /\ \A u \in DOMAIN Spent' : Spent'[u] \in Int /\ Spent[u] = Spent'[u]
        /\ Spent[t] \in Int /\ IsFiniteSet(DOMAIN Spent')
    BY <1>0, <2>1, SpentType, SpentTypePrime, InFlightFinitePrime
  <2> QED
    BY <2>2, <2>3, SumMore
<1>2. EndedAtBroker' = EndedAtBroker + 1
  <2>1. outcomes \in [Statuses -> Nat]
    BY DEF EngineTypeOK
  <2>2. PICK s \in {"BROKER_SUBMITTED", "BROKER_REJECTED", "RAISED"} : Tally(s)
    BY DEF PlaceReturns, PlaceReturnsRejected, PlaceRaisesOut
  <2>3. /\ s \in Statuses /\ "BROKER_SUBMITTED" \in Statuses /\ "BROKER_REJECTED" \in Statuses
        /\ "RAISED" \in Statuses
    BY <2>2 DEF Statuses
  <2>4. \A r \in Statuses : Ended(r)' = IF r = s THEN Ended(r) + 1 ELSE Ended(r)
    BY <2>1, <2>2, <2>3, TallyCounts
  <2> QED
    BY <2>2, <2>3, <2>4, EndedType DEF EndedAtBroker
<1>3. Spent[t] \in Int /\ Spent[t] <= 1 + MaxRetries
  BY <1>0, SpentType
<1>4. (1 + MaxRetries) * EndedAtBroker' = (1 + MaxRetries) * EndedAtBroker + (1 + MaxRetries)
  <2>1. \A a, b \in Nat : a * (b + 1) = a * b + a
    OBVIOUS
  <2> QED
    BY <1>0, <1>2, <2>1, EndedType
<1>5. Len(book) \in Nat /\ (1 + MaxRetries) * EndedAtBroker \in Int
  BY <1>0, EndedType DEF EngineTypeOK
<1>6. SumFunction(Spent)' = SumFunction(Spent')
  OBVIOUS
<1> QED
  BY <1>0, <1>1, <1>3, <1>4, <1>5, <1>6 DEF BookCounted

(* Of all steps only these touch what is counted.                          *)
LEMMA BookCountedInductive ==
    ASSUME EngineTypeOK, BookCounted, [EngineNext]_vars
    PROVE  BookCounted'
<1>0. EngineTypeOK' /\ book \in Seq(Orders)
  BY TypeInductive DEF EngineTypeOK
<1>1. ASSUME NEW t \in Tasks,
             SubmitBlocked(t) \/ \E o \in Requests : SubmitRiskRejected(t, o)
      PROVE  BookCounted'
  <2>1. PICK s \in {"KILL_SWITCH_BLOCKED", "RISK_REJECTED"} : Tally(s)
    BY <1>1 DEF SubmitBlocked, SubmitRiskRejected
  <2>2. UNCHANGED <<call, book>>
    BY <1>1 DEF SubmitBlocked, SubmitRiskRejected
  <2>3. EndedAtBroker' = EndedAtBroker
    <3>1. /\ s \in Statuses /\ "BROKER_SUBMITTED" \in Statuses /\ "BROKER_REJECTED" \in Statuses
          /\ "RAISED" \in Statuses
      BY <2>1 DEF Statuses
    <3>2. \A r \in Statuses : Ended(r)' = IF r = s THEN Ended(r) + 1 ELSE Ended(r)
      BY <2>1, <3>1, TallyCounts DEF EngineTypeOK
    <3> QED
      BY <2>1, <3>1, <3>2 DEF EndedAtBroker
  <2>4. Spent' = Spent
    BY <2>2 DEF Spent, InFlight
  <2>5. SumFunction(Spent)' = SumFunction(Spent)
    BY <2>4
  <2> QED
    BY <2>2, <2>3, <2>5 DEF BookCounted
<1>2. ASSUME NEW t \in Tasks, NEW o \in Requests, SubmitCleared(t, o)
      PROVE  BookCounted'
  <2>1. /\ InFlight' = InFlight \cup {t} /\ t \notin InFlight
        /\ \A u \in InFlight : call'[u] = call[u]
        /\ call'[t].pc = "calling" /\ call'[t].id = 0 /\ call'[t].attempt = 0
        /\ UNCHANGED <<outcomes, book>>
    BY <1>2 DEF SubmitCleared, CanSubmit, InFlight, EngineTypeOK
  <2>2. SumFunction(Spent') = SumFunction(Spent) + Spent'[t]
    <3>1. \A u \in InFlight : Spent'[u] = Spent[u]
      BY <2>1 DEF Spent
    <3> QED
      BY <1>0, <2>1, <3>1, SpentType, SpentTypePrime, InFlightFinite, SumMore
  <2>3. Spent'[t] = 0
    BY <2>1 DEF Spent
  <2>4. EndedAtBroker' = EndedAtBroker
    BY <2>1 DEF EndedAtBroker, Ended
  <2>5. SumFunction(Spent)' = SumFunction(Spent)
    BY <2>2, <2>3, SpentSum
  <2> QED
    BY <2>1, <2>4, <2>5 DEF BookCounted
<1>3. ASSUME NEW id \in 1..Len(book), OrderStep(id)
      PROVE  BookCounted'
  BY <1>0, <1>3, BookCountedKept
  DEF OrderStep, CancelAccepted, CancelRefused, CancelRaises, RequestArrives, ExchangeFills,
      CancelFrame
<1>4. CASE Authenticate \/ Operator \/ TimePasses \/ UNCHANGED vars
  BY <1>4, BookCountedKept DEF Authenticate, Operator, TimePasses, EngineFrame, engineVars, vars
<1> QED
  BY <1>0, <1>1, <1>2, <1>3, <1>4, BookCountedAttempt, BookCountedEnds
  DEF EngineNext, TaskStep, Reply

(* The orders in the trail are as many as its entries, so that the rest of *)
(* the book is what the trail does not know.                               *)
LEMMA LostCount ==
    ASSUME EngineTypeOK, Counts, Named
    PROVE  Cardinality({id \in 1..Len(book) :
                \A i \in EntriesOf(PlacedEvents) : audit[i].order_id # id})
               = Len(book) - Ended("BROKER_SUBMITTED")
<1> DEFINE E == EntriesOf(PlacedEvents)
           Known == {audit[i].order_id : i \in E}
           f == [i \in E |-> audit[i].order_id]
           Lost == {id \in 1..Len(book) : \A i \in E : audit[i].order_id # id}
<1>0. Len(book) \in Nat /\ audit \in Seq(AuditEntry)
  BY DEF EngineTypeOK
<1>1. IsFiniteSet(E) /\ Cardinality(E) = Ended("BROKER_SUBMITTED")
  BY <1>0, RecordedFinite DEF Counts, Recorded
<1>2. \A i, j \in E : /\ audit[i].order_id \in 1..Len(book)
                      /\ audit[i].order_id = audit[j].order_id => i = j
  BY DEF Named
<1>3. f \in Bijection(E, Known)
  BY <1>2 DEF Bijection, Injection, Surjection, IsInjective
<1>4. IsFiniteSet(Known) /\ Cardinality(Known) = Cardinality(E)
  BY <1>1, <1>3, FS_Bijection DEF ExistsBijection
<1>5. IsFiniteSet(1..Len(book)) /\ Cardinality(1..Len(book)) = Len(book)
  BY <1>0, FirstNumbers
<1>6. Known \subseteq 1..Len(book) /\ Lost = (1..Len(book)) \ Known
  BY <1>2
<1>7. /\ Cardinality((1..Len(book)) \ Known)
             = Cardinality(1..Len(book)) - Cardinality((1..Len(book)) \cap Known)
      /\ (1..Len(book)) \cap Known = Known
  BY <1>5, <1>6, FS_Difference
<1> QED
  BY <1>1, <1>4, <1>5, <1>6, <1>7

(* No order at the exchange goes unreported: those the trail does not name *)
(* are no more than the attempts of which the caller heard nothing good.   *)
THEOREM LostOrdersReportedHolds == EngineSpec => []LostOrdersReported
<1>1. EngineInit => Counts /\ Named /\ BookCounted
  <2> SUFFICES ASSUME EngineInit PROVE BookCounted
    BY LedgerInit
  <2>1. Len(book) = 0 /\ InFlight = {} /\ MaxRetries \in Nat
    BY EngineAssumption DEF EngineInit, InFlight
  <2>2. SumFunction(Spent) = 0
    BY <2>1, SumEmpty DEF SumFunction, Spent
  <2>3. EndedAtBroker = 0
    BY DEF EngineInit, EndedAtBroker, Ended, Statuses
  <2> QED
    BY <2>1, <2>2, <2>3 DEF BookCounted
<1>2. EngineTypeOK /\ (Counts /\ Named /\ BookCounted) /\ [EngineNext]_vars
          => (Counts /\ Named /\ BookCounted)'
  BY CountsInductive, NamedInductive, BookCountedInductive
<1>3. EngineTypeOK /\ Counts /\ Named /\ BookCounted => LostOrdersReported
  <2> SUFFICES ASSUME EngineTypeOK, Counts, Named, BookCounted
               PROVE  LostOrdersReported
    OBVIOUS
  <2> DEFINE M == 1 + MaxRetries
             B == Ended("BROKER_SUBMITTED")
             R == Ended("BROKER_REJECTED") + Ended("RAISED")
             F == Cardinality(InFlight)
  <2>1. M \in Nat /\ B \in Nat /\ R \in Nat /\ F \in Nat /\ Len(book) \in Nat
    BY EngineAssumption, EndedType, InFlightFinite DEF EngineTypeOK
  <2>2. SumFunction(Spent) \in Int /\ SumFunction(Spent) <= F * M
    BY <2>1, SpentType, InFlightFinite, SumBounded
  <2>3. Len(book) <= M * (B + R) + SumFunction(Spent)
    BY EndedType DEF BookCounted, EndedAtBroker
  <2>4. LostOrdersReported <=> Len(book) - B <= MaxRetries * B + M * (R + F)
    BY LostCount, EndedType DEF LostOrdersReported, PlacedEvents, Ended
  <2>5. MaxRetries * B = M * B - B
    BY <2>1, EngineAssumption
  <2> HIDE DEF M, B, R, F
  <2>6. \A m, b, r, g \in Nat : /\ m * (b + r) + g * m = m * b + m * (r + g)
                                /\ m * b \in Int /\ m * (r + g) \in Int
                                /\ m * (b + r) \in Int /\ g * m \in Int
    OBVIOUS
  <2>7. /\ M * (B + R) + F * M = M * B + M * (R + F)
        /\ M * B \in Int /\ M * (R + F) \in Int /\ M * (B + R) \in Int /\ F * M \in Int
    BY <2>1, <2>6
  <2>8. Len(book) - B <= MaxRetries * B + M * (R + F)
    BY <2>1, <2>2, <2>3, <2>5, <2>7
  <2> QED
    BY <2>4, <2>8
<1> QED
  BY <1>1, <1>2, <1>3, EngineTypeCorrect, PTL DEF EngineSpec
-----------------------------------------------------------------------------
(* How many orders one submission becomes.                                 *)
OrdersOf(b, s) == {j \in 1..Len(b) : b[j].sub = s}

Made(b, s) == Cardinality(OrdersOf(b, s))

(* What the attempts of a call that is under way may have made so far.     *)
MayHaveMade(c) ==
    IF BlockingSDK THEN IF c.pc = "calling" /\ c.id # 0 THEN 1 ELSE 0
    ELSE IF c.pc = "sleeping" \/ c.id # 0 THEN c.attempt + 1 ELSE c.attempt

Most == IF BlockingSDK THEN 1 ELSE 1 + MaxRetries

(* A call under way is the only one of its submission.                     *)
CallInv(t) ==
    /\ call[t].sub <= submissions
    /\ \A u \in InFlight : call[u].sub = call[t].sub => u = t
    /\ Made(book, call[t].sub) <= MayHaveMade(call[t])

(* Without a session nothing was ever booked; that is the one condition    *)
(* under which the blocking adapter makes the engine try again.            *)
AttemptsInv ==
    /\ ~connected => Len(book) = 0
    /\ \A j \in 1..Len(book) : book[j].sub <= submissions
    /\ \A t \in InFlight : CallInv(t)
    /\ \A s \in Nat : Made(book, s) <= Most

(* The orders of one submission are finitely many.                         *)
LEMMA MadeType ==
    ASSUME book \in Seq(Orders), NEW s
    PROVE  IsFiniteSet(OrdersOf(book, s)) /\ Made(book, s) \in Nat
<1>1. Len(book) \in Nat
  OBVIOUS
<1>2. IsFiniteSet(1..Len(book)) /\ OrdersOf(book, s) \subseteq 1..Len(book)
  BY <1>1, FS_Interval DEF OrdersOf
<1> QED
  BY <1>2, FS_Subset, FS_CardinalityType DEF Made

(* The orders at the exchange keep their submissions.                      *)
BookKept ==
    /\ Len(book') = Len(book)
    /\ \A j \in 1..Len(book) : book'[j].sub = book[j].sub

(* As long as the book is kept, every submission has as many orders as     *)
(* before.                                                                 *)
LEMMA MadeKept ==
    ASSUME BookKept
    PROVE  \A s : Made(book', s) = Made(book, s)
<1>1. ASSUME NEW s
      PROVE  Made(book', s) = Made(book, s)
  <2>1. OrdersOf(book', s) = OrdersOf(book, s)
    BY DEF BookKept, OrdersOf
  <2> QED
    BY <2>1 DEF Made
<1> QED
  BY <1>1

(* A step that books nothing and under which no call makes more.           *)
LEMMA AttemptsKept ==
    ASSUME EngineTypeOK, AttemptsInv, BookKept, submissions' \in {submissions, submissions + 1},
           connected => connected',
           \A t \in InFlight' :
               /\ t \in InFlight /\ call'[t].sub = call[t].sub
               /\ Made(book, call[t].sub) <= MayHaveMade(call'[t])
    PROVE  AttemptsInv'
<1>0. submissions \in Nat /\ \A j \in 1..Len(book) : book[j].sub \in Nat
  <2>1. \A j \in 1..Len(book) : book[j] \in Orders
    BY DEF EngineTypeOK
  <2> QED
    BY <2>1 DEF EngineTypeOK, Orders
<1>1. \A s : Made(book', s) = Made(book, s)
  BY MadeKept
<1>2. ~connected' => Len(book') = 0
  BY DEF AttemptsInv, BookKept
<1>3. \A j \in 1..Len(book') : book'[j].sub <= submissions'
  BY <1>0 DEF AttemptsInv, BookKept
<1>4. ASSUME NEW t \in InFlight'
      PROVE  CallInv(t)'
  <2>1. t \in InFlight /\ call'[t].sub = call[t].sub /\ CallInv(t) /\ call[t].sub \in Nat
    BY InFlightCall DEF AttemptsInv, InFlight, Calls
  <2>2. \A u \in InFlight' : call'[u].sub = call'[t].sub => u = t
    BY <2>1 DEF CallInv
  <2>3. call'[t].sub <= submissions'
    BY <1>0, <2>1 DEF CallInv
  <2>4. Made(book', call'[t].sub) <= MayHaveMade(call'[t])
    BY <1>1, <2>1
  <2> QED
    BY <2>2, <2>3, <2>4 DEF CallInv, MayHaveMade
<1>5. \A s \in Nat : Made(book', s) <= Most
  BY <1>1 DEF AttemptsInv
<1> QED
  BY <1>2, <1>3, <1>4, <1>5 DEF AttemptsInv, Most

(* A new submission has made nothing.                                      *)
LEMMA AttemptsBegin ==
    ASSUME EngineTypeOK, AttemptsInv, NEW t \in Tasks, NEW o \in Requests, SubmitCleared(t, o)
    PROVE  AttemptsInv'
<1>0. /\ submissions \in Nat /\ Len(book) \in Nat /\ book \in Seq(Orders)
      /\ \A j \in 1..Len(book) : book[j].sub \in Nat
  <2>1. \A j \in 1..Len(book) : book[j] \in Orders
    BY DEF EngineTypeOK
  <2> QED
    BY <2>1 DEF EngineTypeOK, Orders
<1>1. /\ InFlight' = InFlight \cup {t} /\ t \notin InFlight
      /\ \A u \in InFlight : call'[u] = call[u]
      /\ call'[t] = [pc |-> "calling", order |-> o, attempt |-> 0, submitted_at |-> now,
                     sub |-> submissions + 1, id |-> 0]
      /\ submissions' = submissions + 1 /\ UNCHANGED <<connected, book>>
  BY DEF SubmitCleared, CanSubmit, InFlight, EngineTypeOK
<1>2. \A s : Made(book', s) = Made(book, s)
  BY <1>1, MadeKept DEF BookKept
<1>3. Made(book, submissions + 1) = 0
  <2>1. OrdersOf(book, submissions + 1) = {}
    BY <1>0 DEF OrdersOf, AttemptsInv
  <2> QED
    BY <2>1, FS_EmptySet DEF Made
<1>4. \A u \in InFlight : call[u].sub \in Nat /\ call[u].sub <= submissions
  BY InFlightCall DEF AttemptsInv, CallInv, InFlight, Calls
<1>5. ASSUME NEW u \in InFlight'
      PROVE  CallInv(u)'
  <2>1. CASE u = t
    <3>1. Made(book', call'[u].sub) <= MayHaveMade(call'[u])
      BY <1>1, <1>2, <1>3, <2>1 DEF MayHaveMade
    <3>2. \A v \in InFlight' : call'[v].sub = call'[u].sub => v = u
      BY <1>0, <1>1, <1>4, <2>1
    <3>3. call'[u].sub <= submissions'
      BY <1>0, <1>1, <2>1
    <3> QED
      BY <3>1, <3>2, <3>3 DEF CallInv, MayHaveMade
  <2>2. CASE u # t
    <3>1. u \in InFlight /\ call'[u] = call[u] /\ CallInv(u)
      BY <1>1, <2>2 DEF AttemptsInv
    <3>2. \A v \in InFlight' : call'[v].sub = call'[u].sub => v = u
      BY <1>0, <1>1, <1>4, <3>1 DEF CallInv
    <3>3. call'[u].sub <= submissions'
      BY <1>0, <1>1, <1>4, <3>1
    <3>4. Made(book', call'[u].sub) <= MayHaveMade(call'[u])
      BY <1>2, <3>1 DEF CallInv
    <3> QED
      BY <3>2, <3>3, <3>4 DEF CallInv, MayHaveMade
  <2> QED
    BY <2>1, <2>2
<1>6. \A s \in Nat : Made(book', s) <= Most
  BY <1>2 DEF AttemptsInv
<1>7. /\ ~connected' => Len(book') = 0
      /\ \A j \in 1..Len(book') : book'[j].sub <= submissions'
  BY <1>0, <1>1 DEF AttemptsInv
<1> QED
  BY <1>5, <1>6, <1>7 DEF AttemptsInv, Most

(* The exchange takes the order of an attempt, once.                       *)
LEMMA AttemptsBook ==
    ASSUME EngineTypeOK, AttemptsInv, NEW t \in Tasks, RequestLeaves(t)
    PROVE  AttemptsInv'
<1> DEFINE n == Len(book) + 1
<1>0. /\ submissions \in Nat /\ Len(book) \in Nat /\ book \in Seq(Orders)
      /\ MaxRetries \in Nat
  BY EngineAssumption DEF EngineTypeOK
<1>1. t \in InFlight /\ call[t] \in Calls /\ call[t].pc = "calling" /\ call[t].id = 0 /\ connected
  BY InFlightCall DEF RequestLeaves, InFlight
<1>2. /\ InFlight' = InFlight
      /\ \A u \in InFlight : call'[u] = IF u = t THEN [call[t] EXCEPT !.id = n] ELSE call[u]
      /\ call'[t].sub = call[t].sub /\ call'[t].id = n /\ call'[t].pc = "calling"
      /\ call'[t].attempt = call[t].attempt
      /\ UNCHANGED <<connected, submissions>>
  BY <1>1 DEF RequestLeaves, InFlight, EngineTypeOK, Calls
<1>3. /\ Len(book') = n /\ \A j \in 1..Len(book) : book'[j] = book[j]
      /\ book'[n].sub = call[t].sub
  <2> DEFINE b == [sub |-> call[t].sub, status |-> "SENT"]
  <2>1. b \in Orders /\ b.sub = call[t].sub
    BY <1>1 DEF Orders, Calls
  <2>2. book' = Append(book, b)
    BY DEF RequestLeaves
  <2> HIDE DEF b
  <2> QED
    BY <1>0, <2>1, <2>2
<1>4. ASSUME NEW s, s # call[t].sub
      PROVE  Made(book', s) = Made(book, s)
  <2>1. OrdersOf(book', s) = OrdersOf(book, s)
    BY <1>0, <1>3, <1>4 DEF OrdersOf
  <2> QED
    BY <2>1 DEF Made
<1>5. Made(book', call[t].sub) = Made(book, call[t].sub) + 1
  <2> DEFINE s == call[t].sub
  <2>1. OrdersOf(book', s) = OrdersOf(book, s) \cup {n} /\ n \notin OrdersOf(book, s)
    BY <1>0, <1>3 DEF OrdersOf
  <2> QED
    BY <1>0, <2>1, MadeType, FS_AddElement DEF Made
<1>6. Made(book, call[t].sub) \in Nat /\ call[t].sub \in Nat /\ call[t].attempt \in 0..MaxRetries
  BY <1>0, <1>1, MadeType DEF Calls
<1>7. /\ MayHaveMade(call[t]) <= Most - 1
      /\ MayHaveMade(call'[t]) = MayHaveMade(call[t]) + 1
      /\ MayHaveMade(call[t]) \in Nat /\ Most \in Nat
  BY <1>0, <1>1, <1>2, <1>6 DEF MayHaveMade, Most
<1>8. CallInv(t)
  BY <1>1 DEF AttemptsInv
<1>9. Made(book', call[t].sub) <= MayHaveMade(call'[t]) /\ Made(book', call[t].sub) <= Most
  BY <1>5, <1>6, <1>7, <1>8 DEF CallInv
<1>10. ASSUME NEW u \in InFlight'
       PROVE  CallInv(u)'
  <2>1. u \in InFlight /\ call'[u].sub = call[u].sub /\ CallInv(u)
    BY <1>2, <1>10 DEF AttemptsInv
  <2>2. \A v \in InFlight' : call'[v].sub = call'[u].sub => v = u
    BY <1>2, <2>1 DEF CallInv
  <2>3. call'[u].sub <= submissions'
    BY <1>2, <2>1 DEF CallInv
  <2>4. Made(book', call'[u].sub) <= MayHaveMade(call'[u])
    <3>1. CASE u = t
      BY <1>9, <2>1, <3>1
    <3>2. CASE u # t
      <4>1. call'[u] = call[u] /\ call[u].sub # call[t].sub
        BY <1>1, <1>2, <1>8, <2>1, <3>2 DEF CallInv
      <4>2. Made(book', call[u].sub) = Made(book, call[u].sub)
        BY <1>4, <4>1
      <4> QED
        BY <2>1, <4>1, <4>2 DEF CallInv
    <3> QED
      BY <3>1, <3>2
  <2> QED
    BY <2>2, <2>3, <2>4 DEF CallInv
<1>11. \A s \in Nat : Made(book', s) <= Most
  BY <1>4, <1>9 DEF AttemptsInv
<1>12. \A j \in 1..Len(book') : book'[j].sub <= submissions'
  <2> SUFFICES ASSUME NEW j \in 1..Len(book')
               PROVE  book'[j].sub <= submissions
    BY <1>2
  <2>1. j = n \/ j \in 1..Len(book)
    BY <1>0, <1>3
  <2> QED
    BY <1>3, <1>8, <2>1 DEF AttemptsInv, CallInv
<1> QED
  BY <1>1, <1>2, <1>10, <1>11, <1>12 DEF AttemptsInv

(* An attempt that raises, and the next one. The blocking adapter raises   *)
(* only without a session, when there is no order at all.                  *)
LEMMA AttemptsAgain ==
    ASSUME EngineTypeOK, AttemptsInv, NEW t \in Tasks, PlaceRaisesRetry(t) \/ RetryWake(t)
    PROVE  AttemptsInv'
<1>0. t \in InFlight /\ call[t] \in Calls /\ book \in Seq(Orders) /\ MaxRetries \in Nat
  BY EngineAssumption, InFlightCall DEF PlaceRaisesRetry, RetryWake, InFlight, EngineTypeOK
<1>1. /\ InFlight' = InFlight
      /\ \A u \in InFlight : u # t => call'[u] = call[u]
      /\ UNCHANGED <<connected, submissions, book>>
  <2>1. call'[t].pc \in {"calling", "sleeping"}
    BY <1>0 DEF PlaceRaisesRetry, RetryWake, EngineTypeOK, Calls
  <2>2. \A u \in Tasks : u # t => call'[u] = call[u]
    BY DEF PlaceRaisesRetry, RetryWake, EngineTypeOK
  <2>3. UNCHANGED <<connected, submissions, book>>
    BY DEF PlaceRaisesRetry, RetryWake
  <2> QED
    BY <1>0, <2>1, <2>2, <2>3 DEF InFlight
<1>2. Made(book, call[t].sub) \in Nat /\ call[t].attempt \in Nat /\ CallInv(t)
  <2>1. call[t].attempt \in 0..MaxRetries
    BY <1>0 DEF Calls
  <2> QED
    BY <1>0, <2>1, MadeType DEF AttemptsInv
<1>3. call'[t].sub = call[t].sub /\ Made(book, call[t].sub) <= MayHaveMade(call'[t])
  <2>1. CASE PlaceRaisesRetry(t)
    <3>1. /\ call'[t] = [call[t] EXCEPT !.pc = "sleeping"] /\ call[t].pc = "calling"
          /\ BlockingSDK => ~connected
      BY <1>0, <2>1 DEF PlaceRaisesRetry, EngineTypeOK
    <3>2. /\ call'[t].sub = call[t].sub /\ call'[t].attempt = call[t].attempt
          /\ call'[t].pc = "sleeping"
      BY <1>0, <3>1 DEF Calls
    <3>3. ~connected => Made(book, call[t].sub) = 0
      <4>1. ~connected => OrdersOf(book, call[t].sub) = {}
        BY DEF AttemptsInv, OrdersOf
      <4> QED
        BY <4>1, FS_EmptySet DEF Made
    <3> QED
      BY <1>2, <3>1, <3>2, <3>3 DEF CallInv, MayHaveMade
  <2>2. CASE RetryWake(t)
    <3>1. /\ call'[t] = [call[t] EXCEPT !.pc = "calling", !.attempt = call[t].attempt + 1, !.id = 0]
          /\ call[t].pc = "sleeping"
      BY <1>0, <2>2 DEF RetryWake, EngineTypeOK
    <3>2. /\ call'[t].sub = call[t].sub /\ call'[t].attempt = call[t].attempt + 1
          /\ call'[t].pc = "calling" /\ call'[t].id = 0
      BY <1>0, <3>1 DEF Calls
    <3> QED
      BY <1>2, <3>1, <3>2 DEF CallInv, MayHaveMade
  <2> QED
    BY <2>1, <2>2
<1>4. \A u \in InFlight' :
         /\ u \in InFlight /\ call'[u].sub = call[u].sub
         /\ Made(book, call[u].sub) <= MayHaveMade(call'[u])
  BY <1>1, <1>3 DEF AttemptsInv, CallInv
<1>5. BookKept
  BY <1>1 DEF BookKept
<1> QED
  BY <1>1, <1>4, <1>5, AttemptsKept

(* No step lets a submission have more orders than it made attempts.       *)
LEMMA AttemptsInductive ==
    ASSUME EngineTypeOK, AttemptsInv, [EngineNext]_vars
    PROVE  AttemptsInv'
<1>1. ASSUME BookKept, submissions' \in {submissions, submissions + 1}, connected => connected',
             \A t \in InFlight' : t \in InFlight /\ call'[t] = call[t]
      PROVE  AttemptsInv'
  <2>1. \A t \in InFlight' :
           /\ t \in InFlight /\ call'[t].sub = call[t].sub
           /\ Made(book, call[t].sub) <= MayHaveMade(call'[t])
    BY <1>1 DEF AttemptsInv, CallInv
  <2> QED
    BY <1>1, <2>1, AttemptsKept
<1>2. UNCHANGED book => BookKept
  BY DEF BookKept
<1>3. UNCHANGED call => \A t \in InFlight' : t \in InFlight /\ call'[t] = call[t]
  BY DEF InFlight
<1>4. ASSUME NEW t \in Tasks,
             \/ SubmitBlocked(t) \/ PlaceReturns(t) \/ PlaceReturnsRejected(t) \/ PlaceRaisesOut(t)
             \/ \E o \in Requests : SubmitRiskRejected(t, o)
      PROVE  AttemptsInv'
  <2>1. \A u \in InFlight' : u \in InFlight /\ call'[u] = call[u]
    BY <1>3, <1>4
    DEF SubmitBlocked, PlaceReturns, PlaceReturnsRejected, PlaceRaisesOut, SubmitRiskRejected,
        InFlight, EngineTypeOK
  <2>2. /\ submissions' \in {submissions, submissions + 1} /\ UNCHANGED <<book, connected>>
    BY <1>4
    DEF SubmitBlocked, PlaceReturns, PlaceReturnsRejected, PlaceRaisesOut, SubmitRiskRejected
  <2> QED
    BY <1>1, <1>2, <2>1, <2>2
<1>5. ASSUME NEW id \in 1..Len(book), OrderStep(id)
      PROVE  AttemptsInv'
  <2>1. UNCHANGED <<call, submissions, connected>>
    BY <1>5
    DEF OrderStep, CancelAccepted, CancelRefused, CancelRaises, RequestArrives, ExchangeFills,
        CancelFrame
  <2>2. UNCHANGED book \/ \E s : book' = [book EXCEPT ![id].status = s]
    BY <1>5
    DEF OrderStep, CancelAccepted, CancelRefused, CancelRaises, RequestArrives, ExchangeFills
  <2>3. BookKept
    <3>1. \A j \in 1..Len(book) : book[j] \in Orders
      BY DEF EngineTypeOK
    <3>2. ASSUME NEW s, book' = [book EXCEPT ![id].status = s]
          PROVE  BookKept
      <4>1. Len(book') = Len(book) /\ \A j \in 1..Len(book) : j # id => book'[j] = book[j]
        BY <3>2 DEF EngineTypeOK
      <4>2. book'[id] = [book[id] EXCEPT !.status = s]
        BY <3>2 DEF EngineTypeOK
      <4>3. book'[id].sub = book[id].sub
        BY <3>1, <4>2 DEF Orders
      <4> QED
        BY <4>1, <4>3 DEF BookKept
    <3> QED
      BY <1>2, <2>2, <3>2
  <2> QED
    BY <1>1, <1>3, <2>1, <2>3
<1>6. CASE Authenticate \/ Operator \/ TimePasses \/ UNCHANGED vars
  <2>1. UNCHANGED <<call, submissions, book>> /\ (connected => connected')
    BY <1>6 DEF Authenticate, Operator, TimePasses, EngineFrame, engineVars, vars
  <2> QED
    BY <1>1, <1>2, <1>3, <2>1
<1> QED
  BY <1>4, <1>5, <1>6, AttemptsBegin, AttemptsBook, AttemptsAgain DEF EngineNext, TaskStep, Reply

(* A submission becomes at most one order at the exchange per attempt, and *)
(* with the adapter the program has at most one, however often it is       *)
(* retried.                                                                *)
THEOREM OrdersPerSubmissionHolds == EngineSpec => []OrdersPerSubmission
<1>1. EngineInit => AttemptsInv
  <2> SUFFICES ASSUME EngineInit
               PROVE  AttemptsInv
    OBVIOUS
  <2>1. Len(book) = 0 /\ InFlight = {} /\ MaxRetries \in Nat
    BY EngineAssumption DEF EngineInit, InFlight
  <2>2. \A s : Made(book, s) = 0
    <3>1. \A s : OrdersOf(book, s) = {}
      BY <2>1 DEF OrdersOf
    <3> QED
      BY <3>1, FS_EmptySet DEF Made
  <2> QED
    BY <2>1, <2>2 DEF AttemptsInv, Most
<1>2. EngineTypeOK /\ AttemptsInv /\ [EngineNext]_vars => AttemptsInv'
  BY AttemptsInductive
<1>3. EngineTypeOK /\ AttemptsInv => OrdersPerSubmission
  <2> SUFFICES ASSUME EngineTypeOK, AttemptsInv, NEW i \in 1..Len(book)
               PROVE  Made(book, book[i].sub) <= Most
    BY DEF OrdersPerSubmission, Made, OrdersOf, Most
  <2>1. book[i] \in Orders
    BY DEF EngineTypeOK
  <2> QED
    BY <2>1 DEF AttemptsInv, Orders
<1> QED
  BY <1>1, <1>2, <1>3, EngineTypeCorrect, PTL DEF EngineSpec
-----------------------------------------------------------------------------
(* The bot.                                                                *)

(* The checks of a sync keep the type of the switch.                       *)
LEMMA ChecksType ==
    ASSUME NEW k \in KSType, now \in Nat, NEW pnl, NEW m
    PROVE  MarginChecked(LossChecked(k, pnl), m) \in KSType
<1>1. {"THROTTLE", "PAUSE", "KILL"} \subseteq Levels
  BY DEF Levels
<1>2. LossChecked(k, pnl) \in KSType
  BY <1>1, ActivatedType DEF LossChecked
<1>3. ASSUME NEW l \in KSType
      PROVE  MarginChecked(l, m) \in {l, Activated(l, "PAUSE", now), Activated(l, "THROTTLE", now)}
  BY DEF MarginChecked
<1> QED
  BY <1>1, <1>2, <1>3, ActivatedType

(* A step of the program is a step of the engine, a sync or a restart; the *)
(* state keeps its shape in each of them.                                  *)
LEMMA BotKeepsEngineType ==
    ASSUME EngineTypeOK, [BotNext]_botVars
    PROVE  EngineTypeOK'
<1>1. CASE EngineStep \/ UNCHANGED botVars
  <2>1. [EngineNext]_vars
    BY <1>1 DEF EngineStep, botVars
  <2> QED
    BY <2>1, TypeInductive
<1>2. ASSUME NEW pnl \in Pnls, NEW m \in Margins, Sync(pnl, m)
      PROVE  EngineTypeOK'
  <2>1. ks' \in KSType
    BY <1>2, ChecksType DEF Sync, EngineTypeOK, ClockTypeOK
  <2>2. audit' \in Seq(AuditEntry)
    BY <1>2, RecordType DEF Sync, EngineTypeOK, EventTypes
  <2>3. m.available \in Int /\ m.available + m.used \in Int
    BY BotAssumption
  <2> QED
    BY <1>2, <2>1, <2>2, <2>3 DEF Sync, EngineTypeOK, ClockTypeOK, RiskTypeOK, engineVars
<1>3. CASE ProcessRestarts
  <2>1. ks' \in KSType
    BY <1>3 DEF ProcessRestarts, Restart, Fresh, KSType, Levels, LogEntry
  <2>2. RiskTypeOK'
    BY <1>3, RiskAssumption DEF ProcessRestarts, RiskTypeOK
  <2>3. audit' \in Seq(AuditEntry) /\ outcomes' \in [Statuses -> Nat]
    BY <1>3 DEF ProcessRestarts
  <2>4. call' \in [Tasks -> Calls \cup {Idle}] /\ \A t \in Tasks : call'[t].pc # "sleeping"
    BY <1>3 DEF ProcessRestarts
  <2> QED
    BY <1>3, <2>1, <2>2, <2>3, <2>4 DEF ProcessRestarts, EngineTypeOK, ClockTypeOK
<1> QED
  BY <1>1, <1>2, <1>3 DEF BotNext

(* Type correctness of the program, over syncs and restarts.               *)
THEOREM BotTypeCorrect == BotSpec => []BotTypeOK
<1>1. BotInit => BotTypeOK
  BY InitType DEF BotInit, BotTypeOK
<1>2. ASSUME BotTypeOK, [BotNext]_botVars
      PROVE  BotTypeOK'
  <2>1. EngineTypeOK /\ EngineTypeOK'
    BY <1>2, BotKeepsEngineType DEF BotTypeOK
  <2>2. CASE EngineStep \/ UNCHANGED botVars
    BY <1>2, <2>1, <2>2 DEF BotTypeOK, EngineStep, botVars
  <2>3. ASSUME NEW pnl \in Pnls, NEW m \in Margins, Sync(pnl, m)
        PROVE  BotTypeOK'
    <3>1. submissions \in Nat /\ current_exposure' \in Int
      BY <2>1 DEF EngineTypeOK, RiskTypeOK
    <3>2. synced' \in Int /\ restarts' = restarts /\ syncs' = syncs + 1
      BY <2>3, <3>1 DEF Sync
    <3>3. stoppedAt' \in {submissions, stoppedAt}
      BY <2>3 DEF Sync
    <3> QED
      BY <1>2, <2>1, <3>1, <3>2, <3>3 DEF BotTypeOK
  <2>4. CASE ProcessRestarts
    BY <1>2, <2>1, <2>4 DEF BotTypeOK, ProcessRestarts
  <2> QED
    BY <1>2, <2>2, <2>3, <2>4 DEF BotNext
<1> QED
  BY <1>1, <1>2, PTL DEF BotSpec
-----------------------------------------------------------------------------
(* A loss found by a sync.  Nothing is submitted while the switch stops    *)
(* orders, and what reaches the book comes from a call under way, so that  *)
(* both lie before the count that was kept.                                *)

LossInv ==
    /\ \A t \in InFlight : call[t].sub <= submissions
    /\ \A id \in 1..Len(book) : book[id].sub <= submissions
    /\ stoppedAt # None => ~CheckOrderAllowed(ks.level)
    /\ LossStopsOrders

(* A request comes from a call under way; nothing takes one from the book. *)
LEMMA BookGrows ==
    ASSUME EngineTypeOK, [EngineNext]_vars, NEW id \in 1..Len(book')
    PROVE  \/ id \in 1..Len(book) /\ book'[id].sub = book[id].sub
           \/ \E t \in InFlight : book'[id].sub = call[t].sub
<1>0. book \in Seq(Orders) /\ \A j \in 1..Len(book) : book[j] \in Orders
  BY DEF EngineTypeOK
<1>1. ASSUME NEW t \in Tasks, RequestLeaves(t)
      PROVE  \/ id \in 1..Len(book) /\ book'[id].sub = book[id].sub
             \/ \E u \in InFlight : book'[id].sub = call[u].sub
  <2> DEFINE b == [sub |-> call[t].sub, status |-> "SENT"]
  <2>1. t \in InFlight /\ b \in Orders /\ b.sub = call[t].sub
    BY <1>1, InFlightCall DEF RequestLeaves, InFlight, Orders, Calls
  <2>2. book' = Append(book, b)
    BY <1>1 DEF RequestLeaves
  <2> HIDE DEF b
  <2>3. (id \in 1..Len(book) /\ book'[id] = book[id]) \/ book'[id] = b
    BY <1>0, <2>1, <2>2
  <2> QED
    BY <2>1, <2>3
<1>2. ASSUME NEW i \in 1..Len(book), OrderStep(i)
      PROVE  id \in 1..Len(book) /\ book'[id].sub = book[id].sub
  <2>1. UNCHANGED book \/ \E s : book' = [book EXCEPT ![i].status = s]
    BY <1>2
    DEF OrderStep, CancelAccepted, CancelRefused, CancelRaises, RequestArrives, ExchangeFills
  <2>2. ASSUME NEW s, book' = [book EXCEPT ![i].status = s]
        PROVE  id \in 1..Len(book) /\ book'[id].sub = book[id].sub
    <3>1. id \in 1..Len(book) /\ (id # i => book'[id] = book[id])
      BY <1>0, <2>2
    <3>2. id = i => book'[id] = [book[id] EXCEPT !.status = s]
      BY <1>0, <2>2
    <3>3. id = i => book'[id].sub = book[id].sub
      BY <1>0, <3>1, <3>2 DEF Orders
    <3> QED
      BY <3>1, <3>3
  <2> QED
    BY <2>1, <2>2
<1>3. ASSUME UNCHANGED book
      PROVE  id \in 1..Len(book) /\ book'[id].sub = book[id].sub
  BY <1>3
<1>4. ASSUME NEW t \in Tasks, TaskStep(t)
      PROVE  RequestLeaves(t) \/ UNCHANGED book
  BY <1>4
  DEF TaskStep, SubmitBlocked, SubmitRiskRejected, SubmitCleared, Reply, PlaceReturns,
      PlaceReturnsRejected, PlaceRaisesRetry, PlaceRaisesOut, RetryWake
<1>5. CASE Authenticate \/ Operator \/ TimePasses \/ UNCHANGED vars
  <2>1. UNCHANGED book
    BY <1>5 DEF Authenticate, Operator, TimePasses, EngineFrame, engineVars, vars
  <2> QED
    BY <1>3, <2>1
<1> QED
  BY <1>1, <1>2, <1>3, <1>4, <1>5 DEF EngineNext

(* Submissions are only ever counted up.                                   *)
LEMMA SubmissionsGrow ==
    ASSUME EngineTypeOK, [EngineNext]_vars
    PROVE  submissions' \in {submissions, submissions + 1}
<1>1. ASSUME NEW t \in Tasks, TaskStep(t)
      PROVE  submissions' \in {submissions, submissions + 1}
  BY <1>1
  DEF TaskStep, SubmitBlocked, SubmitRiskRejected, SubmitCleared, Reply, PlaceReturns,
      PlaceReturnsRejected, PlaceRaisesRetry, PlaceRaisesOut, RetryWake, RequestLeaves
<1>2. ASSUME NEW id \in 1..Len(book), OrderStep(id)
      PROVE  submissions' = submissions
  BY <1>2
  DEF OrderStep, CancelAccepted, CancelRefused, CancelRaises, RequestArrives, ExchangeFills,
      CancelFrame
<1>3. CASE Authenticate \/ Operator \/ TimePasses \/ UNCHANGED vars
  BY <1>3 DEF Authenticate, Operator, TimePasses, EngineFrame, engineVars, vars
<1> QED
  BY <1>1, <1>2, <1>3 DEF EngineNext

(* Every step of the program keeps the invariant.                          *)
LEMMA LossInvInductive ==
    ASSUME EngineTypeOK, BotTypeOK, LossInv, [BotNext]_botVars
    PROVE  LossInv'
<1> USE DEF LossInv, LossStopsOrders
<1>0. /\ submissions \in Nat /\ stoppedAt \in Nat \cup {None}
      /\ \A t \in InFlight : call[t].sub \in Nat
      /\ \A id \in 1..Len(book) : book[id].sub \in Nat
  <2>1. \A id \in 1..Len(book) : book[id] \in Orders
    BY DEF EngineTypeOK
  <2> QED
    BY <2>1, InFlightCall DEF EngineTypeOK, BotTypeOK, InFlight, Calls, Orders
<1>1. ASSUME [EngineNext]_vars,
             stoppedAt' # None => /\ stoppedAt' = stoppedAt
                                  /\ ks' = ks \/ ~CheckOrderAllowed(ks'.level)
      PROVE  LossInv'
  <2>1. submissions' >= submissions
    BY <1>0, <1>1, SubmissionsGrow
  <2>2. ASSUME NEW t \in InFlight'
        PROVE  /\ call'[t].sub <= submissions'
               /\ stoppedAt' # None => call'[t].sub <= stoppedAt
    <3>1. t \in Tasks
      BY DEF InFlight
    <3>2. ASSUME NEW o \in Requests, SubmitCleared(t, o)
          PROVE  call'[t].sub = submissions' /\ stoppedAt' = None
      BY <1>1, <3>1, <3>2 DEF SubmitCleared, EngineTypeOK
    <3>3. CASE t \in InFlight /\ call'[t].sub = call[t].sub
      BY <1>0, <1>1, <2>1, <3>3, SubmissionsGrow
    <3> QED
      BY <1>0, <1>1, <3>1, <3>2, <3>3, CallKept, SubmissionsGrow DEF Kept
  <2>3. ASSUME NEW id \in 1..Len(book')
        PROVE  /\ book'[id].sub <= submissions'
               /\ stoppedAt' # None => book'[id].sub <= stoppedAt
    BY <1>0, <1>1, <2>1, BookGrows, SubmissionsGrow
  <2>4. stoppedAt' # None => ~CheckOrderAllowed(ks'.level)
    BY <1>1
  <2> QED
    BY <1>1, <2>2, <2>3, <2>4
<1>2. ASSUME NEW pnl \in Pnls, NEW m \in Margins, Sync(pnl, m)
      PROVE  LossInv'
  <2>1. UNCHANGED <<call, book, submissions>> /\ InFlight' = InFlight
    BY <1>2 DEF Sync, engineVars, InFlight
  <2>2. stoppedAt' # None =>
            \/ stoppedAt' = stoppedAt
            \/ stoppedAt' = submissions /\ LossExceeded(pnl)
    BY <1>2 DEF Sync
  <2>3. stoppedAt' # None => ~CheckOrderAllowed(ks'.level)
    BY <1>2, <2>2, ChecksHalt DEF Sync
  <2> QED
    BY <2>1, <2>2, <2>3
<1>3. CASE ProcessRestarts
  <2>1. stoppedAt' = None /\ InFlight' = {} /\ UNCHANGED <<book, submissions>>
    BY <1>3 DEF ProcessRestarts, InFlight
  <2> QED
    BY <2>1
<1>4. CASE EngineStep
  BY <1>1, <1>4 DEF EngineStep
<1>5. CASE UNCHANGED botVars
  <2>1. UNCHANGED vars /\ stoppedAt' = stoppedAt
    BY <1>5 DEF botVars
  <2>2. ks' = ks
    BY <2>1 DEF vars
  <2> QED
    BY <1>1, <2>1, <2>2
<1> QED
  BY <1>2, <1>3, <1>4, <1>5 DEF BotNext

(* Once a sync has found the loss beyond its limit, every call under way   *)
(* and every order at the exchange is of a submission that began before,   *)
(* until an operator lets orders through or the process dies: with any     *)
(* adapter, any retries and any margins.                                   *)
THEOREM LossStopsOrdersHolds == BotSpec => []LossStopsOrders
<1>1. BotInit => LossInv
  <2> SUFFICES ASSUME BotInit PROVE LossInv
    OBVIOUS
  <2>1. InFlight = {} /\ Len(book) = 0 /\ stoppedAt = None
    BY DEF BotInit, EngineInit, InFlight
  <2> QED
    BY <2>1 DEF LossInv, LossStopsOrders
<1>2. BotTypeOK /\ LossInv /\ [BotNext]_botVars => LossInv'
  BY LossInvInductive DEF BotTypeOK
<1>3. LossInv => LossStopsOrders
  BY DEF LossInv
<1> QED
  BY <1>1, <1>2, <1>3, BotTypeCorrect, PTL DEF BotSpec
-----------------------------------------------------------------------------
(* The exposure between syncs.                                             *)

SyncedInv ==
    /\ SyncedOvershoot
    /\ \A t \in InFlight : T3(call[t].order)

SyncedLimit == IF synced > MaxTotalExposure THEN synced ELSE MaxTotalExposure

(* What all tasks together may have on their way.                          *)
LEMMA PendingMost ==
    ASSUME EngineTypeOK, \A t \in InFlight : T3(call[t].order)
    PROVE  /\ SumFunction(Pending) \in Int
           /\ SumFunction(Pending) <= Cardinality(Tasks) * MaxOrderValue
<1>1. \A t \in InFlight : Pending[t] \in Int /\ Pending[t] <= MaxOrderValue
  BY PendingType, PendingWithin
<1>2. /\ SumFunction(Pending) \in Int
      /\ SumFunction(Pending) <= Cardinality(InFlight) * MaxOrderValue
  BY <1>1, PendingType, InFlightFinite, RiskAssumption, SumBounded
<1>3. \A a, b, m \in Nat : a <= b => a * m <= b * m /\ a * m \in Int /\ b * m \in Int
  OBVIOUS
<1> QED
  BY <1>2, <1>3, InFlightFinite, RiskAssumption

(* No step passes the bound: a sync sets the exposure anew, with at most   *)
(* one order per task on its way.                                          *)
LEMMA SyncedInductive ==
    ASSUME BotTypeOK, SyncedInv, [BotNext]_botVars
    PROVE  SyncedInv'
<1> DEFINE extra == Cardinality(Tasks) * MaxOrderValue
<1>0. /\ EngineTypeOK /\ EngineTypeOK' /\ synced \in Int
      /\ MaxTotalExposure \in Nat /\ MaxOrderValue \in Nat
  BY BotKeepsEngineType, RiskAssumption DEF BotTypeOK
<1>1. extra \in Nat
  <2>1. \A a, m \in Nat : a * m \in Nat
    OBVIOUS
  <2> QED
    BY <1>0, <2>1, InFlightFinite
<1>2. Room(SyncedLimit, extra)
  <2>1. \A a, m \in Nat : (a - 1) * m \in Int /\ (a - 1) * m <= a * m
    OBVIOUS
  <2>2. OthersMost <= extra
    BY <1>0, <2>1, InFlightFinite DEF OthersMost
  <2>3. SyncedLimit \in Int /\ MaxTotalExposure <= SyncedLimit
    BY <1>0 DEF SyncedLimit
  <2> QED
    BY <1>1, <2>2, <2>3 DEF Room
<1>3. WithinRoom(SyncedLimit, extra)
  BY DEF SyncedInv, SyncedOvershoot, SyncedLimit, WithinRoom
<1> HIDE DEF extra
<1>4. ASSUME /\ current_exposure' + SumFunction(Pending') <= SyncedLimit' + extra
             /\ \A t \in InFlight' : T3(call'[t].order)
      PROVE  SyncedInv'
  BY <1>4 DEF SyncedInv, SyncedOvershoot, SyncedLimit, T3, OrderValue, extra
<1>5. ASSUME [EngineNext]_vars, synced' = synced
      PROVE  SyncedInv'
  <2>1. PICK limit : limit = SyncedLimit
    OBVIOUS
  <2>2. PICK s : s = extra
    OBVIOUS
  <2>3. /\ current_exposure' + SumFunction(Pending') <= limit + s
        /\ \A t \in InFlight' : T3(call'[t].order)
    BY <1>0, <1>2, <1>3, <1>5, <2>1, <2>2, ExposureStep DEF SyncedInv
  <2>4. SyncedLimit' = SyncedLimit
    BY <1>5 DEF SyncedLimit
  <2> QED
    BY <1>4, <2>1, <2>2, <2>3, <2>4
<1>6. ASSUME NEW pnl \in Pnls, NEW m \in Margins, Sync(pnl, m)
      PROVE  SyncedInv'
  <2>1. call' = call /\ InFlight' = InFlight /\ synced' = current_exposure'
    BY <1>6 DEF Sync, engineVars, InFlight
  <2>2. Pending' = Pending
    BY <2>1 DEF Pending, Adds, OrderValue
  <2>3. SumFunction(Pending) \in Int /\ SumFunction(Pending) <= extra
    BY <1>0, PendingMost DEF SyncedInv, extra
  <2>4. synced' \in Int /\ synced' <= SyncedLimit' /\ SyncedLimit' \in Int
    BY <1>0, <2>1 DEF SyncedLimit, EngineTypeOK, RiskTypeOK
  <2>5. current_exposure' + SumFunction(Pending') <= SyncedLimit' + extra
    BY <1>1, <2>1, <2>2, <2>3, <2>4
  <2> QED
    BY <1>4, <2>1, <2>5 DEF SyncedInv
<1>7. CASE ProcessRestarts
  <2>1. InFlight' = {} /\ current_exposure' = 0 /\ synced' = 0
    BY <1>7 DEF ProcessRestarts, InFlight
  <2>2. SumFunction(Pending') = 0
    BY <2>1, SumEmpty DEF SumFunction, Pending
  <2>3. SyncedLimit' \in Nat
    BY <1>0, <2>1 DEF SyncedLimit
  <2>4. \A a, b \in Nat : 0 + 0 <= a + b
    OBVIOUS
  <2>5. current_exposure' + SumFunction(Pending') <= SyncedLimit' + extra
    BY <1>1, <2>1, <2>2, <2>3, <2>4
  <2> QED
    BY <1>4, <2>1, <2>5
<1>8. CASE EngineStep \/ UNCHANGED botVars
  BY <1>5, <1>8 DEF EngineStep, botVars
<1> QED
  BY <1>6, <1>7, <1>8 DEF BotNext

(* T8 with syncs between the check and the bookkeeping: the exposure       *)
(* passes its limit, or what the last sync set, by one largest order per   *)
(* task at most, whatever margins the syncs are told of.                   *)
THEOREM SyncedOvershootHolds == BotSpec => []SyncedOvershoot
<1>1. BotInit => SyncedInv
  <2> SUFFICES ASSUME BotInit PROVE SyncedInv
    OBVIOUS
  <2>1. InFlight = {} /\ current_exposure = 0 /\ synced = 0
    BY DEF BotInit, EngineInit, RiskInit, InFlight
  <2>2. SumFunction(Pending) = 0
    BY <2>1, SumEmpty DEF SumFunction, Pending
  <2>3. \A a, m \in Nat : a * m \in Nat
    OBVIOUS
  <2>4. Cardinality(Tasks) * MaxOrderValue \in Nat /\ MaxTotalExposure \in Nat
    BY <2>3, InFlightFinite, RiskAssumption
  <2> QED
    BY <2>1, <2>2, <2>4 DEF SyncedInv, SyncedOvershoot
<1>2. BotTypeOK /\ SyncedInv /\ [BotNext]_botVars => SyncedInv'
  BY SyncedInductive
<1>3. SyncedInv => SyncedOvershoot
  BY DEF SyncedInv
<1> QED
  BY <1>1, <1>2, <1>3, BotTypeCorrect, PTL DEF BotSpec
-----------------------------------------------------------------------------
(* The story told by the trail, over syncs and restarts.                   *)

(* A sync's own entry is of another kind, and it leaves the counters that  *)
(* are compared and the calls alone.                                       *)
LEMMA LedgerSync ==
    ASSUME EngineTypeOK, Counts, Named, NEW pnl, NEW m, Sync(pnl, m)
    PROVE  Counts' /\ Named'
<1>1. /\ UNCHANGED <<call, outcomes, book, daily_order_count, order_rejections, order_timestamps>>
      /\ audit \in Seq(AuditEntry)
  BY DEF Sync, engineVars, EngineTypeOK
<1>2. \A t \in InFlight' : t \in InFlight /\ call'[t].id = call[t].id
  BY <1>1 DEF InFlight
<1>3. Cardinality(InFlight)' = Cardinality(InFlight)
  BY <1>1 DEF InFlight
<1>4. CASE UNCHANGED audit
  <2>1. \A E : EntriesOf(E)' = EntriesOf(E) /\ Recorded(E)' = Recorded(E)
    BY <1>4 DEF EntriesOf, Recorded
  <2>2. Counts'
    BY <1>1, <1>3, <2>1 DEF Counts, Ended
  <2>3. Named'
    BY <1>1, <1>2, <1>4, <2>1, NamedKept DEF StaysArrived
  <2> QED
    BY <2>2, <2>3
<1>5. CASE Record("KILL_SWITCH_ACTIVATED", 0)
  <2>1. "KILL_SWITCH_ACTIVATED" \in EventTypes \ PlacedEvents
    BY DEF EventTypes, PlacedEvents
  <2>2. /\ Recorded({"RISK_CHECK_PASSED"})' = Recorded({"RISK_CHECK_PASSED"})
        /\ Recorded({"RISK_CHECK_FAILED"})' = Recorded({"RISK_CHECK_FAILED"})
        /\ Recorded({"ORDER_REJECTED"})' = Recorded({"ORDER_REJECTED"})
        /\ Recorded(PlacedEvents)' = Recorded(PlacedEvents)
    BY <1>1, <1>5, <2>1, RecordCounts
  <2>3. Counts'
    BY <1>1, <1>3, <2>2 DEF Counts, Ended
  <2>4. Named'
    BY <1>1, <1>2, <1>5, <2>1, OtherEntries, NamedKept DEF StaysArrived
  <2> QED
    BY <2>3, <2>4
<1> QED
  BY <1>4, <1>5 DEF Sync

(* A restart empties all of it at once.                                    *)
LEMMA LedgerRestarts ==
    ASSUME ProcessRestarts
    PROVE  Counts' /\ Named'
<1>1. audit' = <<>> /\ InFlight' = {}
  BY DEF ProcessRestarts, InFlight
<1>2. \A E : EntriesOf(E)' = {}
  BY <1>1 DEF EntriesOf
<1>3. \A E : Recorded(E)' = 0
  BY <1>2, FS_EmptySet DEF Recorded
<1>4. Cardinality(InFlight)' = 0
  BY <1>1, FS_EmptySet
<1>5. /\ Ended("BROKER_SUBMITTED")' = 0 /\ Ended("KILL_SWITCH_BLOCKED")' = 0
      /\ Ended("RISK_REJECTED")' = 0 /\ Ended("BROKER_REJECTED")' = 0 /\ Ended("RAISED")' = 0
  BY DEF ProcessRestarts, Ended, Statuses
<1>6. order_rejections' = 0 /\ daily_order_count' = 0 /\ Len(order_timestamps') = 0
  BY DEF ProcessRestarts
<1>7. Counts'
  BY <1>3, <1>4, <1>5, <1>6 DEF Counts
<1>8. Named'
  BY <1>1, <1>2 DEF Named
<1> QED
  BY <1>7, <1>8

(* Over every run of the whole program the trail, the counters and the     *)
(* results of submit tell one story.                                       *)
THEOREM BotAuditReconciles == BotSpec => []AuditReconciles
<1>1. BotInit => Counts /\ Named
  BY LedgerInit DEF BotInit
<1>2. ASSUME BotTypeOK, Counts, Named, [BotNext]_botVars
      PROVE  Counts' /\ Named'
  <2>0. EngineTypeOK
    BY <1>2 DEF BotTypeOK
  <2>1. CASE EngineStep \/ UNCHANGED botVars
    <3>1. [EngineNext]_vars
      BY <2>1 DEF EngineStep, botVars
    <3> QED
      BY <1>2, <2>0, <3>1, CountsInductive, NamedInductive
  <2> QED
    BY <1>2, <2>0, <2>1, LedgerSync, LedgerRestarts DEF BotNext
<1>3. Counts /\ Named => AuditReconciles
  BY LedgerReconciles
<1> QED
  BY <1>1, <1>2, <1>3, BotTypeCorrect, PTL DEF BotSpec
=============================================================================
