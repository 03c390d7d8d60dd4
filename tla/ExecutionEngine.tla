-------------------------- MODULE ExecutionEngine --------------------------
(***************************************************************************)
(* The risk-gated pipeline from an order request to the broker             *)
(* (src/execution/engine.py), run by several tasks of one asyncio loop,    *)
(* with the broker adapter and the exchange behind it.                     *)
(*                                                                         *)
(* A task runs alone from one await to the next, so every stretch of code  *)
(* between two awaits is one action.  submit() awaits the broker's answer  *)
(* and, between attempts, asyncio.sleep; these are the states "calling"    *)
(* and "sleeping" of a task.                                               *)
(*                                                                         *)
(* BlockingSDK = TRUE is the adapter the program has                       *)
(* (src/brokers/zerodha.py): its coroutine never suspends, so the loop     *)
(* stands still during a call; it raises only when no session was ever     *)
(* opened; every error of the SDK is answered as a rejection, even if the  *)
(* exchange took the order.  FALSE is any other BrokerInterface: a call    *)
(* suspends the task, may fail or be answered as a rejection after the     *)
(* exchange took the order, and may confirm it at once.                    *)
(*                                                                         *)
(* A request that has left may reach the exchange at any later time, after *)
(* the call ended or the process died as well, or never.                   *)
(***************************************************************************)
EXTENDS RiskManager, Functions

CONSTANTS
    Tasks,           \* the tasks that call submit
    Requests,        \* the orders they may ask for
    MaxRetries,      \* max_retries given to the engine
    BlockingSDK,
    MaxSubmits,      \* bound: calls of submit in a run
    MaxCancels,      \* bound: cancellations recorded in a run
    MaxFills         \* bound: orders filled in a run

ASSUME EngineAssumption ==
    /\ IsFiniteSet(Tasks) /\ Tasks # {}
    /\ Requests \subseteq [symbol: Symbols, quantity: Int, price: Int]
    /\ {MaxRetries, MaxSubmits, MaxCancels, MaxFills} \subseteq Nat
    /\ BlockingSDK \in BOOLEAN

VARIABLES
    call,            \* per task: where its call of submit stands
    submissions,     \* how many calls of submit have begun
    outcomes,        \* how many ended with each status, RAISED being none
    connected,       \* the adapter holds a KiteConnect object
    book             \* the requests that left and the orders the exchange made of
                     \* them; an order id is an index

engineVars == <<call, submissions, outcomes, connected, book>>
vars == <<now, ks, audit, riskVars, engineVars>>

Statuses ==
    {"BROKER_SUBMITTED", "KILL_SWITCH_BLOCKED", "RISK_REJECTED", "BROKER_REJECTED", "RAISED"}

(* The local variables of a call: the request, the number of the attempt,  *)
(* submitted_at, which submission it is, and the exchange's order behind   *)
(* this attempt (0 while its request has not left).                        *)
Calls ==
    [pc: {"calling", "sleeping"}, order: Requests, attempt: 0..MaxRetries,
     submitted_at: Nat, sub: Nat, id: Nat]

(* An order: the submission it comes from and its status, SENT until the   *)
(* exchange has it.                                                        *)
Orders == [sub: Nat, status: {"SENT", "OPEN", "FILLED", "CANCELLED"}]

Idle == [pc |-> "idle"]

InFlight == {t \in Tasks : call[t].pc # "idle"}

(* What each order on its way may still add to the exposure; nothing       *)
(* checks that a quantity is positive.                                     *)
Adds(o) == IF OrderValue(o) > 0 THEN OrderValue(o) ELSE 0

Pending == [t \in InFlight |-> Adds(call[t].order)]

EngineTypeOK ==
    /\ ClockTypeOK
    /\ ks \in KSType
    /\ audit \in Seq(AuditEntry)
    /\ RiskTypeOK
    /\ call \in [Tasks -> Calls \cup {Idle}]
    /\ \A t \in Tasks : call[t].pc = "sleeping" => call[t].attempt < MaxRetries
    /\ submissions \in Nat
    /\ outcomes \in [Statuses -> Nat]
    /\ connected \in BOOLEAN
    /\ book \in Seq(Orders)

EngineInit ==
    /\ ClockInit /\ KSInit /\ AuditInit /\ RiskInit
    /\ call = [t \in Tasks |-> Idle]
    /\ submissions = 0
    /\ outcomes = [s \in Statuses |-> 0]
    /\ connected \in BOOLEAN
    /\ book = <<>>

(* The loop runs another task only while none is inside the SDK.           *)
LoopFree == BlockingSDK => \A t \in Tasks : call[t].pc # "calling"

Tally(s) == outcomes' = [outcomes EXCEPT ![s] = @ + 1]
-----------------------------------------------------------------------------
(* Faults: plausible mistakes in the steps below.                          *)

SubmitBlockedSilently(t) ==
    /\ LoopFree /\ call[t].pc = "idle" /\ submissions < MaxSubmits
    /\ ~CheckOrderAllowed(ks.level)
    /\ Tally("KILL_SWITCH_BLOCKED")
    /\ submissions' = submissions + 1
    /\ UNCHANGED <<now, ks, audit, riskVars, call, connected, book>>

PlaceReturnsWithoutId(t) ==
    /\ call[t].pc = "calling"
    /\ call[t].id # 0 /\ book[call[t].id].status # "SENT"
    /\ RecordOrderPlaced(call[t].order)
    /\ Record("ORDER_PLACED", 0)
    /\ Tally("BROKER_SUBMITTED")
    /\ call' = [call EXCEPT ![t] = Idle]
    /\ UNCHANGED <<now, ks, submissions, connected, book>>

RetryWakeUncounted(t) ==
    /\ LoopFree
    /\ call[t].pc = "sleeping"
    /\ call' = [call EXCEPT ![t].pc = "calling", ![t].id = 0]
    /\ UNCHANGED <<now, ks, audit, riskVars, submissions, outcomes, connected, book>>

PlaceRaisesRetryTooOften(t) ==
    /\ call[t].pc = "calling" /\ (BlockingSDK => ~connected)
    /\ call[t].attempt <= MaxRetries
    /\ call' = [call EXCEPT ![t].pc = "sleeping"]
    /\ UNCHANGED <<now, ks, audit, riskVars, submissions, outcomes, connected, book>>
-----------------------------------------------------------------------------
(* submit(): the kill switch, then the ten checks, then the broker.        *)

CanSubmit(t) == LoopFree /\ call[t].pc = "idle" /\ submissions < MaxSubmits

SubmitBlocked(t) ==
    /\ CanSubmit(t)
    /\ ~CheckOrderAllowed(ks.level)
    /\ Record("ORDER_REJECTED", 0)
    /\ Tally("KILL_SWITCH_BLOCKED")
    /\ submissions' = submissions + 1
    /\ UNCHANGED <<now, ks, riskVars, call, connected, book>>

SubmitRiskRejected(t, o) ==
    /\ CanSubmit(t)
    /\ CheckOrderAllowed(ks.level)
    /\ ~AllPassed(o)
    /\ Check(o)
    /\ Tally("RISK_REJECTED")
    /\ submissions' = submissions + 1
    /\ UNCHANGED <<now, ks, call, connected, book>>

SubmitCleared(t, o) ==
    /\ CanSubmit(t)
    /\ CheckOrderAllowed(ks.level)
    /\ AllPassed(o)
    /\ Check(o)
    /\ call' = [call EXCEPT ![t] =
           [pc |-> "calling", order |-> o, attempt |-> 0, submitted_at |-> now,
            sub |-> submissions + 1, id |-> 0]]
    /\ submissions' = submissions + 1
    /\ UNCHANGED <<now, ks, outcomes, connected, book>>

Calling(t) == call[t].pc = "calling"

(* The answer is not REJECTED: _record_success.                            *)
PlaceReturns(t) ==
    /\ Calling(t)
    /\ call[t].id # 0 /\ book[call[t].id].status # "SENT"
    /\ RecordOrderPlaced(call[t].order)
    /\ \E e \in {"ORDER_PLACED"} \cup (IF BlockingSDK THEN {} ELSE {"ORDER_CONFIRMED"}) :
           Record(e, call[t].id)
    /\ Tally("BROKER_SUBMITTED")
    /\ call' = [call EXCEPT ![t] = Idle]
    /\ UNCHANGED <<now, ks, submissions, connected, book>>

(* The answer is REJECTED: _handle_broker_rejection.  The adapter answers  *)
(* so to any SDK error, whether or not the exchange took or will take the  *)
(* order.                                                                  *)
PlaceReturnsRejected(t) ==
    /\ Calling(t)
    /\ BlockingSDK => connected
    /\ Record("ORDER_REJECTED", 0)
    /\ Tally("BROKER_REJECTED")
    /\ call' = [call EXCEPT ![t] = Idle]
    /\ UNCHANGED <<now, ks, riskVars, submissions, connected, book>>

(* place_order raises and attempts are left: sleep.                        *)
PlaceRaisesRetry(t) ==
    /\ Calling(t)
    /\ BlockingSDK => ~connected
    /\ call[t].attempt < MaxRetries
    /\ call' = [call EXCEPT ![t].pc = "sleeping"]
    /\ UNCHANGED <<now, ks, audit, riskVars, submissions, outcomes, connected, book>>

(* place_order raises on the last attempt: so does submit, which records   *)
(* and returns nothing.                                                    *)
PlaceRaisesOut(t) ==
    /\ Calling(t)
    /\ BlockingSDK => ~connected
    /\ call[t].attempt = MaxRetries
    /\ Tally("RAISED")
    /\ call' = [call EXCEPT ![t] = Idle]
    /\ UNCHANGED <<now, ks, audit, riskVars, submissions, connected, book>>

(* asyncio.sleep ends: the next attempt, straight to the broker.           *)
RetryWake(t) ==
    /\ LoopFree
    /\ call[t].pc = "sleeping"
    /\ call' = [call EXCEPT ![t].pc = "calling", ![t].attempt = @ + 1, ![t].id = 0]
    /\ UNCHANGED <<now, ks, audit, riskVars, submissions, outcomes, connected, book>>
-----------------------------------------------------------------------------
(* cancel(): one await, nothing read after it, so one step per answer.     *)
(* Without a session it answers BROKER_ERROR and changes nothing.          *)

CancelFrame ==
    UNCHANGED <<now, ks, riskVars, call, submissions, outcomes, connected>>

CancelAllowed(id) ==
    LoopFree /\ connected /\ Recorded({"ORDER_CANCELLED"}) < MaxCancels /\ id \in 1..Len(book)

CancelAccepted(id) ==
    /\ CancelAllowed(id)
    /\ book[id].status = "OPEN"
    /\ book' = [book EXCEPT ![id].status = "CANCELLED"]
    /\ Record("ORDER_CANCELLED", id)
    /\ CancelFrame

(* The broker answers REJECTED; the status is not looked at.               *)
CancelRefused(id) ==
    /\ CancelAllowed(id)
    /\ Record("ORDER_CANCELLED", id)
    /\ UNCHANGED book
    /\ CancelFrame

(* cancel_order raises after the exchange cancelled: BROKER_ERROR, and     *)
(* nothing is recorded.                                                    *)
CancelRaises(id) ==
    /\ CancelAllowed(id) /\ ~BlockingSDK
    /\ book[id].status = "OPEN"
    /\ book' = [book EXCEPT ![id].status = "CANCELLED"]
    /\ UNCHANGED audit
    /\ CancelFrame
-----------------------------------------------------------------------------
(* The exchange, and what else the loop runs.                              *)

(* The request of an attempt leaves; an attempt that ends before has sent  *)
(* nothing.                                                                *)
RequestLeaves(t) ==
    /\ Calling(t) /\ call[t].id = 0 /\ connected
    /\ book' = Append(book, [sub |-> call[t].sub, status |-> "SENT"])
    /\ call' = [call EXCEPT ![t].id = Len(book) + 1]
    /\ UNCHANGED <<now, ks, audit, riskVars, submissions, outcomes, connected>>

(* A request reaches the exchange, whatever became of its call meanwhile.  *)
RequestArrives(id) ==
    /\ id \in 1..Len(book) /\ book[id].status = "SENT"
    /\ book' = [book EXCEPT ![id].status = "OPEN"]
    /\ UNCHANGED <<now, ks, audit, riskVars, call, submissions, outcomes, connected>>

ExchangeFills(id) ==
    /\ id \in 1..Len(book) /\ book[id].status = "OPEN"
    /\ Cardinality({i \in 1..Len(book) : book[i].status = "FILLED"}) < MaxFills
    /\ book' = [book EXCEPT ![id].status = "FILLED"]
    /\ UNCHANGED <<now, ks, audit, riskVars, call, submissions, outcomes, connected>>

(* ZerodhaAdapter.authenticate: the client object is kept even when the    *)
(* session turns out to be bad.                                            *)
Authenticate ==
    /\ LoopFree /\ ~connected
    /\ connected' = TRUE
    /\ UNCHANGED <<now, ks, audit, riskVars, call, submissions, outcomes, book>>

EngineFrame == UNCHANGED <<audit, engineVars>>

Operator ==
    \/ LoopFree /\ (\E l \in Levels : OperatorActivates(l)) /\ UNCHANGED <<now, riskVars>> /\ EngineFrame
    \/ LoopFree /\ OperatorDeactivates /\ UNCHANGED <<now, riskVars>> /\ EngineFrame
    \/ LoopFree /\ (\E s \in Symbols : RegisterSymbol(s)) /\ UNCHANGED <<now, ks>> /\ EngineFrame

Reply(t) ==
    PlaceReturns(t) \/ PlaceReturnsRejected(t) \/ PlaceRaisesRetry(t) \/ PlaceRaisesOut(t)

TaskStep(t) ==
    \/ SubmitBlocked(t)
    \/ \E o \in Requests : SubmitRiskRejected(t, o) \/ SubmitCleared(t, o)
    \/ Reply(t)
    \/ RetryWake(t)
    \/ RequestLeaves(t)

OrderStep(id) ==
    \/ CancelAccepted(id) \/ CancelRefused(id) \/ CancelRaises(id)
    \/ RequestArrives(id) \/ ExchangeFills(id)

TimePasses == Tick /\ UNCHANGED <<ks, riskVars>> /\ EngineFrame

EngineNext ==
    \/ \E t \in Tasks : TaskStep(t)
    \/ \E id \in 1..Len(book) : OrderStep(id)
    \/ Authenticate
    \/ Operator
    \/ TimePasses

EngineSpec == EngineInit /\ [][EngineNext]_vars

(* asyncio wakes a sleeper, and a broker call comes back in some way: the  *)
(* SDK's HTTP timeout sees to the second, the engine has none of its own.  *)
EngineFairness == \A t \in Tasks : WF_vars(Reply(t)) /\ WF_vars(RetryWake(t))

FairEngineSpec == EngineSpec /\ EngineFairness
-----------------------------------------------------------------------------
(* Properties.                                                             *)

(* Every order cleared while the switch allowed it: an order still on its  *)
(* way to the broker while the switch is at PAUSE or KILL was submitted    *)
(* before the activation in force, never after it.                         *)
InFlightPredatesHalt ==
    ks.level \in {"PAUSE", "KILL"} =>
        \A t \in InFlight : call[t].submitted_at <= ks.activation_time

(* T4 under concurrency: the orders recorded and those that may still be   *)
(* recorded pass the limit by at most one for every other task, the reads  *)
(* of T4 being that far from the writes of record_order_placed.            *)
DailyOvershoot ==
    daily_order_count + Cardinality(InFlight) <= MaxDailyOrders + Cardinality(Tasks) - 1

(* T5 under concurrency: likewise for the orders of the last second and of *)
(* the last minute, at every instant.                                      *)
RateOvershoot ==
    /\ Recent(OneSecond) + Cardinality(InFlight)
           <= MaxOrdersPerSecond + Cardinality(Tasks) - 1
    /\ Recent(OneMinute) + Cardinality(InFlight)
           <= MaxOrdersPerMinute + Cardinality(Tasks) - 1

(* T8 under concurrency: exposure, with the orders that may still be added *)
(* to it, passes the limit by at most one largest order per other task.    *)
ExposureOvershoot ==
    current_exposure + SumFunction(Pending)
        <= MaxTotalExposure + (Cardinality(Tasks) - 1) * MaxOrderValue

(* The trail, the counters and the results tell one story: each passed     *)
(* check is an order placed, rejected, lost in an exception or on its way; *)
(* each rejection entry is a blocked or a rejected order; each recorded    *)
(* order has its time, its place in the count and its entry; each entry    *)
(* names an order the exchange has, and no two the same.                   *)
AuditReconciles ==
    /\ Recorded({"RISK_CHECK_PASSED"}) =
           outcomes["BROKER_SUBMITTED"] + outcomes["BROKER_REJECTED"]
               + outcomes["RAISED"] + Cardinality(InFlight)
    /\ Recorded({"ORDER_REJECTED"}) =
           outcomes["KILL_SWITCH_BLOCKED"] + outcomes["BROKER_REJECTED"]
    /\ Recorded({"RISK_CHECK_FAILED"}) = outcomes["RISK_REJECTED"]
    /\ outcomes["RISK_REJECTED"] = order_rejections
    /\ Recorded({"ORDER_PLACED", "ORDER_CONFIRMED"}) = outcomes["BROKER_SUBMITTED"]
    /\ daily_order_count = outcomes["BROKER_SUBMITTED"]
    /\ daily_order_count = Len(order_timestamps)
    /\ \A i, j \in EntriesOf({"ORDER_PLACED", "ORDER_CONFIRMED"}) :
           /\ audit[i].order_id \in 1..Len(book)
           /\ book[audit[i].order_id].status # "SENT"
           /\ audit[i].order_id = audit[j].order_id => i = j

(* A submission becomes at most one order per attempt, those that may      *)
(* still arrive counted in, and with the blocking adapter at most one:     *)
(* only an attempt that could not reach the exchange is made again.        *)
OrdersPerSubmission ==
    \A i \in 1..Len(book) :
        Cardinality({j \in 1..Len(book) : book[j].sub = book[i].sub})
            <= IF BlockingSDK THEN 1 ELSE 1 + MaxRetries

(* The exchange's orders that the trail does not know, and the requests    *)
(* that may yet become some, are no more than the attempts whose end was   *)
(* not a placed order: the caller was told of a rejection or an exception, *)
(* the attempt was made again, or it still runs.                           *)
LostOrdersReported ==
    Cardinality({id \in 1..Len(book) :
            \A i \in EntriesOf({"ORDER_PLACED", "ORDER_CONFIRMED"}) : audit[i].order_id # id})
        <= MaxRetries * outcomes["BROKER_SUBMITTED"]
               + (1 + MaxRetries) * (outcomes["BROKER_REJECTED"] + outcomes["RAISED"]
                                         + Cardinality(InFlight))

(* Every call of submit comes to an end.                                   *)
SubmissionsFinish == \A t \in Tasks : call[t].pc # "idle" ~> call[t].pc = "idle"
-----------------------------------------------------------------------------
(* What comments of the code say and the code does not do.                 *)

(* engine.py: "The engine never bypasses risk checks or kill switch."  A   *)
(* retry asks neither: a broker call begins under PAUSE or KILL.           *)
NeverSendsWhileHalted ==
    [][ \A t \in Tasks :
            call[t].pc # "calling" /\ call'[t].pc = "calling" =>
                ks.level \notin {"PAUSE", "KILL"} ]_vars

(* kill_switch.py: KILL cancels all open orders.                           *)
KillCancelsOpenOrders ==
    (ks.level = "KILL") ~>
        \/ ks.level # "KILL"
        \/ \A id \in 1..Len(book) : book[id].status # "OPEN"
=============================================================================
