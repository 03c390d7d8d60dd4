----------------------------- MODULE TradingBot -----------------------------
(***************************************************************************)
(* The pipeline and the account together, over the life of a container:    *)
(* ExecutionEngine's tasks, and a task that calls PositionTracker.sync     *)
(* (src/execution/positions.py), share one kill switch, one risk state and *)
(* one trail, all of them in memory; the container starts the process      *)
(* again when it dies (src/deployment/docker-compose.yml).                 *)
(*                                                                         *)
(* A sync writes nothing before its last await has answered, so that one   *)
(* step stands for it: with the blocking adapter it falls between two      *)
(* broker calls, with any other also in the midst of a submission, between *)
(* the checks and the bookkeeping.  Nothing calls update_fill (see         *)
(* PositionTracker), so that the daily P&L is what the last sync was told  *)
(* of the open positions.                                                  *)
(***************************************************************************)
EXTENDS ExecutionEngine, AccountChecks

CONSTANTS
    Pnls,                 \* what the broker may say the open positions gained
    Margins,              \* what the broker may say of the margin
    MaxSyncs, MaxRestarts \* bounds

ASSUME BotAssumption ==
    /\ Pnls \subseteq Int
    /\ Margins \subseteq [available: Int, used: Nat]
    /\ {MaxSyncs, MaxRestarts} \subseteq Nat

VARIABLES
    syncs, restarts,      \* how many there were
    stoppedAt,            \* history: how many submissions had begun when a sync found
                          \* the loss beyond its limit; None before, and again once an
                          \* operator lets orders through or the process dies
    synced                \* history: the exposure that the last sync of this process set

botVars == <<vars, syncs, restarts, stoppedAt, synced>>

BotTypeOK ==
    /\ EngineTypeOK
    /\ syncs \in Nat /\ restarts \in Nat /\ synced \in Int
    /\ stoppedAt \in Nat \cup {None}

BotInit ==
    EngineInit /\ syncs = 0 /\ restarts = 0 /\ stoppedAt = None /\ synced = 0
-----------------------------------------------------------------------------
(* Fault: a plausible mistake in the step below.                           *)

SyncAddsExposure(pnl, m) ==
    /\ LoopFree /\ connected
    /\ syncs < MaxSyncs
    /\ margin_available' = m.available
    /\ current_exposure' = current_exposure + m.available + m.used
    /\ ks' = MarginChecked(LossChecked(ks, pnl), m)
    /\ IF LossExceeded(pnl) THEN Record("KILL_SWITCH_ACTIVATED", 0) ELSE UNCHANGED audit
    /\ syncs' = syncs + 1
    /\ synced' = m.available + m.used
    /\ stoppedAt' = IF stoppedAt = None /\ LossExceeded(pnl) THEN submissions ELSE stoppedAt
    /\ UNCHANGED <<now, daily_order_count, positions, order_timestamps, order_rejections,
                   allowed_symbols, engineVars, restarts>>
-----------------------------------------------------------------------------
(* PositionTracker.sync, with all it awaits and both of its checks; without *)
(* a session it raises and changes nothing.  The account's total margin     *)
(* becomes the exposure that T8 reads.                                      *)
Sync(pnl, m) ==
    /\ LoopFree /\ connected
    /\ syncs < MaxSyncs
    /\ margin_available' = m.available
    /\ current_exposure' = m.available + m.used
    /\ ks' = MarginChecked(LossChecked(ks, pnl), m)
    /\ IF LossExceeded(pnl) THEN Record("KILL_SWITCH_ACTIVATED", 0) ELSE UNCHANGED audit
    /\ syncs' = syncs + 1
    /\ synced' = current_exposure'
    /\ stoppedAt' = IF stoppedAt = None /\ LossExceeded(pnl) THEN submissions ELSE stoppedAt
    /\ UNCHANGED <<now, daily_order_count, positions, order_timestamps, order_rejections,
                   allowed_symbols, engineVars, restarts>>

(* The process dies, wherever it is, and the constructors run again.  The  *)
(* exchange's orders stay; submissions numbers those of all lives.         *)
ProcessRestarts ==
    /\ restarts < MaxRestarts
    /\ Restart
    /\ audit' = <<>>
    /\ daily_order_count' = 0 /\ current_exposure' = 0
    /\ positions' = [s \in Symbols |-> 0]
    /\ margin_available' = InitialMargin
    /\ order_timestamps' = <<>> /\ order_rejections' = 0
    /\ allowed_symbols' = InitialSymbols
    /\ call' = [t \in Tasks |-> Idle]
    /\ outcomes' = [s \in Statuses |-> 0]
    /\ connected' = FALSE
    /\ restarts' = restarts + 1
    /\ stoppedAt' = None
    /\ synced' = 0
    /\ UNCHANGED <<now, submissions, book, syncs>>

EngineStep ==
    /\ EngineNext
    /\ stoppedAt' = IF ks' # ks /\ CheckOrderAllowed(ks'.level) THEN None ELSE stoppedAt
    /\ UNCHANGED <<syncs, restarts, synced>>

BotNext ==
    \/ EngineStep
    \/ \E pnl \in Pnls, m \in Margins : Sync(pnl, m)
    \/ ProcessRestarts

BotSpec == BotInit /\ [][BotNext]_botVars
-----------------------------------------------------------------------------
(* Properties.                                                             *)

(* From the sync that found the loss beyond its limit, whatever it and     *)
(* later syncs say of the margin, no submission gets through to the        *)
(* broker: what is under way, made again or at the exchange was submitted  *)
(* before, until an operator lets orders through or the process dies.      *)
LossStopsOrders ==
    stoppedAt # None =>
        /\ \A t \in InFlight : call[t].sub <= stoppedAt
        /\ \A id \in 1..Len(book) : book[id].sub <= stoppedAt

(* T8 with syncs between the check and the bookkeeping: the exposure that  *)
(* a sync sets replaces what T8 compared with, and the orders that were    *)
(* under way are added on top of it.  With them counted in, it passes the  *)
(* limit, or what the last sync set, by one largest order per task at most.*)
SyncedOvershoot ==
    current_exposure + SumFunction(Pending)
        <= (IF synced > MaxTotalExposure THEN synced ELSE MaxTotalExposure)
               + Cardinality(Tasks) * MaxOrderValue
=============================================================================
