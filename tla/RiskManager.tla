---------------------------- MODULE RiskManager ----------------------------
(***************************************************************************)
(* The pre-trade gate (src/risk/manager.py): RiskState, the ten checks and *)
(* the bookkeeping after an order was placed.                              *)
(*                                                                         *)
(* An order request keeps what the checks read: symbol, quantity, price.   *)
(* Prices are whole numbers.  margin_available is what the last            *)
(* PositionTracker.sync left; margin_used is read by no check.             *)
(* order_rejections is a list of times of which the code reads nothing, so *)
(* its length is kept.                                                     *)
(***************************************************************************)
EXTENDS KillSwitch, AuditLog

CONSTANTS
    Symbols,
    InitialSymbols,          \* allowed_symbols given to the constructor
    InitialMargin,           \* margin_available of the RiskState given to it
    MaxOrderValue,           \* the limits of config/settings.py
    MaxDailyOrders,
    MaxOrdersPerSecond,
    MaxOrdersPerMinute,
    MaxPositionPerSymbol,
    MaxTotalExposure,
    OneSecond, OneMinute,    \* in ticks
    OneDay,                  \* in ticks; a day begins at midnight, Indian time
    TradingStart, TradingEnd \* in minutes of the day

ASSUME RiskAssumption ==
    /\ InitialSymbols \subseteq Symbols
    /\ InitialMargin \in Int
    /\ {MaxOrderValue, MaxDailyOrders, MaxOrdersPerSecond, MaxOrdersPerMinute,
        MaxPositionPerSymbol, MaxTotalExposure} \subseteq Nat
    /\ {OneSecond, OneMinute, OneDay} \subseteq Nat \ {0}
    /\ {TradingStart, TradingEnd} \subseteq Nat

VARIABLES
    daily_order_count, current_exposure, positions, margin_available,
    order_timestamps, order_rejections, allowed_symbols

riskVars ==
    <<daily_order_count, current_exposure, positions, margin_available,
      order_timestamps, order_rejections, allowed_symbols>>

RiskTypeOK ==
    /\ daily_order_count \in Nat
    /\ current_exposure \in Int
    /\ positions \in [Symbols -> Int]
    /\ margin_available \in Int
    /\ order_timestamps \in Seq(Nat)
    /\ order_rejections \in Nat
    /\ allowed_symbols \in SUBSET Symbols

RiskInit ==
    /\ daily_order_count = 0
    /\ current_exposure = 0
    /\ positions = [s \in Symbols |-> 0]
    /\ margin_available = InitialMargin
    /\ order_timestamps = <<>>
    /\ order_rejections = 0
    /\ allowed_symbols = InitialSymbols

OrderValue(o) == o.price * o.quantity

(* The orders recorded less than w ticks before time t, and how many are   *)
(* recent now.                                                             *)
Window(w, t) == {i \in 1..Len(order_timestamps) : order_timestamps[i] > t - w}

Recent(w) == Cardinality(Window(w, now))
-----------------------------------------------------------------------------
(* Faults: plausible mistakes in the checks and the bookkeeping.           *)

T4Late(o) == daily_order_count <= MaxDailyOrders

T5Late(o) ==
    /\ Recent(OneSecond) <= MaxOrdersPerSecond
    /\ Recent(OneMinute) <= MaxOrdersPerMinute

T8WithoutOrder(o) == current_exposure <= MaxTotalExposure
-----------------------------------------------------------------------------
(* The checks.                                                             *)

T1(o) == o.symbol \in allowed_symbols

(* The minute of the day, the last one inclusive.                          *)
T2(o) ==
    LET minute == (now % OneDay) \div OneMinute
    IN  TradingStart <= minute /\ minute <= TradingEnd

T3(o) == OrderValue(o) <= MaxOrderValue

T4(o) == daily_order_count < MaxDailyOrders

T5(o) ==
    /\ Recent(OneSecond) < MaxOrdersPerSecond
    /\ Recent(OneMinute) < MaxOrdersPerMinute

T6(o) == margin_available >= OrderValue(o)

T7(o) == (positions[o.symbol] + o.quantity) * o.price <= MaxPositionPerSymbol

T8(o) == current_exposure + OrderValue(o) <= MaxTotalExposure

T9(o) == o.price > 0

T10(o) == CheckOrderAllowed(ks.level)

AllPassed(o) ==
    T1(o) /\ T2(o) /\ T3(o) /\ T4(o) /\ T5(o) /\ T6(o) /\ T7(o) /\ T8(o) /\ T9(o) /\ T10(o)

(* RiskManager.check: all ten run, one audit entry tells the verdict.      *)
Check(o) ==
    /\ Record(IF AllPassed(o) THEN "RISK_CHECK_PASSED" ELSE "RISK_CHECK_FAILED", 0)
    /\ order_rejections' = IF AllPassed(o) THEN order_rejections ELSE order_rejections + 1
    /\ UNCHANGED <<daily_order_count, current_exposure, positions, margin_available,
                   order_timestamps, allowed_symbols>>

(* RiskManager.record_order_placed: a sell adds to the position and to the *)
(* exposure like a buy, and no margin is taken.                            *)
RecordOrderPlaced(o) ==
    /\ daily_order_count' = daily_order_count + 1
    /\ order_timestamps' = Append(order_timestamps, now)
    /\ current_exposure' = current_exposure + OrderValue(o)
    /\ positions' = [positions EXCEPT ![o.symbol] = @ + o.quantity]
    /\ UNCHANGED <<margin_available, order_rejections, allowed_symbols>>

(* RiskManager.register_symbol.                                            *)
RegisterSymbol(s) ==
    /\ allowed_symbols' = allowed_symbols \cup {s}
    /\ UNCHANGED <<daily_order_count, current_exposure, positions, margin_available,
                   order_timestamps, order_rejections>>
=============================================================================
