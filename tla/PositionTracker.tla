-------------------------- MODULE PositionTracker --------------------------
(***************************************************************************)
(* Positions, P&L and the halts they cause (src/execution/positions.py),   *)
(* with the RiskState and the KillSwitch the tracker shares with the       *)
(* engine, and the account at the broker it tries to follow.               *)
(*                                                                         *)
(* sync() awaits two broker calls.  Positions are read at the first and    *)
(* applied after the second; the account moves on in between.  With        *)
(* BlockingSDK (see ExecutionEngine) nothing else of the program does.     *)
(*                                                                         *)
(* The account is external: the orders that were placed, their fills, the  *)
(* net positions with an average price, and one notice per fill, delivered *)
(* to update_fill once and in order, some time later.  No step depends on  *)
(* the time.                                                               *)
(***************************************************************************)
EXTENDS RiskManager, AccountChecks, Functions

CONSTANTS
    Requests,             \* the orders the engine may be asked for, with a side
    FillPrices,
    Pnls,                 \* what the broker may say the open positions gained
    Margins,              \* what the broker may say of the margin
    AllowShort,           \* the strategy may sell what the account has not
    BlockingSDK

ASSUME TrackerAssumption ==
    /\ Requests \subseteq [symbol: Symbols, quantity: Nat \ {0}, price: Nat, side: {"BUY", "SELL"}]
    /\ FillPrices \subseteq Nat
    /\ Pnls \subseteq Int
    /\ Margins \subseteq [available: Int, used: Nat]
    /\ {AllowShort, BlockingSDK} \subseteq BOOLEAN
    /\ IsFiniteSet(Symbols)

VARIABLES
    tracked,         \* _positions: a function on the symbols it knows
    realized,        \* _daily_pnl
    unrealized,
    syncing,         \* what get_positions answered to a sync under way, or None
    orders,          \* external: the orders at the exchange
    net,             \* external: the positions at the broker
    notices,         \* external: fills not yet told to update_fill
    cash,            \* history: what sales brought less what purchases cost
    overtaken        \* history: a sync and a fill notice passed each other

trackerVars ==
    <<tracked, realized, unrealized, syncing, orders, net, notices, cash, overtaken>>
vars == <<now, ks, audit, riskVars, trackerVars>>

Flat == [quantity |-> 0, entry_price |-> 0]

Snapshot == [quantity: Int, entry_price: Int]

(* Positions in some of the symbols.                                       *)
Holdings(h) == DOMAIN h \subseteq Symbols /\ h \in [DOMAIN h -> Snapshot]

Order == [order: Requests, status: {"OPEN", "FILLED", "CANCELLED"}]

Fill == [symbol: Symbols, quantity: Nat \ {0}, price: Nat, side: {"BUY", "SELL"}]

TrackerTypeOK ==
    /\ Holdings(tracked)
    /\ realized \in Int /\ unrealized \in Int /\ cash \in Int
    /\ syncing # None => Holdings(syncing.held) /\ syncing.pnl \in Int
    /\ orders \in Seq(Order)
    /\ net \in [Symbols -> Snapshot]
    /\ notices \in Seq(Fill)
    /\ overtaken \in BOOLEAN

TrackerInit ==
    /\ ClockInit /\ KSInit /\ AuditInit /\ RiskInit
    /\ tracked = <<>>
    /\ realized = 0 /\ unrealized = 0
    /\ syncing = None
    /\ orders = <<>>
    /\ net = [s \in Symbols |-> Flat]
    /\ notices = <<>>
    /\ cash = 0
    /\ overtaken = FALSE

Abs(x) == IF x < 0 THEN -x ELSE x

LoopFree == BlockingSDK => syncing = None
-----------------------------------------------------------------------------
(* Faults: plausible mistakes in the steps below.                          *)

SoldLikeBought(p, f) == [p EXCEPT !.quantity = @ + f.quantity]

BoughtAtFillPrice(p, f) ==
    [quantity |-> p.quantity + f.quantity,
     entry_price |-> IF p.quantity + f.quantity # 0 THEN f.price ELSE p.entry_price]

-----------------------------------------------------------------------------
(* update_fill: three ways a snapshot may change.                          *)

(* A symbol the tracker does not know.                                     *)
Opened(f) ==
    [quantity |-> IF f.side = "BUY" THEN f.quantity ELSE -f.quantity,
     entry_price |-> f.price]

(* A purchase; the sign of the position is not looked at.  The models use  *)
(* prices for which the average is a whole number.                         *)
Bought(p, f) ==
    LET q == p.quantity + f.quantity
    IN  [quantity |-> q,
         entry_price |-> IF q # 0
                         THEN (p.entry_price * Abs(p.quantity) + f.price * f.quantity)
                                  \div Abs(q)
                         ELSE p.entry_price]

Sold(p, f) == [p EXCEPT !.quantity = @ - f.quantity]

(* update_fill: the position of the risk state becomes what was filled,    *)
(* whatever record_order_placed counted for orders still open.             *)
UpdateFill ==
    /\ LoopFree
    /\ notices # <<>>
    /\ LET f == Head(notices)
           s == f.symbol
           p == IF s \notin DOMAIN tracked THEN Opened(f)
                ELSE IF f.side = "BUY" THEN Bought(tracked[s], f) ELSE Sold(tracked[s], f)
       IN  /\ tracked' = [x \in DOMAIN tracked \cup {s} |-> IF x = s THEN p ELSE tracked[x]]
           /\ positions' = [positions EXCEPT ![s] = p.quantity]
           /\ realized' = IF s \in DOMAIN tracked /\ f.side = "SELL"
                          THEN realized + (f.price - tracked[s].entry_price) * f.quantity
                          ELSE realized
    /\ notices' = Tail(notices)
    /\ overtaken' = (overtaken \/ syncing # None)
    /\ UNCHANGED <<now, ks, audit, daily_order_count, current_exposure, margin_available,
                   order_timestamps, order_rejections, allowed_symbols, unrealized,
                   syncing, orders, net, cash>>
-----------------------------------------------------------------------------
(* sync.                                                                   *)

SyncFrame == UNCHANGED <<now, orders, net, notices, cash>>

(* get_positions answers; flat positions are not among them.               *)
SyncReads ==
    /\ syncing = None
    /\ Len(ks.log) < MaxSwitches
    /\ LET held == {s \in Symbols : net[s].quantity # 0}
       IN  \E pnl \in IF held = {} THEN {0} ELSE Pnls :
               syncing' = [held |-> [s \in held |-> net[s]], pnl |-> pnl]
    /\ overtaken' = (overtaken \/ notices # <<>>)
    /\ UNCHANGED <<ks, audit, riskVars, tracked, realized, unrealized>>
    /\ SyncFrame

(* get_margins answers: everything is replaced and both checks run.  The   *)
(* account's total margin becomes the exposure; the positions of the risk  *)
(* state stay as they are.                                                 *)
SyncApplies(m) ==
    /\ syncing # None
    /\ tracked' = syncing.held
    /\ unrealized' = syncing.pnl
    /\ margin_available' = m.available
    /\ current_exposure' = m.available + m.used
    /\ ks' = MarginChecked(LossChecked(ks, realized + syncing.pnl), m)
    /\ IF LossExceeded(realized + syncing.pnl)
       THEN Record("KILL_SWITCH_ACTIVATED", 0) ELSE UNCHANGED audit
    /\ syncing' = None
    /\ UNCHANGED <<daily_order_count, positions, order_timestamps, order_rejections,
                   allowed_symbols, realized, overtaken>>
    /\ SyncFrame

(* get_margins raises: nothing was applied.                                *)
SyncRaises ==
    /\ syncing # None
    /\ syncing' = None
    /\ UNCHANGED <<ks, audit, riskVars, tracked, realized, unrealized, overtaken>>
    /\ SyncFrame
-----------------------------------------------------------------------------
(* The rest of the program and the account.                                *)

OpenOrders(s, side) ==
    {i \in 1..Len(orders) :
        /\ orders[i].status = "OPEN"
        /\ orders[i].order.symbol = s /\ orders[i].order.side = side}

OpenQuantity(s, side) ==
    SumFunction([i \in OpenOrders(s, side) |-> orders[i].order.quantity])

(* ExecutionEngine, from the kill switch to _record_success, in one step.  *)
OrderPlaced(o) ==
    /\ LoopFree
    /\ AllPassed(o)
    /\ ~AllowShort /\ o.side = "SELL" =>
           o.quantity + OpenQuantity(o.symbol, "SELL") <= net[o.symbol].quantity
    /\ RecordOrderPlaced(o)
    /\ orders' = Append(orders, [order |-> o, status |-> "OPEN"])
    /\ audit' = audit \o <<[event |-> "RISK_CHECK_PASSED", order_id |-> 0],
                           [event |-> "ORDER_PLACED", order_id |-> Len(orders) + 1]>>
    /\ UNCHANGED <<now, ks, tracked, realized, unrealized, syncing, net, notices, cash,
                   overtaken>>

(* The broker's own book: a fill against the position realizes, the rest   *)
(* opens at the fill's price.                                              *)
Booked(p, d, price) ==
    LET q == p.quantity + d
    IN  CASE q = 0 -> Flat
          [] p.quantity * d >= 0 ->
                 [quantity |-> q,
                  entry_price |-> (p.entry_price * Abs(p.quantity) + price * Abs(d)) \div Abs(q)]
          [] p.quantity * q > 0 /\ p.quantity * d < 0 -> [p EXCEPT !.quantity = q]
          [] OTHER -> [quantity |-> q, entry_price |-> price]

ExchangeFills(i, price) ==
    /\ orders[i].status = "OPEN"
    /\ LET o == orders[i].order
           d == IF o.side = "BUY" THEN o.quantity ELSE -o.quantity
       IN  /\ orders' = [orders EXCEPT ![i].status = "FILLED"]
           /\ net' = [net EXCEPT ![o.symbol] = Booked(@, d, price)]
           /\ notices' = Append(notices, [symbol |-> o.symbol, quantity |-> o.quantity,
                                          price |-> price, side |-> o.side])
           /\ cash' = cash - d * price
    /\ UNCHANGED <<now, ks, audit, riskVars, tracked, realized, unrealized, syncing, overtaken>>

(* The exchange rejects or cancels an order; nobody here is told.          *)
ExchangeCancels(i) ==
    /\ orders[i].status = "OPEN"
    /\ orders' = [orders EXCEPT ![i].status = "CANCELLED"]
    /\ UNCHANGED <<now, ks, audit, riskVars, tracked, realized, unrealized, syncing, net,
                   notices, cash, overtaken>>

Operator ==
    /\ LoopFree
    /\ OperatorDeactivates \/ \E l \in Levels : OperatorActivates(l)
    /\ UNCHANGED <<now, audit, riskVars, trackerVars>>

TrackerNext ==
    \/ UpdateFill
    \/ SyncReads
    \/ \E m \in Margins : SyncApplies(m)
    \/ SyncRaises
    \/ \E o \in Requests : OrderPlaced(o)
    \/ \E i \in 1..Len(orders) :
           (\E price \in FillPrices : ExchangeFills(i, price)) \/ ExchangeCancels(i)
    \/ Operator

TrackerSpec == TrackerInit /\ [][TrackerNext]_vars
-----------------------------------------------------------------------------
(* Properties.                                                             *)

Quiet == notices = <<>> /\ syncing = None

TrackedQuantity(s) == IF s \in DOMAIN tracked THEN tracked[s].quantity ELSE 0

SyncEnds == \E m \in Margins : SyncApplies(m)

(* A sync never resumes trading and never lets a loss through: when it     *)
(* finds the loss beyond its limit, or trading halted before it, orders    *)
(* are not allowed after it, whatever the margin check did on top.         *)
SyncHalts ==
    [][ /\ SyncEnds /\ LossExceeded(realized' + unrealized') => ~CheckOrderAllowed(ks'.level)
        /\ SyncEnds /\ ~CheckOrderAllowed(ks.level) => ~CheckOrderAllowed(ks'.level) ]_vars

(* When all fills were told and none crossed a sync, the tracker has the   *)
(* positions the broker has.                                               *)
FollowsBroker ==
    Quiet /\ ~overtaken => \A s \in Symbols : TrackedQuantity(s) = net[s].quantity

(* The cost at which positions are carried.                                *)
Cost(h) == SumFunction([s \in DOMAIN h |-> h[s].entry_price * h[s].quantity])

(* Realized P&L is real: under the same conditions, as long as the account *)
(* is never short, it is the cash that came in less the cost at which open *)
(* positions are carried.                                                  *)
RealizedIsCash == Quiet /\ ~overtaken => realized = cash + Cost(tracked)
=============================================================================
