-------------------------- MODULE BrokerInterface --------------------------
(***************************************************************************)
(* What the callers of a broker rely on (src/brokers/base.py, and the way  *)
(* execution/engine.py uses it): one call at a time, an order behind every *)
(* PENDING answer, a cancelled order behind every CANCELLED one, REJECTED  *)
(* as an answer that promises nothing, and an exception only before the    *)
(* broker was opened.  ExecutionEngine assumes this of its broker when     *)
(* BlockingSDK is TRUE; ZerodhaAdapter is shown to implement it.           *)
(***************************************************************************)
EXTENDS Integers, Sequences

CONSTANT None

VARIABLES
    opened,          \* calls no longer raise
    doing,           \* the call under way, or None
    orders,          \* what the exchange has; an order id is an index
    answer           \* the last BrokerOrderResult, or None

brokerVars == <<opened, doing, orders, answer>>

Placing(id) == [op |-> "place", id |-> id]
Cancelling(id, done) == [op |-> "cancel", id |-> id, done |-> done]

Result(id, status) == [order_id |-> id, status |-> status]
Raised == Result(0, "RAISED")
NotListed == Result(0, "NOT LISTED")

BrokerInit ==
    /\ opened = FALSE
    /\ doing = None
    /\ orders = <<>>
    /\ answer = None

(* authenticate: from now on there is a session to call with.              *)
Open ==
    /\ opened' = TRUE
    /\ UNCHANGED <<doing, orders, answer>>

(* A call before that raises and does nothing; with a session only a       *)
(* listing of the orders may.                                              *)
Raise ==
    /\ ~opened
    /\ answer' = Raised
    /\ UNCHANGED <<opened, doing, orders>>

ListingFails ==
    /\ opened /\ doing = None
    /\ answer' = NotListed
    /\ UNCHANGED <<opened, doing, orders>>

BeginPlace ==
    /\ opened /\ doing = None
    /\ doing' = Placing(0)
    /\ UNCHANGED <<opened, orders, answer>>

BeginCancel(id) ==
    /\ opened /\ doing = None
    /\ doing' = Cancelling(id, FALSE)
    /\ UNCHANGED <<opened, orders, answer>>

(* The call takes effect, at most once.                                    *)
TakePlace ==
    /\ doing = Placing(0)
    /\ orders' = Append(orders, "LIVE")
    /\ doing' = Placing(Len(orders) + 1)
    /\ UNCHANGED <<opened, answer>>

TakeCancel ==
    /\ doing # None /\ doing.op = "cancel"
    /\ doing = Cancelling(doing.id, FALSE)
    /\ orders[doing.id] = "LIVE"
    /\ orders' = [orders EXCEPT ![doing.id] = "CANCELLED"]
    /\ doing' = Cancelling(doing.id, TRUE)
    /\ UNCHANGED <<opened, answer>>

(* An answer that it did is only given when it did; REJECTED at any time.  *)
Answer ==
    /\ doing # None
    /\ \/ doing.op = "place" /\ doing.id # 0 /\ answer' = Result(doing.id, "PENDING")
       \/ doing.op = "cancel" /\ doing.done /\ answer' = Result(doing.id, "CANCELLED")
       \/ doing.op = "place" /\ answer' = Result(0, "REJECTED")
       \/ doing.op = "cancel" /\ answer' = Result(doing.id, "REJECTED")
    /\ doing' = None
    /\ UNCHANGED <<opened, orders>>

(* What the exchange does without this caller: other orders, fills, and    *)
(* cancellations by others.                                                *)
OtherOrder ==
    /\ orders' = Append(orders, "LIVE")
    /\ UNCHANGED <<opened, doing, answer>>

Completes ==
    /\ \E id \in 1..Len(orders) :
           /\ orders[id] = "LIVE"
           /\ \E end \in {"DONE", "CANCELLED"} : orders' = [orders EXCEPT ![id] = end]
    /\ UNCHANGED <<opened, doing, answer>>

BrokerNext ==
    \/ Open \/ Raise \/ ListingFails
    \/ BeginPlace \/ \E id \in 1..Len(orders) : BeginCancel(id)
    \/ TakePlace \/ TakeCancel
    \/ Answer
    \/ OtherOrder \/ Completes

BrokerSpec == BrokerInit /\ [][BrokerNext]_brokerVars
=============================================================================
