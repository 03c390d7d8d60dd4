--------------------------- MODULE ZerodhaAdapter ---------------------------
(***************************************************************************)
(* The adapter between the program and the Kite SDK                        *)
(* (src/brokers/zerodha.py), with the exchange behind it.                  *)
(*                                                                         *)
(* Its coroutines call the SDK and never suspend, so one method runs at a  *)
(* time.  A call of the SDK is a request and, later, an answer or an       *)
(* exception; the exchange moves on before, between and after them, and    *)
(* either may be lost.  cancel_all_orders lists the orders once and then   *)
(* cancels what it saw open, one by one.                                   *)
(*                                                                         *)
(* Tokens are numbered in the order the exchange issues them; 0 is the     *)
(* empty one.  Reading positions, margins, prices and candles changes      *)
(* nothing here (PositionTracker has the first two).                       *)
(***************************************************************************)
EXTENDS Integers, Sequences

CONSTANTS
    None,
    OrderTypes,      \* a subset of MARKET, LIMIT, SL and SL-M
    Received,        \* the statuses of an order the exchange has not opened yet
    MaxOrders,       \* bound: orders at the exchange
    MaxTokens        \* bound: tokens issued

Placing(type, id) == [op |-> "place", type |-> type, id |-> id]
Cancelling(id, done) == [op |-> "cancel", id |-> id, done |-> done]

Calls ==
    [op: {"place"}, type: OrderTypes, id: Nat] \cup [op: {"cancel"}, id: Nat, done: BOOLEAN]

ASSUME AdapterAssumption ==
    /\ None \notin Nat \cup Calls \cup [op: {"place"}, id: Nat]
    /\ OrderTypes \subseteq {"MARKET", "LIMIT", "SL", "SL-M"}
    /\ Received \cap {"OPEN", "TRIGGER PENDING", "COMPLETE", "CANCELLED", "REJECTED"} = {}
    /\ {MaxOrders, MaxTokens} \subseteq Nat

VARIABLES
    kite,            \* _kite: None, or the token its client carries
    access_token,    \* _access_token
    sdk,             \* the order or cancellation under way, or None
    batch,           \* cancel_all_orders under way, or None
    answer,          \* the last answer to a call about orders, or None
    finished,        \* history: the last batch, once it came to its end, or None
    issued,          \* external: how many tokens the exchange issued
    valid,           \* external: the token it honours, 0 for none
    book             \* external: the account's orders; an order id is an index

adapterVars ==
    <<kite, access_token, sdk, batch, answer, finished, issued, valid, book>>

(* The statuses of an order that may still trade.                          *)
Live == Received \cup {"OPEN", "TRIGGER PENDING"}

Result(id, status) == [order_id |-> id, status |-> status]
Raised == Result(0, "RAISED")
NotListed == Result(0, "NOT LISTED")

(* __init__, with an access token of an earlier session or without one.    *)
AdapterInit ==
    /\ kite = None
    /\ access_token \in {0, 1}
    /\ sdk = None
    /\ batch = None
    /\ answer = None
    /\ finished = None
    /\ issued = 1
    /\ valid = 1
    /\ book = <<>>

(* The loop runs nothing else while a method is inside the SDK.            *)
Free == sdk = None /\ batch = None

(* _ensure_connected lets a call pass.                                     *)
Connected == kite # None

(* The exchange accepts what the client asks.                              *)
InSession == kite # None /\ kite # 0 /\ kite = valid

Exchange == <<issued, valid, book>>
-----------------------------------------------------------------------------
(* Faults: plausible mistakes in the steps below.                          *)

GenerateSessionClientOnly ==
    /\ Free /\ issued < MaxTokens
    /\ issued' = issued + 1
    /\ valid' = issued + 1
    /\ kite' = issued + 1
    /\ UNCHANGED <<access_token, sdk, batch, answer, finished, book>>

PlaceFailsResent ==
    /\ sdk # None /\ sdk.op = "place"
    /\ sdk' = Placing(sdk.type, 0)
    /\ UNCHANGED <<kite, access_token, batch, answer, finished, Exchange>>

CancellableOpenOnly == {"OPEN", "PENDING"}

CancelNextKeeps ==
    /\ sdk = None /\ batch # None
    /\ \E id \in batch.todo : sdk' = Cancelling(id, FALSE)
    /\ UNCHANGED <<kite, access_token, batch, answer, finished, Exchange>>
-----------------------------------------------------------------------------
(* The session.                                                            *)

(* authenticate: the client carries the adapter's token; profile() is only *)
(* a test of it, and the client stays when the test fails.                 *)
Authenticate ==
    /\ Free
    /\ kite' = access_token
    /\ UNCHANGED <<access_token, sdk, batch, answer, finished, Exchange>>

(* generate_session: the exchange honours the token it answers with, and   *)
(* no other from then on.  An answer without one leaves the empty token.   *)
GenerateSession ==
    /\ Free /\ issued < MaxTokens
    /\ issued' = issued + 1
    /\ valid' = issued + 1
    /\ \E token \in {issued + 1, 0} : access_token' = token /\ kite' = token
    /\ UNCHANGED <<sdk, batch, answer, finished, book>>

(* generate_session raises, whether or not the exchange got that far: the  *)
(* client was made when there was none, without a token.                   *)
GenerateSessionRaises ==
    /\ Free /\ issued < MaxTokens
    /\ kite' = IF kite = None THEN 0 ELSE kite
    /\ \/ UNCHANGED <<issued, valid>>
       \/ issued' = issued + 1 /\ valid' = issued + 1
    /\ UNCHANGED <<access_token, sdk, batch, answer, finished, book>>

(* Any method that calls _ensure_connected first.                          *)
RaisesUnopened ==
    /\ Free /\ ~Connected
    /\ answer' = Raised
    /\ UNCHANGED <<kite, access_token, sdk, batch, finished, Exchange>>
-----------------------------------------------------------------------------
(* Placing an order.                                                       *)

Frame == UNCHANGED <<kite, access_token, finished, issued, valid>>

PlaceOrder(type) ==
    /\ Free /\ Connected
    /\ sdk' = Placing(type, 0)
    /\ UNCHANGED <<batch, answer, book>>
    /\ Frame

ExchangeTakesOrder ==
    /\ sdk # None /\ sdk.op = "place" /\ sdk.id = 0
    /\ InSession /\ Len(book) < MaxOrders
    /\ \E status \in Received : book' = Append(book, [type |-> sdk.type, status |-> status])
    /\ sdk' = [sdk EXCEPT !.id = Len(book) + 1]
    /\ UNCHANGED <<batch, answer>>
    /\ Frame

PlaceAnswered ==
    /\ sdk # None /\ sdk.op = "place" /\ sdk.id # 0
    /\ answer' = Result(sdk.id, "PENDING")
    /\ sdk' = None
    /\ UNCHANGED <<batch, book>>
    /\ Frame

(* Any exception of the SDK, also when the order got through.              *)
PlaceFails ==
    /\ sdk # None /\ sdk.op = "place"
    /\ answer' = Result(0, "REJECTED")
    /\ sdk' = None
    /\ UNCHANGED <<batch, book>>
    /\ Frame
-----------------------------------------------------------------------------
(* Cancelling one order, called from outside or by cancel_all_orders,      *)
(* which keeps every result.                                               *)

CancelOrder(id) ==
    /\ Free /\ Connected
    /\ sdk' = Cancelling(id, FALSE)
    /\ UNCHANGED <<batch, answer, book>>
    /\ Frame

ExchangeCancels ==
    /\ sdk # None /\ sdk.op = "cancel" /\ ~sdk.done
    /\ InSession
    /\ book[sdk.id].status \in Live
    /\ book' = [book EXCEPT ![sdk.id].status = "CANCELLED"]
    /\ sdk' = [sdk EXCEPT !.done = TRUE]
    /\ UNCHANGED <<batch, answer>>
    /\ Frame

Kept(status) ==
    IF batch = None THEN None
    ELSE [batch EXCEPT !.results =
              [id \in DOMAIN @ \cup {sdk.id} |-> IF id = sdk.id THEN status ELSE @[id]]]

CancelEnds(status) ==
    /\ answer' = Result(sdk.id, status)
    /\ batch' = Kept(status)
    /\ sdk' = None
    /\ UNCHANGED book
    /\ Frame

CancelAnswered == sdk # None /\ sdk.op = "cancel" /\ sdk.done /\ CancelEnds("CANCELLED")

CancelFails == sdk # None /\ sdk.op = "cancel" /\ CancelEnds("REJECTED")
-----------------------------------------------------------------------------
(* cancel_all_orders.                                                      *)

(* The statuses it takes for open.                                         *)
Cancellable == {"OPEN", "PENDING", "TRIGGER PENDING"}

Statuses == [id \in 1..Len(book) |-> book[id].status]

Listed(seen) == {id \in DOMAIN seen : seen[id] \in Cancellable}

CancelAllLists ==
    /\ Free /\ InSession
    /\ batch' = [seen |-> Statuses, todo |-> Listed(Statuses), results |-> <<>>]
    /\ finished' = None
    /\ UNCHANGED <<kite, access_token, sdk, answer, Exchange>>

(* orders() raises, and so does the method.                                *)
CancelAllRaises ==
    /\ Free /\ Connected
    /\ answer' = NotListed
    /\ UNCHANGED <<sdk, batch, book>>
    /\ Frame

(* The list comes in whatever order the exchange gives it.                 *)
CancelNext ==
    /\ sdk = None /\ batch # None
    /\ \E id \in batch.todo :
           /\ sdk' = Cancelling(id, FALSE)
           /\ batch' = [batch EXCEPT !.todo = @ \ {id}]
    /\ UNCHANGED <<answer, book>>
    /\ Frame

CancelAllReturns ==
    /\ sdk = None /\ batch # None /\ batch.todo = {}
    /\ finished' = [seen |-> batch.seen, results |-> batch.results]
    /\ batch' = None
    /\ UNCHANGED <<kite, access_token, sdk, answer, Exchange>>
-----------------------------------------------------------------------------
(* External: the exchange, and the owner of the account at a terminal.     *)

World == UNCHANGED <<kite, access_token, sdk, batch, answer, finished, issued>>

Moves(from, to(_)) ==
    /\ \E id \in 1..Len(book) :
           /\ book[id].status \in from
           /\ \E status \in to(book[id].type) : book' = [book EXCEPT ![id].status = status]
    /\ UNCHANGED valid
    /\ World

ExchangeOpens ==
    Moves(Received, LAMBDA type : {"REJECTED",
              IF type \in {"SL", "SL-M"} THEN "TRIGGER PENDING" ELSE "OPEN"})

ExchangeTriggers == Moves({"TRIGGER PENDING"}, LAMBDA type : {"OPEN"})

ExchangeFills == Moves({"OPEN"}, LAMBDA type : {"COMPLETE"})

(* The owner cancels, or the exchange does, at the end of the day say.     *)
OthersCancel == Moves(Live, LAMBDA type : {"CANCELLED"})

OwnerPlaces ==
    /\ Len(book) < MaxOrders
    /\ \E type \in OrderTypes, status \in Received :
           book' = Append(book, [type |-> type, status |-> status])
    /\ UNCHANGED valid
    /\ World

TokenExpires ==
    /\ valid' = 0
    /\ UNCHANGED book
    /\ World
-----------------------------------------------------------------------------
SessionStep ==
    Authenticate \/ GenerateSession \/ GenerateSessionRaises \/ RaisesUnopened

OrderStep ==
    \/ \E type \in OrderTypes : PlaceOrder(type)
    \/ ExchangeTakesOrder \/ PlaceAnswered \/ PlaceFails
    \/ \E id \in 1..Len(book) : CancelOrder(id)
    \/ ExchangeCancels \/ CancelAnswered \/ CancelFails

BatchStep == CancelAllLists \/ CancelAllRaises \/ CancelNext \/ CancelAllReturns

ExchangeStep ==
    \/ ExchangeOpens \/ ExchangeTriggers \/ ExchangeFills \/ OthersCancel
    \/ OwnerPlaces \/ TokenExpires

AdapterNext == SessionStep \/ OrderStep \/ BatchStep \/ ExchangeStep

AdapterSpec == AdapterInit /\ [][AdapterNext]_adapterVars

(* A call of the SDK ends, by its HTTP timeout at the latest, and the loop *)
(* of cancel_all_orders goes on.                                           *)
AdapterFairness ==
    /\ WF_adapterVars(PlaceAnswered \/ PlaceFails)
    /\ WF_adapterVars(CancelAnswered \/ CancelFails)
    /\ WF_adapterVars(CancelNext \/ CancelAllReturns)

FairAdapterSpec == AdapterSpec /\ AdapterFairness
-----------------------------------------------------------------------------
(* Properties.                                                             *)

(* cancel_all_orders accounts for the account: when it has returned, an    *)
(* order still live is one that arrived after the listing, one the         *)
(* exchange had not opened when it was listed, or one whose cancellation   *)
(* is reported as refused; and whatever it reports as cancelled is.        *)
CancelAllAccounts ==
    finished # None =>
        \A id \in 1..Len(book) :
            \/ id > Len(finished.seen)
            \/ /\ book[id].status \in Live =>
                      \/ finished.seen[id] \in Received \ {"PENDING"}
                      \/ id \in DOMAIN finished.results /\ finished.results[id] = "REJECTED"
               /\ id \in DOMAIN finished.results /\ finished.results[id] = "CANCELLED" =>
                      book[id].status = "CANCELLED"

(* cancel_all_orders comes to an end, whatever the exchange answers and    *)
(* however many orders arrive meanwhile.                                   *)
CancelAllEnds == batch # None ~> batch = None

(* Opening the session again never brings back a token older than the one  *)
(* the client carries.                                                     *)
TokenNeverReverts ==
    [][kite # None => kite' # None /\ (kite' >= kite \/ kite' = 0)]_adapterVars

(* The adapter does what BrokerInterface promises its callers.             *)
StatusClass(status) ==
    CASE status \in Live -> "LIVE"
      [] status = "CANCELLED" -> "CANCELLED"
      [] OTHER -> "DONE"

Doing ==
    IF sdk # None /\ sdk.op = "place" THEN [op |-> "place", id |-> sdk.id] ELSE sdk

Classes == [id \in 1..Len(book) |-> StatusClass(book[id].status)]

Broker == INSTANCE BrokerInterface WITH opened <- Connected, doing <- Doing, orders <- Classes

ImplementsBroker == Broker!BrokerSpec
=============================================================================
