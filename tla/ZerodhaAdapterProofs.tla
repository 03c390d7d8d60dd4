------------------------ MODULE ZerodhaAdapterProofs ------------------------
(***************************************************************************)
(* What holds of the adapter for every number of orders and tokens, and    *)
(* that each of its steps is one BrokerInterface allows.                   *)
(***************************************************************************)
EXTENDS ZerodhaAdapter, SequenceTheorems, TLAPS

OrderStatuses == Live \cup {"COMPLETE", "CANCELLED", "REJECTED"}
Order == [type: OrderTypes, status: OrderStatuses]

AdapterTypeOK ==
    /\ issued \in Nat /\ access_token \in 0..issued
    /\ kite \in 0..issued \cup {None}
    /\ sdk \in Calls \cup {None}
    /\ book \in Seq(Order)

(* The adapter's own token is the client's or a newer one, or empty.       *)
TokenInv == kite # None => access_token = 0 \/ access_token >= kite

(* A call of the SDK is made with a client, on an order the exchange has;  *)
(* once a cancellation took effect the order is cancelled.                 *)
CallInv ==
    sdk # None =>
        /\ kite # None
        /\ sdk.op = "cancel" =>
               /\ sdk.id \in 1..Len(book)
               /\ sdk.done => book[sdk.id].status = "CANCELLED"

(* What is known of the orders seen in a listing: an order listed is left  *)
(* to do or has its result, and results and ended orders stay true.        *)
Accounted(seen, results, left) ==
    /\ seen \in Seq(OrderStatuses)
    /\ DOMAIN seen \subseteq 1..Len(book)
    /\ DOMAIN results \subseteq 1..Len(book)
    /\ \A id \in DOMAIN seen : seen[id] \notin Live => book[id].status \notin Live
    /\ \A id \in Listed(seen) : id \in left \/ id \in DOMAIN results
    /\ \A id \in DOMAIN results :
           \/ results[id] = "REJECTED"
           \/ results[id] = "CANCELLED" /\ book[id].status = "CANCELLED"

UnderWay == IF sdk = None THEN {} ELSE {sdk.id}

BatchInv ==
    batch # None =>
        /\ kite # None
        /\ batch = [seen |-> batch.seen, todo |-> batch.todo, results |-> batch.results]
        /\ batch.todo \subseteq 1..Len(book)
        /\ sdk # None => sdk.op = "cancel"
        /\ Accounted(batch.seen, batch.results, batch.todo \cup UnderWay)

FinishedInv == finished # None => Accounted(finished.seen, finished.results, {})

AdapterInv == AdapterTypeOK /\ TokenInv /\ CallInv /\ BatchInv /\ FinishedInv
-----------------------------------------------------------------------------
(* What a step does to the exchange's orders: nothing, one order more, or  *)
(* a new status for one that could still trade.                            *)
BookStep ==
    \/ UNCHANGED book
    \/ \E o \in Order : book' = Append(book, o)
    \/ \E id \in 1..Len(book), status \in OrderStatuses :
           book[id].status \in Live /\ book' = [book EXCEPT ![id].status = status]

(* What a step may do to the exchange's book.                              *)
LEMMA BookSteps ==
    ASSUME AdapterTypeOK, CallInv, [AdapterNext]_adapterVars
    PROVE  BookStep
<1>1. CASE SessionStep \/ BatchStep \/ UNCHANGED adapterVars
  BY <1>1
  DEF SessionStep, Authenticate, GenerateSession, GenerateSessionRaises, RaisesUnopened,
      BatchStep, CancelAllLists, CancelAllRaises, CancelNext, CancelAllReturns, Exchange,
      adapterVars, BookStep
<1>2. CASE OrderStep
  <2>1. CASE ExchangeTakesOrder
    <3>1. sdk.type \in OrderTypes
      BY <2>1 DEF ExchangeTakesOrder, AdapterTypeOK, Calls
    <3> QED
      BY <2>1, <3>1 DEF ExchangeTakesOrder, BookStep, Order, OrderStatuses, Live
  <2>2. CASE ExchangeCancels
    <3>1. sdk.id \in 1..Len(book)
      BY <2>2 DEF ExchangeCancels, CallInv
    <3> QED
      BY <2>2, <3>1 DEF ExchangeCancels, BookStep, OrderStatuses
  <2>3. CASE UNCHANGED book
    BY <2>3 DEF BookStep
  <2> QED
    BY <1>2, <2>1, <2>2, <2>3
    DEF OrderStep, PlaceOrder, PlaceAnswered, PlaceFails, CancelOrder, CancelAnswered,
        CancelFails, CancelEnds
<1>3. CASE ExchangeStep
  <2>1. CASE ExchangeOpens \/ ExchangeTriggers \/ ExchangeFills \/ OthersCancel
    BY <2>1
    DEF ExchangeOpens, ExchangeTriggers, ExchangeFills, OthersCancel, Moves, BookStep,
        OrderStatuses, Live
  <2>2. CASE OwnerPlaces \/ TokenExpires
    BY <2>2 DEF OwnerPlaces, TokenExpires, BookStep, Order, OrderStatuses, Live
  <2> QED
    BY <1>3, <2>1, <2>2 DEF ExchangeStep
<1> QED
  BY <1>1, <1>2, <1>3 DEF AdapterNext

(* So no order disappears, and one that ended stays as it ended.           *)
LEMMA Settled ==
    ASSUME book \in Seq(Order), BookStep
    PROVE  /\ book' \in Seq(Order)
           /\ Len(book') \in Nat /\ Len(book) \in Nat /\ Len(book') >= Len(book)
           /\ \A id \in 1..Len(book) :
                  book[id].status \notin Live => book'[id].status = book[id].status
<1>1. CASE UNCHANGED book
  BY <1>1
<1>2. ASSUME NEW o \in Order, book' = Append(book, o)
      PROVE  /\ book' \in Seq(Order) /\ Len(book') = Len(book) + 1
             /\ \A id \in 1..Len(book) : book'[id] = book[id]
  BY <1>2
<1>3. ASSUME NEW k \in 1..Len(book), NEW status \in OrderStatuses,
             book[k].status \in Live, book' = [book EXCEPT ![k].status = status]
      PROVE  /\ book' \in Seq(Order) /\ Len(book') = Len(book)
             /\ \A id \in 1..Len(book) :
                  book[id].status \notin Live => book'[id].status = book[id].status
  <2>1. book[k] \in Order
    BY ElementOfSeq
  <2>2. [book[k] EXCEPT !.status = status] \in Order
    BY <2>1 DEF Order
  <2>3. book' = [book EXCEPT ![k] = [book[k] EXCEPT !.status = status]]
    BY <1>3
  <2>4. book' \in Seq(Order) /\ Len(book') = Len(book)
    BY <2>2, <2>3
  <2>5. \A id \in 1..Len(book) : id # k => book'[id] = book[id]
    BY <2>3
  <2> QED
    BY <1>3, <2>4, <2>5
<1> QED
  BY <1>1, <1>2, <1>3 DEF BookStep

(* What is known of a listing's orders stays known.                        *)
LEMMA AccountedKept ==
    ASSUME book \in Seq(Order), BookStep, NEW seen, NEW results, NEW left,
           Accounted(seen, results, left)
    PROVE  Accounted(seen, results, left)'
<1>1. \A id \in 1..Len(book) :
         /\ id \in 1..Len(book')
         /\ book[id].status \notin Live => book'[id].status = book[id].status
  BY Settled
<1>2. "CANCELLED" \notin Live
  BY AdapterAssumption DEF Live
<1>3. DOMAIN seen \subseteq 1..Len(book') /\ DOMAIN results \subseteq 1..Len(book')
  BY <1>1 DEF Accounted
<1>4. \A id \in DOMAIN seen : seen[id] \notin Live => book'[id].status \notin Live
  BY <1>1 DEF Accounted
<1>5. \A id \in DOMAIN results :
         \/ results[id] = "REJECTED"
         \/ results[id] = "CANCELLED" /\ book'[id].status = "CANCELLED"
  BY <1>1, <1>2 DEF Accounted
<1> QED
  BY <1>3, <1>4, <1>5 DEF Accounted
-----------------------------------------------------------------------------
(* The tokens keep their order.                                            *)
LEMMA SessionInductive ==
    ASSUME AdapterTypeOK, TokenInv, [AdapterNext]_adapterVars
    PROVE  /\ issued' \in Nat /\ access_token' \in 0..issued'
           /\ kite' \in 0..issued' \cup {None}
           /\ TokenInv'
           /\ kite # None => kite' # None /\ (kite' >= kite \/ kite' = 0)
<1>0. /\ None \notin Nat
      /\ issued \in Nat /\ access_token \in 0..issued
      /\ kite # None => kite \in 0..issued /\ (access_token = 0 \/ access_token >= kite)
  BY AdapterAssumption DEF AdapterTypeOK, TokenInv
<1>1. CASE SessionStep
  <2>1. CASE Authenticate
    BY <1>0, <2>1 DEF Authenticate, Exchange, TokenInv
  <2>2. CASE GenerateSession
    BY <1>0, <2>2 DEF GenerateSession, TokenInv
  <2>3. CASE GenerateSessionRaises
    BY <1>0, <2>3 DEF GenerateSessionRaises, TokenInv
  <2>4. CASE RaisesUnopened
    BY <1>0, <2>4 DEF RaisesUnopened, Connected, Exchange, TokenInv
  <2> QED
    BY <1>1, <2>1, <2>2, <2>3, <2>4 DEF SessionStep
<1>2. CASE UNCHANGED <<kite, access_token, issued>>
  <2>1. kite' = kite /\ access_token' = access_token /\ issued' = issued
    BY <1>2
  <2>2. kite # None => kite >= kite
    BY <1>0
  <2> QED
    BY <1>0, <2>1, <2>2 DEF TokenInv
<1>3. BatchStep => UNCHANGED <<kite, access_token, issued>>
  BY DEF BatchStep, CancelAllLists, CancelAllRaises, CancelNext, CancelAllReturns, Frame, Exchange
<1>4. OrderStep => UNCHANGED <<kite, access_token, issued>>
  BY DEF OrderStep, PlaceOrder, ExchangeTakesOrder, PlaceAnswered, PlaceFails, CancelOrder,
         ExchangeCancels, CancelAnswered, CancelFails, CancelEnds, Frame
<1>5. ExchangeStep => UNCHANGED <<kite, access_token, issued>>
  BY DEF ExchangeStep, ExchangeOpens, ExchangeTriggers, ExchangeFills, OthersCancel, Moves,
         OwnerPlaces, TokenExpires, World
<1> QED
  BY <1>1, <1>2, <1>3, <1>4, <1>5 DEF AdapterNext, adapterVars

(* What a step does to the call of the SDK: nothing, or it ends, or one    *)
(* begins, or the exchange acts on it.                                     *)
SdkStep ==
    \/ UNCHANGED sdk
    \/ sdk' = None
    \/ sdk = None /\ Connected /\ \E type \in OrderTypes : sdk' = Placing(type, 0)
    \/ sdk = None /\ Connected /\ \E id \in 1..Len(book) : sdk' = Cancelling(id, FALSE)
    \/ ExchangeTakesOrder
    \/ ExchangeCancels

(* What a step may do to the call under way.                               *)
LEMMA SdkSteps ==
    ASSUME BatchInv, [AdapterNext]_adapterVars
    PROVE  SdkStep
<1>1. CASE SessionStep \/ ExchangeStep \/ UNCHANGED adapterVars
  BY <1>1
  DEF SessionStep, Authenticate, GenerateSession, GenerateSessionRaises, RaisesUnopened,
      ExchangeStep, ExchangeOpens, ExchangeTriggers, ExchangeFills, OthersCancel, Moves,
      OwnerPlaces, TokenExpires, World, adapterVars, SdkStep
<1>2. CASE OrderStep
  BY <1>2
  DEF OrderStep, PlaceOrder, PlaceAnswered, PlaceFails, CancelOrder, CancelAnswered, CancelFails,
      CancelEnds, Free, SdkStep
<1>3. CASE BatchStep
  <2>1. CASE CancelNext
    BY <2>1 DEF CancelNext, BatchInv, Connected, SdkStep
  <2>2. CASE CancelAllLists \/ CancelAllRaises \/ CancelAllReturns
    BY <2>2 DEF CancelAllLists, CancelAllRaises, CancelAllReturns, SdkStep
  <2> QED
    BY <1>3, <2>1, <2>2 DEF BatchStep
<1> QED
  BY <1>1, <1>2, <1>3 DEF AdapterNext

(* Every such step keeps the call under way sound.                         *)
LEMMA CallInductive ==
    ASSUME AdapterTypeOK, CallInv, SdkStep, BookStep, kite # None => kite' # None
    PROVE  sdk' \in Calls \cup {None} /\ CallInv'
<1>0. /\ book \in Seq(Order) /\ Len(book) \in Nat /\ Len(book') \in Nat
      /\ Len(book') >= Len(book)
      /\ \A id \in 1..Len(book) : book[id].status \notin Live => book'[id].status = book[id].status
  BY Settled DEF AdapterTypeOK
<1>1. "CANCELLED" \notin Live
  BY AdapterAssumption DEF Live
<1>2. CASE UNCHANGED sdk
  BY <1>0, <1>1, <1>2 DEF AdapterTypeOK, CallInv
<1>3. CASE sdk' = None
  BY <1>3 DEF CallInv
<1>4. ASSUME kite # None, NEW type \in OrderTypes, sdk' = Placing(type, 0)
      PROVE  sdk' \in Calls /\ CallInv'
  BY <1>4 DEF Placing, Calls, CallInv
<1>5. ASSUME kite # None, NEW id \in 1..Len(book), sdk' = Cancelling(id, FALSE)
      PROVE  sdk' \in Calls /\ CallInv'
  BY <1>0, <1>5 DEF Cancelling, Calls, CallInv
<1>6. CASE ExchangeTakesOrder
  <2>1. sdk \in [op: {"place"}, type: OrderTypes, id: Nat]
    BY <1>6 DEF ExchangeTakesOrder, AdapterTypeOK, Calls
  <2>2. sdk' \in [op: {"place"}, type: OrderTypes, id: Nat]
    BY <1>0, <1>6, <2>1 DEF ExchangeTakesOrder
  <2> QED
    BY <1>6, <2>1, <2>2 DEF ExchangeTakesOrder, InSession, Calls, CallInv
<1>7. CASE ExchangeCancels
  <2>1. sdk \in [op: {"cancel"}, id: Nat, done: BOOLEAN] /\ sdk.id \in 1..Len(book)
    BY <1>7 DEF ExchangeCancels, AdapterTypeOK, Calls, CallInv
  <2>2. /\ sdk' \in [op: {"cancel"}, id: Nat, done: BOOLEAN]
        /\ sdk'.id = sdk.id
    BY <1>7, <2>1 DEF ExchangeCancels
  <2>3. book'[sdk.id].status = "CANCELLED" /\ Len(book') = Len(book)
    <3>1. book[sdk.id] \in Order
      BY <1>0, <2>1, ElementOfSeq
    <3> QED
      BY <1>0, <1>7, <2>1, <3>1 DEF ExchangeCancels, Order
  <2> QED
    BY <1>0, <1>7, <2>1, <2>2, <2>3 DEF ExchangeCancels, InSession, Calls, CallInv
<1> QED
  BY <1>2, <1>3, <1>4, <1>5, <1>6, <1>7 DEF SdkStep, Connected
-----------------------------------------------------------------------------
(* cancel_all_orders.                                                      *)

(* While nothing about it changes, the batch still accounts for its orders.*)
LEMMA BatchKept ==
    ASSUME AdapterTypeOK, BatchInv, BookStep, kite # None => kite' # None,
           UNCHANGED batch, UnderWay' = UnderWay,
           (batch # None /\ sdk # None) => (sdk' = None \/ sdk'.op = "cancel"),
           sdk = None => sdk' = None
    PROVE  BatchInv'
<1> SUFFICES ASSUME batch # None PROVE BatchInv'
  BY DEF BatchInv
<1>1. Accounted(batch.seen, batch.results, batch.todo \cup UnderWay)'
  <2>1. Accounted(batch.seen, batch.results, batch.todo \cup UnderWay)
    BY DEF BatchInv
  <2> QED
    BY <2>1, AccountedKept DEF AdapterTypeOK
<1>2. batch.todo \subseteq 1..Len(book')
  BY Settled DEF AdapterTypeOK, BatchInv
<1> QED
  BY <1>1, <1>2 DEF BatchInv

(* An answer to a cancellation becomes its result.                         *)
LEMMA BatchAnswered ==
    ASSUME AdapterTypeOK, CallInv, BatchInv, batch # None, sdk # None, sdk.op = "cancel",
           NEW status, CancelEnds(status),
           status = "REJECTED" \/ (status = "CANCELLED" /\ sdk.done)
    PROVE  BatchInv'
<1> DEFINE results == [id \in DOMAIN batch.results \cup {sdk.id} |->
                          IF id = sdk.id THEN status ELSE batch.results[id]]
<1>1. /\ batch = [seen |-> batch.seen, todo |-> batch.todo, results |-> batch.results]
      /\ Accounted(batch.seen, batch.results, batch.todo \cup {sdk.id})
      /\ kite # None
  BY DEF BatchInv, UnderWay
<1>2. /\ batch' = [seen |-> batch.seen, todo |-> batch.todo, results |-> results]
      /\ book' = book /\ sdk' = None /\ kite' = kite
  BY <1>1 DEF CancelEnds, Kept, Frame
<1>3. sdk.id \in 1..Len(book) /\ (sdk.done => book[sdk.id].status = "CANCELLED")
  BY DEF CallInv
<1>4. Accounted(batch.seen, results, batch.todo)
  <2>1. DOMAIN results = DOMAIN batch.results \cup {sdk.id}
    OBVIOUS
  <2>2. \A id \in DOMAIN results :
           \/ results[id] = "REJECTED"
           \/ results[id] = "CANCELLED" /\ book[id].status = "CANCELLED"
    BY <1>1, <1>3 DEF Accounted
  <2> HIDE DEF results
  <2> QED
    BY <1>1, <1>3, <2>1, <2>2 DEF Accounted
<1> HIDE DEF results
<1>5. UnderWay' = {} /\ batch'.todo \cup UnderWay' = batch.todo
  BY <1>2 DEF UnderWay
<1>6. Accounted(batch'.seen, batch'.results, batch'.todo \cup UnderWay')
  BY <1>2, <1>4, <1>5
<1>7. batch'.todo \subseteq 1..Len(book')
  BY <1>2 DEF BatchInv
<1> QED
  BY <1>1, <1>2, <1>6, <1>7 DEF BatchInv, Accounted

(* Every step keeps the cancellations under way sound.                     *)
LEMMA BatchInductive ==
    ASSUME AdapterTypeOK, CallInv, BatchInv, BookStep, kite # None => kite' # None,
           [AdapterNext]_adapterVars
    PROVE  BatchInv'
<1>1. CASE SessionStep \/ ExchangeStep \/ UNCHANGED adapterVars
  <2>1. UNCHANGED <<batch, sdk>>
    BY <1>1
    DEF SessionStep, Authenticate, GenerateSession, GenerateSessionRaises, RaisesUnopened,
        ExchangeStep, ExchangeOpens, ExchangeTriggers, ExchangeFills, OthersCancel, Moves,
        OwnerPlaces, TokenExpires, World, adapterVars
  <2> QED
    BY <2>1, BatchKept DEF UnderWay, BatchInv
<1>2. CASE OrderStep
  <2>1. CASE batch = None
    BY <1>2, <2>1
    DEF OrderStep, PlaceOrder, ExchangeTakesOrder, PlaceAnswered, PlaceFails, CancelOrder,
        ExchangeCancels, CancelAnswered, CancelFails, CancelEnds, Kept, BatchInv
  <2>2. CASE batch # None /\ ExchangeCancels
    <3>1. sdk \in [op: {"cancel"}, id: Nat, done: BOOLEAN]
      BY <2>2 DEF ExchangeCancels, AdapterTypeOK, Calls
    <3>2. sdk' \in [op: {"cancel"}, id: Nat, done: BOOLEAN] /\ sdk'.id = sdk.id
      BY <2>2, <3>1 DEF ExchangeCancels
    <3>3. sdk # None /\ sdk' # None
      BY <3>1, <3>2, AdapterAssumption DEF Calls
    <3>4. UnderWay' = UnderWay
      BY <3>2, <3>3 DEF UnderWay
    <3> QED
      BY <2>2, <3>2, <3>3, <3>4, BatchKept DEF ExchangeCancels
  <2>3. CASE batch # None /\ (CancelAnswered \/ CancelFails)
    BY <2>3, BatchAnswered DEF CancelAnswered, CancelFails
  <2> QED
    BY <1>2, <2>1, <2>2, <2>3
    DEF OrderStep, PlaceOrder, ExchangeTakesOrder, PlaceAnswered, PlaceFails, CancelOrder, Free,
        BatchInv
<1>3. CASE CancelAllLists
  <2>1. /\ batch' = [seen |-> Statuses, todo |-> Listed(Statuses), results |-> <<>>]
        /\ book' = book /\ sdk' = None /\ kite' # None
    BY <1>3 DEF CancelAllLists, Free, InSession, Exchange
  <2>2. Statuses \in Seq(OrderStatuses) /\ DOMAIN Statuses = 1..Len(book)
    <3>1. Len(book) \in Nat /\ \A id \in 1..Len(book) : book[id].status \in OrderStatuses
      <4>1. Len(book) \in Nat /\ \A id \in 1..Len(book) : book[id] \in Order
        BY ElementOfSeq DEF AdapterTypeOK
      <4> QED
        BY <4>1 DEF Order
    <3> QED
      BY <3>1, SeqDef DEF Statuses
  <2>3. Listed(Statuses) \subseteq 1..Len(book)
    BY <2>2 DEF Listed
  <2>4. Accounted(Statuses, <<>>, Listed(Statuses))
    BY <2>2 DEF Accounted, Statuses
  <2> QED
    BY <2>1, <2>3, <2>4 DEF BatchInv, UnderWay, Accounted
<1>4. CASE CancelNext
  <2>1. PICK id \in batch.todo :
           /\ sdk' = Cancelling(id, FALSE)
           /\ batch' = [batch EXCEPT !.todo = @ \ {id}]
    BY <1>4 DEF CancelNext
  <2>2. /\ sdk = None /\ batch # None /\ book' = book /\ kite' = kite
        /\ batch = [seen |-> batch.seen, todo |-> batch.todo, results |-> batch.results]
        /\ batch.todo \subseteq 1..Len(book) /\ kite # None
        /\ Accounted(batch.seen, batch.results, batch.todo)
    BY <1>4 DEF CancelNext, Frame, BatchInv, UnderWay
  <2>3. batch' = [seen |-> batch.seen, todo |-> batch.todo \ {id}, results |-> batch.results]
    BY <2>1, <2>2
  <2>4. sdk'.op = "cancel" /\ sdk'.id = id /\ sdk' # None
    <3>1. id \in Nat
      BY <2>2 DEF AdapterTypeOK
    <3>2. sdk' \in Calls
      BY <2>1, <3>1 DEF Cancelling, Calls
    <3> QED
      BY <2>1, <3>2, AdapterAssumption DEF Cancelling
  <2>5. (batch.todo \ {id}) \cup {id} = batch.todo
    OBVIOUS
  <2>6. Accounted(batch'.seen, batch'.results, batch'.todo \cup UnderWay')
    BY <2>2, <2>3, <2>4, <2>5 DEF UnderWay
  <2> QED
    BY <2>2, <2>3, <2>4, <2>6 DEF BatchInv, Accounted
<1>5. CASE CancelAllReturns \/ CancelAllRaises
  BY <1>5 DEF CancelAllReturns, CancelAllRaises, Free, BatchInv
<1> QED
  BY <1>1, <1>2, <1>3, <1>4, <1>5 DEF AdapterNext, BatchStep

(* Every step keeps what finished cancellations reported true of the book. *)
LEMMA FinishedInductive ==
    ASSUME AdapterTypeOK, BatchInv, FinishedInv, BookStep, [AdapterNext]_adapterVars
    PROVE  FinishedInv'
<1>1. CASE CancelAllReturns
  <2>1. /\ finished' = [seen |-> batch.seen, results |-> batch.results]
        /\ book' = book
        /\ Accounted(batch.seen, batch.results, {})
    BY <1>1 DEF CancelAllReturns, BatchInv, UnderWay, Exchange
  <2> QED
    BY <2>1 DEF FinishedInv, Accounted
<1>2. CASE finished' = None
  BY <1>2 DEF FinishedInv
<1>3. CASE UNCHANGED finished
  BY <1>3, AccountedKept DEF FinishedInv, AdapterTypeOK
<1> QED
  BY <1>1, <1>2, <1>3
  DEF AdapterNext, SessionStep, Authenticate, GenerateSession, GenerateSessionRaises,
      RaisesUnopened, OrderStep, PlaceOrder, ExchangeTakesOrder, PlaceAnswered, PlaceFails,
      CancelOrder, ExchangeCancels, CancelAnswered, CancelFails, CancelEnds, Frame, BatchStep,
      CancelAllLists, CancelAllRaises, CancelNext, ExchangeStep, ExchangeOpens, ExchangeTriggers,
      ExchangeFills, OthersCancel, Moves, OwnerPlaces, TokenExpires, World, adapterVars
-----------------------------------------------------------------------------
(* The invariant is inductive.                                             *)
LEMMA AdapterInvInit == AdapterInit => AdapterInv
<1> SUFFICES ASSUME AdapterInit PROVE AdapterInv
  OBVIOUS
<1>1. AdapterTypeOK
  <2>1. issued = 1 /\ access_token \in {0, 1} /\ kite = None /\ sdk = None /\ book = <<>>
    BY DEF AdapterInit
  <2> QED
    BY <2>1 DEF AdapterTypeOK
<1>2. TokenInv /\ CallInv /\ BatchInv /\ FinishedInv
  BY DEF AdapterInit, TokenInv, CallInv, BatchInv, FinishedInv
<1> QED
  BY <1>1, <1>2 DEF AdapterInv

(* Every step keeps the invariant of the adapter.                          *)
LEMMA AdapterInvInductive ==
    ASSUME AdapterInv, [AdapterNext]_adapterVars
    PROVE  AdapterInv'
<1>1. AdapterTypeOK /\ TokenInv /\ CallInv /\ BatchInv /\ FinishedInv
  BY DEF AdapterInv
<1>2. BookStep /\ SdkStep
  BY <1>1, BookSteps, SdkSteps
<1>3. /\ issued' \in Nat /\ access_token' \in 0..issued' /\ kite' \in 0..issued' \cup {None}
      /\ TokenInv'
      /\ kite # None => kite' # None
  BY <1>1, SessionInductive
<1>4. book' \in Seq(Order)
  BY <1>1, <1>2, Settled DEF AdapterTypeOK
<1>5. sdk' \in Calls \cup {None} /\ CallInv'
  BY <1>1, <1>2, <1>3, CallInductive
<1>6. BatchInv'
  BY <1>1, <1>2, <1>3, BatchInductive
<1>7. FinishedInv'
  BY <1>1, <1>2, FinishedInductive
<1> QED
  BY <1>3, <1>4, <1>5, <1>6, <1>7 DEF AdapterInv, AdapterTypeOK

(* The invariant of the adapter, for any number of orders and sessions.    *)
THEOREM AdapterInvHolds == AdapterSpec => []AdapterInv
BY AdapterInvInit, AdapterInvInductive, PTL DEF AdapterSpec

(* Type correctness of the adapter.                                        *)
THEOREM AdapterTypeCorrect == AdapterSpec => []AdapterTypeOK
<1>1. AdapterInv => AdapterTypeOK
  BY DEF AdapterInv
<1> QED
  BY <1>1, AdapterInvHolds, PTL

(* cancel_all_orders accounts for every order of the account.              *)
THEOREM CancelAllAccountsHolds == AdapterSpec => []CancelAllAccounts
<1>1. ASSUME AdapterInv
      PROVE  CancelAllAccounts
  <2> SUFFICES ASSUME finished # None, NEW id \in 1..Len(book), id <= Len(finished.seen)
               PROVE  /\ book[id].status \in Live =>
                             \/ finished.seen[id] \in Received \ {"PENDING"}
                             \/ /\ id \in DOMAIN finished.results
                                /\ finished.results[id] = "REJECTED"
                      /\ id \in DOMAIN finished.results /\ finished.results[id] = "CANCELLED" =>
                             book[id].status = "CANCELLED"
    BY <1>1 DEF CancelAllAccounts, AdapterInv, AdapterTypeOK, FinishedInv, Accounted
  <2>1. Accounted(finished.seen, finished.results, {})
    BY <1>1 DEF AdapterInv, FinishedInv
  <2>2. id \in DOMAIN finished.seen
    BY <1>1, <2>1, LenProperties DEF Accounted, AdapterInv, AdapterTypeOK
  <2>3. "CANCELLED" \notin Live
    BY AdapterAssumption DEF Live
  <2>4. CASE finished.seen[id] \in Cancellable
    <3>1. id \in DOMAIN finished.results
      BY <2>1, <2>2, <2>4 DEF Accounted, Listed
    <3> QED
      BY <2>1, <2>3, <3>1 DEF Accounted
  <2>5. CASE finished.seen[id] \notin Cancellable
    BY <2>1, <2>2, <2>3, <2>5 DEF Accounted, Cancellable, Live
  <2> QED
    BY <2>4, <2>5
<1> QED
  BY <1>1, AdapterInvHolds, PTL

(* Opening the session again never brings back an older token.             *)
THEOREM TokenNeverRevertsHolds == AdapterSpec => TokenNeverReverts
<1>1. AdapterInv /\ [AdapterNext]_adapterVars =>
          [kite # None => kite' # None /\ (kite' >= kite \/ kite' = 0)]_adapterVars
  BY SessionInductive DEF AdapterInv
<1> QED
  BY <1>1, AdapterInvHolds, PTL DEF AdapterSpec, TokenNeverReverts
-----------------------------------------------------------------------------
(* Each step of the adapter is one of BrokerInterface, or changes nothing  *)
(* that a caller sees.                                                     *)

AllClasses == {"LIVE", "CANCELLED", "DONE"}

(* The class of each status.                                               *)
LEMMA ClassOf ==
    ASSUME NEW status
    PROVE  /\ StatusClass(status) \in AllClasses
           /\ status \in Live => StatusClass(status) = "LIVE"
           /\ StatusClass("CANCELLED") = "CANCELLED"
           /\ StatusClass("COMPLETE") = "DONE" /\ StatusClass("REJECTED") = "DONE"
<1>1. {"CANCELLED", "COMPLETE", "REJECTED"} \cap Live = {}
  BY AdapterAssumption DEF Live
<1> QED
  BY <1>1 DEF StatusClass, AllClasses

(* The classes of the book, order by order.                                *)
LEMMA ClassesSeq ==
    ASSUME book \in Seq(Order)
    PROVE  /\ Classes \in Seq(AllClasses) /\ Len(Classes) = Len(book) /\ Len(book) \in Nat
           /\ \A id \in 1..Len(book) : Classes[id] = StatusClass(book[id].status)
<1>1. Len(book) \in Nat
  OBVIOUS
<1>2. Classes \in [1..Len(book) -> AllClasses]
  BY ClassOf DEF Classes
<1>3. Classes \in Seq(AllClasses)
  BY <1>1, <1>2, SeqDef
<1>4. Len(Classes) = Len(book)
  BY <1>1, <1>2, <1>3, LenProperties
<1> QED
  BY <1>1, <1>3, <1>4 DEF Classes

(* An order that arrives is one more live order.                           *)
LEMMA ClassesAppend ==
    ASSUME book \in Seq(Order), NEW o \in Order, o.status \in Live, book' = Append(book, o)
    PROVE  Classes' = Append(Classes, "LIVE")
<1>1. /\ Classes \in Seq(AllClasses) /\ Len(Classes) = Len(book) /\ Len(book) \in Nat
      /\ \A id \in 1..Len(book) : Classes[id] = StatusClass(book[id].status)
  BY ClassesSeq
<1>2. book' \in Seq(Order) /\ Len(book') = Len(book) + 1
  OBVIOUS
<1>3. Classes' = [id \in 1..Len(book') |-> StatusClass(book'[id].status)]
  BY DEF Classes, StatusClass, Live
<1>4. \A id \in 1..Len(book') : StatusClass(book'[id].status) \in AllClasses
  BY ClassOf
<1>5. Classes' \in [1..Len(book') -> AllClasses]
  BY <1>3, <1>4
<1>6. Classes' \in Seq(AllClasses) /\ Len(Classes') = Len(book) + 1
  BY <1>1, <1>2, <1>5, SeqDef, LenProperties
<1>7. /\ Append(Classes, "LIVE") \in Seq(AllClasses)
      /\ Len(Append(Classes, "LIVE")) = Len(book) + 1
      /\ \A id \in 1..Len(book) : Append(Classes, "LIVE")[id] = Classes[id]
      /\ Append(Classes, "LIVE")[Len(book) + 1] = "LIVE"
  BY <1>1, AppendProperties DEF AllClasses
<1>8. \A id \in 1..Len(book) : book'[id] = book[id]
  OBVIOUS
<1>9. book'[Len(book) + 1] = o
  OBVIOUS
<1>10. ASSUME NEW id \in 1..(Len(book) + 1)
       PROVE  Classes'[id] = Append(Classes, "LIVE")[id]
  <2>1. CASE id = Len(book) + 1
    BY <1>2, <1>3, <1>7, <1>9, <2>1, ClassOf
  <2>2. CASE id \in 1..Len(book)
    BY <1>1, <1>2, <1>3, <1>7, <1>8, <2>2
  <2> QED
    BY <1>1, <2>1, <2>2
<1> QED
  BY <1>6, <1>7, <1>10, SeqEqual

(* A new status changes the class of that order alone.                     *)
LEMMA ClassesChange ==
    ASSUME book \in Seq(Order), NEW k \in 1..Len(book), NEW status,
           book' = [book EXCEPT ![k].status = status]
    PROVE  Classes' = [Classes EXCEPT ![k] = StatusClass(status)]
<1>1. Classes' = [id \in 1..Len(book') |-> StatusClass(book'[id].status)]
  BY DEF Classes, StatusClass, Live
<1>2. book' = [book EXCEPT ![k] = [book[k] EXCEPT !.status = status]]
  OBVIOUS
<1>3. /\ DOMAIN book = 1..Len(book) /\ Len(book) \in Nat
      /\ \A id \in 1..Len(book) : id # k => book'[id] = book[id]
  BY <1>2
<1>4. Len(book') = Len(book)
  BY <1>2, <1>3
<1>5. book'[k].status = status
  <2>1. book[k] \in Order
    BY ElementOfSeq
  <2>2. book'[k] = [book[k] EXCEPT !.status = status]
    BY <1>2, <1>3
  <2> QED
    BY <2>1, <2>2 DEF Order
<1> QED
  <2>1. [Classes EXCEPT ![k] = StatusClass(status)] =
           [id \in 1..Len(book) |->
               IF id = k THEN StatusClass(status) ELSE StatusClass(book[id].status)]
    BY DEF Classes
  <2>2. Classes' = [id \in 1..Len(book) |-> StatusClass(book'[id].status)]
    BY <1>1, <1>4
  <2>3. \A id \in 1..Len(book) : StatusClass(book'[id].status) =
               IF id = k THEN StatusClass(status) ELSE StatusClass(book[id].status)
    BY <1>3, <1>5
  <2> QED
    BY <2>1, <2>2, <2>3

(* The session's steps open the broker, or raise while it is not open.     *)
LEMMA SessionSteps ==
    ASSUME AdapterTypeOK, SessionStep
    PROVE  Broker!Open \/ Broker!Raise
<1>0. None \notin Nat
  BY AdapterAssumption
<1>1. None \notin Nat /\ access_token \in Nat /\ issued \in Nat
  BY <1>0 DEF AdapterTypeOK
<1>2. UNCHANGED <<sdk, book>>
  BY DEF SessionStep, Authenticate, GenerateSession, GenerateSessionRaises, RaisesUnopened, Exchange
<1>3. Doing' = Doing /\ Classes' = Classes
  BY <1>2 DEF Doing, Classes, StatusClass, Live
<1>4. CASE Authenticate
  BY <1>1, <1>3, <1>4 DEF Authenticate, Connected, Broker!Open
<1>5. CASE GenerateSession
  <2>1. kite' \in Nat /\ answer' = answer
    BY <1>1, <1>5 DEF GenerateSession
  <2> QED
    BY <1>1, <1>3, <2>1 DEF Connected, Broker!Open
<1>6. CASE GenerateSessionRaises
  BY <1>1, <1>3, <1>6 DEF GenerateSessionRaises, Connected, Broker!Open
<1>7. CASE RaisesUnopened
  BY <1>3, <1>7
  DEF RaisesUnopened, Connected, Raised, Result, Broker!Raise, Broker!Raised, Broker!Result
<1> QED
  BY <1>4, <1>5, <1>6, <1>7 DEF SessionStep

(* So do the steps of a call, one by one.                                  *)
LEMMA CallSteps ==
    ASSUME AdapterTypeOK, CallInv, OrderStep
    PROVE  Broker!BrokerNext
<1>0. /\ book \in Seq(Order) /\ Len(book) \in Nat /\ Len(Classes) = Len(book)
      /\ \A id \in 1..Len(book) : Classes[id] = StatusClass(book[id].status)
      /\ None \notin Calls /\ None \notin [op: {"place"}, id: Nat]
      /\ sdk \in Calls \cup {None}
  BY ClassesSeq, AdapterAssumption DEF AdapterTypeOK
<1>a. UNCHANGED book => Classes' = Classes
  BY DEF Classes, StatusClass, Live
<1>b. UNCHANGED kite => Connected' = Connected
  BY DEF Connected
<1>c. sdk # None /\ sdk.op = "place" =>
         /\ sdk.id \in Nat /\ sdk.type \in OrderTypes
         /\ sdk = [op |-> "place", type |-> sdk.type, id |-> sdk.id]
         /\ Doing = [op |-> "place", id |-> sdk.id] /\ Doing # None
  BY <1>0 DEF Calls, Doing
<1>d. sdk # None /\ sdk.op = "cancel" =>
         /\ sdk.id \in 1..Len(book) /\ sdk.done \in BOOLEAN
         /\ sdk = [op |-> "cancel", id |-> sdk.id, done |-> sdk.done]
         /\ Doing = sdk
  BY <1>0 DEF Calls, Doing, CallInv
<1>e. (sdk = None => Doing = None) /\ (sdk' = None => Doing' = None)
  BY DEF Doing
<1>1. ASSUME NEW type \in OrderTypes, PlaceOrder(type)
      PROVE  Broker!BeginPlace
  <2>1. sdk' = [op |-> "place", type |-> type, id |-> 0]
    BY <1>1 DEF PlaceOrder, Placing
  <2>2. sdk' \in Calls
    BY <2>1 DEF Calls
  <2>3. Doing' = [op |-> "place", id |-> 0]
    BY <1>0, <2>1, <2>2 DEF Doing
  <2> QED
    BY <1>1, <1>a, <1>b, <1>e, <2>3 DEF PlaceOrder, Free, Frame, Broker!BeginPlace, Broker!Placing
<1>2. CASE ExchangeTakesOrder
  <2>1. PICK status \in Received : book' = Append(book, [type |-> sdk.type, status |-> status])
    BY <1>2 DEF ExchangeTakesOrder
  <2>2. Classes' = Append(Classes, "LIVE")
    <3>1. [type |-> sdk.type, status |-> status] \in Order
      BY <1>2, <1>c DEF ExchangeTakesOrder, Order, OrderStatuses, Live
    <3> QED
      BY <1>0, <2>1, <3>1, ClassesAppend DEF Live
  <2>3. sdk' = [op |-> "place", type |-> sdk.type, id |-> Len(book) + 1]
    BY <1>2, <1>c DEF ExchangeTakesOrder
  <2>4. Doing' = [op |-> "place", id |-> Len(Classes) + 1]
    <3>1. sdk' \in Calls
      BY <1>0, <1>2, <1>c, <2>3 DEF ExchangeTakesOrder, Calls
    <3> QED
      BY <1>0, <2>3, <3>1 DEF Doing
  <2>5. Doing = [op |-> "place", id |-> 0]
    BY <1>2, <1>c DEF ExchangeTakesOrder
  <2>6. Broker!TakePlace
    BY <1>2, <1>b, <2>2, <2>4, <2>5
    DEF ExchangeTakesOrder, Frame, Broker!TakePlace, Broker!Placing
  <2> QED
    BY <2>6 DEF Broker!BrokerNext
<1>3. CASE PlaceAnswered \/ PlaceFails
  <2>1. sdk # None /\ sdk.op = "place" /\ sdk' = None /\ UNCHANGED <<kite, book>>
    BY <1>3 DEF PlaceAnswered, PlaceFails, Frame
  <2>2. Broker!Answer
    BY <1>3, <1>a, <1>b, <1>c, <1>e, <2>1
    DEF PlaceAnswered, PlaceFails, Result, Broker!Answer, Broker!Result
  <2> QED
    BY <2>2 DEF Broker!BrokerNext
<1>4. ASSUME NEW id \in 1..Len(book), CancelOrder(id)
      PROVE  Broker!BeginCancel(id)
  <2>1. sdk' = [op |-> "cancel", id |-> id, done |-> FALSE]
    BY <1>4 DEF CancelOrder, Cancelling
  <2>2. Doing' = [op |-> "cancel", id |-> id, done |-> FALSE]
    BY <2>1 DEF Doing
  <2> QED
    BY <1>4, <1>a, <1>b, <1>e, <2>2
    DEF CancelOrder, Free, Frame, Broker!BeginCancel, Broker!Cancelling
<1>5. CASE ExchangeCancels
  <2>1. /\ sdk.id \in 1..Len(book) /\ sdk.done = FALSE
        /\ sdk = [op |-> "cancel", id |-> sdk.id, done |-> FALSE]
        /\ Doing = sdk /\ sdk # None
    BY <1>5, <1>d DEF ExchangeCancels
  <2>2. sdk' = [op |-> "cancel", id |-> sdk.id, done |-> TRUE]
    BY <1>5, <2>1 DEF ExchangeCancels
  <2>3. Doing' = [op |-> "cancel", id |-> sdk.id, done |-> TRUE]
    BY <2>2 DEF Doing
  <2>4. Classes' = [Classes EXCEPT ![sdk.id] = "CANCELLED"] /\ Classes[sdk.id] = "LIVE"
    <3>1. Classes' = [Classes EXCEPT ![sdk.id] = StatusClass("CANCELLED")]
      BY <1>0, <1>5, <2>1, ClassesChange DEF ExchangeCancels
    <3>2. book[sdk.id].status \in Live
      BY <1>5 DEF ExchangeCancels
    <3> QED
      BY <1>0, <2>1, <3>1, <3>2, ClassOf
  <2>5. UNCHANGED <<kite, answer>>
    BY <1>5 DEF ExchangeCancels, Frame
  <2>6. Doing # None /\ Doing.op = "cancel" /\ Doing.id = sdk.id
    BY <2>1
  <2>7. Doing = [op |-> "cancel", id |-> Doing.id, done |-> FALSE]
    BY <2>1
  <2>8. Broker!TakeCancel
    BY <1>b, <2>3, <2>4, <2>5, <2>6, <2>7 DEF Broker!TakeCancel, Broker!Cancelling
  <2> QED
    BY <2>8 DEF Broker!BrokerNext
<1>6. CASE CancelAnswered \/ CancelFails
  <2>1. sdk # None /\ sdk.op = "cancel" /\ sdk' = None /\ UNCHANGED <<kite, book>>
    BY <1>6 DEF CancelAnswered, CancelFails, CancelEnds, Frame
  <2>2. Broker!Answer
    BY <1>6, <1>a, <1>b, <1>d, <1>e, <2>1
    DEF CancelAnswered, CancelFails, CancelEnds, Result, Broker!Answer, Broker!Result
  <2> QED
    BY <2>2 DEF Broker!BrokerNext
<1> QED
  BY <1>0, <1>1, <1>2, <1>3, <1>4, <1>5, <1>6 DEF OrderStep, Broker!BrokerNext

(* cancel_all_orders is seen as its cancellations, or as a failed listing. *)
LEMMA BatchSteps ==
    ASSUME AdapterTypeOK, BatchInv, BatchStep
    PROVE  Broker!BrokerNext \/ UNCHANGED Broker!brokerVars
<1>0. Len(Classes) = Len(book)
  BY ClassesSeq DEF AdapterTypeOK
<1>1. UNCHANGED <<kite, book>>
  BY DEF BatchStep, CancelAllLists, CancelAllRaises, CancelNext, CancelAllReturns, Frame, Exchange
<1>2. Connected' = Connected /\ Classes' = Classes
  BY <1>1 DEF Connected, Classes, StatusClass, Live
<1>3. CASE CancelNext
  <2>1. PICK id \in batch.todo : sdk' = Cancelling(id, FALSE)
    BY <1>3 DEF CancelNext
  <2>2. id \in 1..Len(Classes) /\ Connected /\ sdk = None /\ answer' = answer
    BY <1>0, <1>3, <2>1 DEF CancelNext, BatchInv, Connected
  <2>3. Doing' = [op |-> "cancel", id |-> id, done |-> FALSE]
    BY <2>1 DEF Doing, Cancelling
  <2>4. Broker!BeginCancel(id)
    BY <1>2, <2>2, <2>3 DEF Doing, Broker!BeginCancel, Broker!Cancelling
  <2> QED
    BY <2>2, <2>4 DEF Broker!BrokerNext
<1>4. CASE CancelAllRaises
  <2>1. Broker!ListingFails
    BY <1>2, <1>4
    DEF CancelAllRaises, Free, Doing, NotListed, Result, Broker!ListingFails, Broker!NotListed,
        Broker!Result
  <2> QED
    BY <2>1 DEF Broker!BrokerNext
<1>5. CASE CancelAllLists \/ CancelAllReturns
  BY <1>2, <1>5 DEF CancelAllLists, CancelAllReturns, Doing, Broker!brokerVars
<1> QED
  BY <1>3, <1>4, <1>5 DEF BatchStep

(* The exchange's own steps bring orders or complete them.                 *)
LEMMA ExchangeSteps ==
    ASSUME AdapterTypeOK, ExchangeStep
    PROVE  Broker!BrokerNext \/ UNCHANGED Broker!brokerVars
<1>0. /\ book \in Seq(Order) /\ Len(Classes) = Len(book)
      /\ \A id \in 1..Len(book) : Classes[id] = StatusClass(book[id].status)
      /\ DOMAIN Classes = 1..Len(book)
  BY ClassesSeq DEF AdapterTypeOK, Classes
<1>1. UNCHANGED <<kite, sdk, answer>>
  BY DEF ExchangeStep, ExchangeOpens, ExchangeTriggers, ExchangeFills, OthersCancel, Moves,
         OwnerPlaces, TokenExpires, World
<1>2. Connected' = Connected /\ Doing' = Doing
  BY <1>1 DEF Connected, Doing
<1>3. ASSUME NEW id \in 1..Len(book), book[id].status \in Live,
             NEW status \in {"COMPLETE", "REJECTED", "CANCELLED"} \cup Live,
             book' = [book EXCEPT ![id].status = status]
      PROVE  Broker!BrokerNext \/ UNCHANGED Broker!brokerVars
  <2>1. Classes' = [Classes EXCEPT ![id] = StatusClass(status)] /\ Classes[id] = "LIVE"
    BY <1>0, <1>3, ClassesChange, ClassOf
  <2>2. CASE status \in Live
    <3>1. Classes' = [Classes EXCEPT ![id] = Classes[id]]
      BY <2>1, <2>2, ClassOf
    <3>2. Classes' = Classes
      BY <3>1 DEF Classes
    <3> QED
      BY <1>1, <1>2, <3>2 DEF Broker!brokerVars
  <2>3. CASE status \in {"COMPLETE", "REJECTED", "CANCELLED"}
    <3>1. PICK end \in {"DONE", "CANCELLED"} : Classes' = [Classes EXCEPT ![id] = end]
      BY <2>1, <2>3, ClassOf
    <3>2. Broker!Completes
      BY <1>0, <1>1, <1>2, <1>3, <2>1, <3>1 DEF Broker!Completes
    <3> QED
      BY <3>2 DEF Broker!BrokerNext
  <2> QED
    BY <2>2, <2>3
<1>4. CASE ExchangeOpens \/ ExchangeTriggers \/ ExchangeFills \/ OthersCancel
  BY <1>3, <1>4 DEF ExchangeOpens, ExchangeTriggers, ExchangeFills, OthersCancel, Moves, Live
<1>5. CASE OwnerPlaces
  <2>1. PICK type \in OrderTypes, status \in Received :
           book' = Append(book, [type |-> type, status |-> status])
    BY <1>5 DEF OwnerPlaces
  <2>2. [type |-> type, status |-> status] \in Order
    BY DEF Order, OrderStatuses, Live
  <2>3. Classes' = Append(Classes, "LIVE")
    BY <1>0, <2>1, <2>2, ClassesAppend DEF Live
  <2>4. Broker!OtherOrder
    BY <1>1, <1>2, <2>3 DEF Broker!OtherOrder
  <2> QED
    BY <2>4 DEF Broker!BrokerNext
<1>6. CASE TokenExpires
  <2>1. Classes' = Classes
    BY <1>6 DEF TokenExpires, Classes, StatusClass, Live
  <2> QED
    BY <1>1, <1>2, <2>1 DEF Broker!brokerVars
<1> QED
  BY <1>4, <1>5, <1>6 DEF ExchangeStep

(* The adapter implements what its callers rely on.                        *)
THEOREM AdapterImplementsBroker == AdapterSpec => ImplementsBroker
<1>1. AdapterInit => Broker!BrokerInit
  <2> SUFFICES ASSUME AdapterInit PROVE Broker!BrokerInit
    OBVIOUS
  <2>1. kite = None /\ sdk = None /\ answer = None /\ book = <<>>
    BY DEF AdapterInit
  <2>2. Classes = <<>>
    BY <2>1 DEF Classes
  <2> QED
    BY <2>1, <2>2 DEF Connected, Doing, Broker!BrokerInit
<1>2. ASSUME AdapterInv, [AdapterNext]_adapterVars
      PROVE  [Broker!BrokerNext]_(Broker!brokerVars)
  <2>1. AdapterTypeOK /\ CallInv /\ BatchInv
    BY <1>2 DEF AdapterInv
  <2>2. CASE UNCHANGED adapterVars
    BY <2>2 DEF adapterVars, Broker!brokerVars, Connected, Doing, Classes, StatusClass, Live
  <2>3. CASE SessionStep
    BY <2>1, <2>3, SessionSteps DEF Broker!BrokerNext
  <2>4. CASE OrderStep
    BY <2>1, <2>4, CallSteps
  <2>5. CASE BatchStep \/ ExchangeStep
    BY <2>1, <2>5, BatchSteps, ExchangeSteps
  <2> QED
    BY <1>2, <2>2, <2>3, <2>4, <2>5 DEF AdapterNext
<1> QED
  BY <1>1, <1>2, AdapterInvHolds, PTL DEF AdapterSpec, ImplementsBroker, Broker!BrokerSpec
=============================================================================
