-------------------------- MODULE MarketDataProofs --------------------------
(***************************************************************************)
(* The two keepers of market data.  The ticker manager: what holds of the  *)
(* subscriptions for every set of tokens, every number of connections and  *)
(* lost links, and every interleaving of the caller's thread with those of *)
(* the connections.  The candle cache: what is dropped and what is kept,   *)
(* for every set of instruments, every limit and every sequence of calls.  *)
(***************************************************************************)
EXTENDS TickerManager, OHLCVCache, DataLemmas

(* The callbacks that may be due: no more than one round of them, for a    *)
(* connection opens again only when none is.                               *)
Dues == {<<>>, <<"connect">>, <<"close">>, <<"connect", "close">>}

Connection ==
    [link: {"down", "up", "stopped", "dead"},
     streamed: SUBSET Tokens,
     due: Dues,
     resubscribing: {None} \cup SUBSET Tokens]

Subscribing == [pc: {"subscribe", "sent"}, todo: Seq(Tokens), current_subs: Nat]
Unsubscribing == [pc: {"unsubscribed"}, tokens: SUBSET Tokens]

TickerTypeOK ==
    /\ connections \in Seq(Connection)
    /\ current \in 0..Len(connections)
    /\ subscriptions \in SUBSET Tokens
    /\ connected \in BOOLEAN
    /\ main \in {Idle} \cup Subscribing \cup Unsubscribing

(* The callbacks due end with what the link did last, and a link that is   *)
(* not up streams nothing.                                                 *)
Shape(x) ==
    /\ x.link = "up" => x.due \in {<<>>, <<"connect">>}
    /\ x.due = <<"connect">> => x.link = "up"
    /\ x.link # "up" => x.streamed = {}
    /\ x.resubscribing # None => x.due \in {<<>>, <<"close">>}

Shapes == \A c \in 1..Len(connections) : Shape(connections[c])

(* current_subs is the number of subscriptions, although it is read once   *)
(* and counted on beside it; what was sent is not yet recorded.            *)
SubsInv ==
    /\ Cardinality(subscriptions) <= MaxSubs
    /\ main \in Subscribing => main.current_subs = Cardinality(subscriptions)
    /\ main.pc = "sent" =>
           /\ main.todo # <<>> /\ Head(main.todo) \notin subscriptions
           /\ main.current_subs < MaxSubs

(* Of the first connection, once no callback is due, the flag tells the    *)
(* link; stop() is the only way to have none afterwards.                   *)
FlagInv ==
    /\ connections = <<>> => ~connected
    /\ Len(connections) = 1 =>
           /\ connections[1].due = <<>> => connected = (connections[1].link = "up")
           /\ current = 0 => connections[1].link = "stopped"

(* What is recorded, but for the step between sending and recording.       *)
Sent ==
    CASE main.pc = "sent" -> subscriptions \cup {Head(main.todo)}
      [] main.pc = "unsubscribed" -> subscriptions \ main.tokens
      [] OTHER -> subscriptions

(* The connection in use streams nothing before the callback, afterwards   *)
(* what is recorded.                                                       *)
Streams(x, S, expected) ==
    /\ x.due = <<"connect">> => x.streamed = {}
    /\ x.resubscribing # None => x.resubscribing = S /\ x.streamed = {}
    /\ x.due = <<>> /\ x.resubscribing = None => x.streamed = expected

(* While nothing crossed no callback is due or running beside a call.      *)
StreamInv ==
    ~crossed =>
        /\ ~Overlap
        /\ IsUp => Streams(connections[current], subscriptions, Sent)
-----------------------------------------------------------------------------
(* The callbacks due when one more comes, and when the first is taken.     *)
LEMMA DueSteps ==
    /\ Append(<<>>, "close") = <<"close">>
    /\ Append(<<"connect">>, "close") = <<"connect", "close">>
    /\ Tail(<<"connect">>) = <<>> /\ Tail(<<"close">>) = <<>>
    /\ Tail(<<"connect", "close">>) = <<"close">>
    /\ Head(<<"connect">>) = "connect" /\ Head(<<"close">>) = "close"
    /\ Head(<<"connect", "close">>) = "connect"
    /\ <<"connect">> # <<>> /\ <<"close">> # <<>> /\ <<"connect", "close">> # <<>>
    /\ <<"connect">> # <<"close">> /\ <<"connect", "close">> # <<"connect">>
    /\ <<"connect", "close">> # <<"close">>
<1>1. Append(<<"connect">>, "close") = <<"connect", "close">>
  <2> DEFINE C == {"connect", "close"}
  <2>1. <<"connect">> \in Seq(C) /\ <<"connect", "close">> \in Seq(C)
    OBVIOUS
  <2>2. /\ Append(<<"connect">>, "close") \in Seq(C)
        /\ Len(Append(<<"connect">>, "close")) = 2
        /\ Append(<<"connect">>, "close")[1] = "connect"
        /\ Append(<<"connect">>, "close")[2] = "close"
    <3>1. Len(<<"connect">>) = 1 /\ <<"connect">>[1] = "connect" /\ "close" \in C
      OBVIOUS
    <3> HIDE DEF C
    <3> QED
      BY <2>1, <3>1, AppendProperties
  <2>3. Len(<<"connect", "close">>) = 2
    OBVIOUS
  <2>4. \A i \in 1..2 : Append(<<"connect">>, "close")[i] = <<"connect", "close">>[i]
    BY <2>2
  <2> HIDE DEF C
  <2> QED
    BY <2>1, <2>2, <2>3, <2>4, SeqEqual
<1> QED
  BY <1>1

(* One connection changes and the others do not.                           *)
LEMMA Updated ==
    ASSUME connections \in Seq(Connection), Shapes, NEW c \in 1..Len(connections),
           NEW x \in Connection, Shape(x), connections' = [connections EXCEPT ![c] = x]
    PROVE  /\ connections' \in Seq(Connection) /\ Len(connections') = Len(connections)
           /\ Shapes'
           /\ connections'[c] = x
           /\ \A d \in 1..Len(connections) : d # c => connections'[d] = connections[d]
<1>1. /\ connections' \in Seq(Connection) /\ Len(connections') = Len(connections)
      /\ connections'[c] = x
      /\ \A d \in 1..Len(connections) : d # c => connections'[d] = connections[d]
  OBVIOUS
<1> QED
  BY <1>1 DEF Shapes, Shape

(* What the step of a connection's thread makes of the connection.         *)
ThreadMakes(c, y, x) ==
    /\ connections' = [connections EXCEPT ![c] = x]
    /\ UNCHANGED <<current, subscriptions, main>>
    /\ \/ /\ y.link = "down" /\ y.due = <<>> /\ y.resubscribing = None
          /\ x = [y EXCEPT !.link = "up", !.due = <<"connect">>]
          /\ UNCHANGED connected
       \/ /\ y.link = "up"
          /\ x = [y EXCEPT !.link = "down", !.streamed = {}, !.due = Append(@, "close")]
          /\ UNCHANGED connected
       \/ /\ y.link = "down" /\ y.due = <<>>
          /\ x = [y EXCEPT !.link = "dead"]
          /\ connected' = FALSE
       \/ /\ y.resubscribing = None /\ y.due \in {<<"connect">>, <<"connect", "close">>}
          /\ x = [y EXCEPT !.due = Tail(@),
                           !.resubscribing = IF subscriptions = {} THEN None ELSE subscriptions]
          /\ connected' = TRUE
       \/ /\ y.resubscribing # None
          /\ x = [y EXCEPT !.resubscribing = None,
                           !.streamed = IF y.link = "up" THEN @ \cup y.resubscribing ELSE @]
          /\ UNCHANGED connected
       \/ /\ y.resubscribing = None /\ y.due = <<"close">>
          /\ x = [y EXCEPT !.due = <<>>]
          /\ connected' = FALSE

(* What a step of a connection's thread makes of that connection.          *)
LEMMA ThreadSteps ==
    ASSUME TickerTypeOK, Shapes, NEW c \in 1..Len(connections), Thread(c)
    PROVE  \E x \in Connection : Shape(x) /\ ThreadMakes(c, connections[c], x)
<1> DEFINE y == connections[c]
<1>0. y \in Connection /\ Shape(y) /\ connections \in Seq(Connection) /\ subscriptions \in SUBSET Tokens
  BY ElementOfSeq DEF TickerTypeOK, Shapes
<1>1. y.due \in Dues
  BY <1>0 DEF Connection
<1> HIDE DEF y
<1>2. CASE Opens(c)
  <2> DEFINE x == [y EXCEPT !.link = "up", !.due = <<"connect">>]
  <2>1. y.link = "down" /\ y.due = <<>> /\ y.resubscribing = None
    BY <1>2 DEF Opens, CallingBack, y
  <2>2. x \in Connection /\ Shape(x)
    BY <1>0, <2>1 DEF Connection, Dues, Shape
  <2>3. connections' = [connections EXCEPT ![c] = x]
    BY <1>2 DEF Opens, y
  <2> QED
    BY <1>2, <2>1, <2>2, <2>3 DEF Opens, ThreadMakes, y
<1>3. CASE Drops(c)
  <2> DEFINE x == [y EXCEPT !.link = "down", !.streamed = {}, !.due = Append(@, "close")]
  <2>1. y.link = "up" /\ y.due \in {<<>>, <<"connect">>}
    BY <1>0, <1>3 DEF Drops, Shape, y
  <2>2. x.due \in Dues /\ x.due # <<"connect">>
    BY <1>0, <2>1, DueSteps DEF Dues, Connection
  <2>3. x \in Connection /\ Shape(x)
    BY <1>0, <2>1, <2>2, DueSteps DEF Connection, Shape
  <2> QED
    BY <1>3, <2>1, <2>3 DEF Drops, ThreadMakes, y
<1>4. CASE GivesUp(c)
  <2> DEFINE x == [y EXCEPT !.link = "dead"]
  <2>1. y.link = "down" /\ y.due = <<>>
    BY <1>4 DEF GivesUp, CallingBack, y
  <2>2. x \in Connection /\ Shape(x)
    BY <1>0, <2>1 DEF Connection, Shape
  <2>3. connections' = [connections EXCEPT ![c] = x]
    BY <1>4 DEF GivesUp, y
  <2> QED
    BY <1>4, <2>1, <2>2, <2>3 DEF GivesUp, ThreadMakes, y
<1>5. CASE OnConnect(c)
  <2> DEFINE r == IF subscriptions = {} THEN None ELSE subscriptions
             x == [y EXCEPT !.due = Tail(@), !.resubscribing = r]
  <2>1. y.resubscribing = None /\ y.due \in {<<"connect">>, <<"connect", "close">>}
    BY <1>1, <1>5, DueSteps DEF OnConnect, Due, Dues, y
  <2>2. Tail(y.due) \in {<<>>, <<"close">>}
    BY <2>1, DueSteps
  <2>3. r \in {None} \cup SUBSET Tokens
    BY <1>0
  <2>4. x \in Connection /\ Shape(x)
    <3>1. x.due \in {<<>>, <<"close">>} /\ x.due # <<"connect">>
      BY <1>0, <2>2, DueSteps DEF Connection
    <3>2. y.due = <<"connect", "close">> => y.link # "up"
      BY <1>0, DueSteps DEF Shape
    <3>3. x.link = y.link /\ x.streamed = y.streamed
      BY <1>0 DEF Connection
    <3>4. x \in Connection
      BY <1>0, <2>2, <2>3 DEF Connection, Dues
    <3>5. x.link = "up" => x.due = <<>>
      BY <1>0, <2>1, <3>2, <3>3, DueSteps DEF Connection
    <3> QED
      BY <1>0, <3>1, <3>3, <3>4, <3>5 DEF Shape
  <2> HIDE DEF x
  <2>5. connections' = [connections EXCEPT ![c] = x]
    BY <1>5 DEF OnConnect, x, y
  <2> QED
    BY <1>5, <2>1, <2>4, <2>5 DEF OnConnect, ThreadMakes, x, y
<1>6. CASE Resubscribes(c)
  <2> DEFINE x == [y EXCEPT !.resubscribing = None,
                            !.streamed = IF y.link = "up" THEN @ \cup y.resubscribing ELSE @]
  <2>1. y.resubscribing # None /\ y.resubscribing \in SUBSET Tokens
    BY <1>0, <1>6 DEF Resubscribes, Connection, y
  <2>2. x \in Connection /\ Shape(x)
    BY <1>0, <2>1 DEF Connection, Shape
  <2>3. connections' = [connections EXCEPT ![c] = x]
    BY <1>6 DEF Resubscribes, y
  <2> QED
    BY <1>6, <2>1, <2>2, <2>3 DEF Resubscribes, ThreadMakes, y
<1>7. CASE OnClose(c)
  <2> DEFINE x == [y EXCEPT !.due = <<>>]
  <2>1. y.resubscribing = None /\ y.due = <<"close">>
    BY <1>1, <1>7, DueSteps DEF OnClose, Due, Dues, y
  <2>2. x \in Connection /\ Shape(x)
    BY <1>0, <2>1, DueSteps DEF Connection, Dues, Shape
  <2>3. connections' = [connections EXCEPT ![c] = x]
    BY <1>7, <2>1, DueSteps DEF OnClose, y
  <2> QED
    BY <1>7, <2>1, <2>2, <2>3 DEF OnClose, ThreadMakes, y
<1> QED
  BY <1>2, <1>3, <1>4, <1>5, <1>6, <1>7 DEF Thread, Callback

(* What the caller's thread makes of the connection in use.                *)
NewConnection == [link |-> "down", streamed |-> {}, due |-> <<>>, resubscribing |-> None]

(* start() adds a new connection and leaves the others alone.              *)
LEMMA StartSteps ==
    ASSUME TickerTypeOK, Shapes, Start
    PROVE  /\ connections' \in Seq(Connection) /\ Len(connections') = Len(connections) + 1
           /\ Len(connections) \in Nat
           /\ Shapes'
           /\ connections'[Len(connections) + 1] = NewConnection
           /\ \A d \in 1..Len(connections) : connections'[d] = connections[d]
<1>1. NewConnection \in Connection /\ Shape(NewConnection)
  BY DueSteps DEF NewConnection, Connection, Dues, Shape
<1>2. connections' = Append(connections, NewConnection) /\ connections \in Seq(Connection)
  BY DEF Start, NewConnection, TickerTypeOK
<1>3. /\ connections' \in Seq(Connection) /\ Len(connections') = Len(connections) + 1
      /\ connections'[Len(connections) + 1] = NewConnection
      /\ \A d \in 1..Len(connections) : connections'[d] = connections[d]
      /\ Len(connections) \in Nat
  BY <1>1, <1>2
<1>4. ASSUME NEW d \in 1..Len(connections')
      PROVE  Shape(connections'[d])
  BY <1>1, <1>3 DEF Shapes
<1> QED
  BY <1>3, <1>4 DEF Shapes, Shape

StopMakes(y, x) ==
    /\ connections' = [connections EXCEPT ![current] = x]
    /\ x = [y EXCEPT !.link = "stopped", !.streamed = {},
                     !.due = IF y.link = "up" THEN Append(@, "close") ELSE @]

(* What stop() makes of the current connection.                            *)
LEMMA StopSteps ==
    ASSUME TickerTypeOK, Shapes, Stop, current # 0
    PROVE  \E x \in Connection : Shape(x) /\ StopMakes(connections[current], x)
<1> DEFINE y == connections[current]
           x == [y EXCEPT !.link = "stopped", !.streamed = {},
                          !.due = IF y.link = "up" THEN Append(@, "close") ELSE @]
<1>0. y \in Connection /\ Shape(y)
  BY ElementOfSeq DEF TickerTypeOK, Shapes
<1> HIDE DEF y
<1>1. CASE y.link = "up"
  <2>1. x.due \in Dues /\ x.due # <<"connect">>
    BY <1>0, <1>1, DueSteps DEF Dues, Connection, Shape
  <2>2. x \in Connection /\ Shape(x)
    BY <1>0, <1>1, <2>1, DueSteps DEF Connection, Shape, Dues
  <2> QED
    BY ZenonT(30), <2>2 DEF Stop, StopMakes, y
<1>2. CASE y.link # "up"
  <2>1. x.due = y.due /\ x.due # <<"connect">>
    BY <1>0, <1>2 DEF Connection, Shape
  <2>2. x \in Connection /\ Shape(x)
    BY <1>0, <1>2, <2>1 DEF Connection, Shape
  <2> QED
    BY ZenonT(30), <2>2 DEF Stop, StopMakes, y
<1> QED
  BY <1>1, <1>2

(* The tokens a message on a link that is up leaves streamed.              *)
SendMakes(y, x, T) ==
    /\ y.link = "up" /\ T \in SUBSET Tokens
    /\ x = [y EXCEPT !.streamed = T]
    /\ connections' = [connections EXCEPT ![current] = x]

(* What sending makes of the current connection.                           *)
LEMMA SendSteps ==
    ASSUME TickerTypeOK, Shapes, IsUp, NEW T \in SUBSET Tokens,
           connections' = [connections EXCEPT ![current].streamed = T]
    PROVE  /\ current \in 1..Len(connections)
           /\ \E x \in Connection : Shape(x) /\ SendMakes(connections[current], x, T)
<1> DEFINE y == connections[current]
           x == [y EXCEPT !.streamed = T]
<1>0. y \in Connection /\ Shape(y) /\ y.link = "up" /\ current \in 1..Len(connections)
  BY ElementOfSeq DEF TickerTypeOK, Shapes, IsUp
<1> HIDE DEF y
<1>1. x \in Connection /\ Shape(x)
  BY <1>0 DEF Connection, Shape
<1>2. connections' = [connections EXCEPT ![current] = x]
  BY DEF y
<1> QED
  BY <1>0, <1>1, <1>2 DEF SendMakes, y
-----------------------------------------------------------------------------
(* The step of either thread, by what it does to the connections.          *)
LEMMA ConnectionsKept ==
    ASSUME TickerTypeOK, Shapes, [TickerNext]_tickerVars
    PROVE  connections' \in Seq(Connection) /\ Len(connections') >= Len(connections) /\ Shapes'
<1>0. connections \in Seq(Connection) /\ Len(connections) \in Nat
  BY DEF TickerTypeOK
<1>1. CASE UNCHANGED connections
  BY <1>0, <1>1 DEF Shapes, Shape
<1>2. ASSUME NEW c \in 1..Len(connections), Thread(c)
      PROVE  connections' \in Seq(Connection) /\ Len(connections') >= Len(connections) /\ Shapes'
  <2>1. PICK x \in Connection : Shape(x) /\ connections' = [connections EXCEPT ![c] = x]
    BY <1>2, ThreadSteps DEF ThreadMakes
  <2>2. connections' \in Seq(Connection) /\ Len(connections') = Len(connections) /\ Shapes'
    BY <1>0, <2>1, Updated
  <2> QED
    BY <1>0, <2>2
<1>3. CASE Start
  BY <1>0, <1>3, StartSteps
<1>4. CASE Stop
  <2>1. CASE current # 0
    <3>1. PICK x \in Connection : Shape(x) /\ connections' = [connections EXCEPT ![current] = x]
      BY <1>4, <2>1, StopSteps DEF StopMakes
    <3>2. current \in 1..Len(connections)
      BY <2>1 DEF TickerTypeOK
    <3>3. connections' \in Seq(Connection) /\ Len(connections') = Len(connections) /\ Shapes'
      BY <1>0, <3>1, <3>2, Updated
    <3> QED
      BY <1>0, <3>3
  <2> QED
    BY <1>1, <1>4, <2>1 DEF Stop
<1>5. ASSUME NEW T \in SUBSET Tokens, IsUp, connections' = [connections EXCEPT ![current].streamed = T]
      PROVE  connections' \in Seq(Connection) /\ Len(connections') >= Len(connections) /\ Shapes'
  <2>1. PICK x \in Connection : Shape(x) /\ connections' = [connections EXCEPT ![current] = x]
    BY <1>5, SendSteps DEF SendMakes
  <2>2. current \in 1..Len(connections)
    BY <1>5 DEF IsUp, TickerTypeOK
  <2>3. connections' \in Seq(Connection) /\ Len(connections') = Len(connections) /\ Shapes'
    BY <1>0, <2>1, <2>2, Updated
  <2> QED
    BY <1>0, <2>3
<1>6. ASSUME NEW t \in Tokens, SubscribeSends(t)
      PROVE  connections' \in Seq(Connection) /\ Len(connections') >= Len(connections) /\ Shapes'
  <2>1. IsUp /\ current \in 1..Len(connections)
    BY <1>6 DEF SubscribeSends, IsUp, TickerTypeOK
  <2>2. connections[current] \in Connection
    BY <1>0, <2>1, ElementOfSeq
  <2>3. connections[current].streamed \cup {t} \in SUBSET Tokens
    BY <2>2 DEF Connection
  <2>4. connections' = [connections EXCEPT ![current].streamed = connections[current].streamed \cup {t}]
    BY <1>6 DEF SubscribeSends
  <2> QED
    BY <1>5, <2>1, <2>3, <2>4
<1>7. ASSUME NEW t \in Tokens, UnsubscribeSends({t})
      PROVE  connections' \in Seq(Connection) /\ Len(connections') >= Len(connections) /\ Shapes'
  <2>1. IsUp /\ current \in 1..Len(connections)
    BY <1>7 DEF UnsubscribeSends, IsUp, TickerTypeOK
  <2>2. connections[current] \in Connection
    BY <1>0, <2>1, ElementOfSeq
  <2>3. connections[current].streamed \ {t} \in SUBSET Tokens
    BY <2>2 DEF Connection
  <2>4. connections' = [connections EXCEPT ![current].streamed = connections[current].streamed \ {t}]
    BY <1>7 DEF UnsubscribeSends
  <2> QED
    BY <1>5, <2>1, <2>3, <2>4
<1> QED
  BY <1>1, <1>2, <1>3, <1>4, <1>6, <1>7
  DEF TickerNext, Main, SubscribeBegins, SubscribeKnown, SubscribeRaises, SubscribeRefused,
      SubscribeRecords, SubscribeEnds, UnsubscribeRecords, tickerVars

(* The calls of the caller's thread: the counter kept beside the set is    *)
(* the number of its elements, whatever the callbacks do meanwhile.        *)
MainTypeOK == subscriptions \in SUBSET Tokens /\ main \in {Idle} \cup Subscribing \cup Unsubscribing

(* Every step keeps the types of the caller's thread and the limit.        *)
LEMMA SubsInductive ==
    ASSUME MainTypeOK, SubsInv, [TickerNext]_tickerVars
    PROVE  MainTypeOK' /\ SubsInv'
<1>0. /\ IsFiniteSet(subscriptions) /\ Cardinality(subscriptions) \in Nat
      /\ IsFiniteSet(Tokens) /\ MaxSubs \in Nat
  BY TickerAssumption, FS_Subset, FS_CardinalityType DEF MainTypeOK
<1>1. CASE UNCHANGED <<subscriptions, main>>
  BY <1>1 DEF MainTypeOK, SubsInv
<1>2. ASSUME NEW tokens \in TokenLists, SubscribeBegins(tokens)
      PROVE  MainTypeOK' /\ SubsInv'
  <2>1. tokens \in Seq(Tokens)
    <3>1. PICK n \in Nat : tokens \in [1..n -> Tokens]
      BY DEF TokenLists
    <3> QED
      BY <3>1, SeqDef
  <2>2. main' = [pc |-> "subscribe", todo |-> tokens, current_subs |-> Cardinality(subscriptions)]
    BY <1>2 DEF SubscribeBegins
  <2>3. main' \in Subscribing /\ main'.pc = "subscribe"
    BY <1>0, <2>1, <2>2 DEF Subscribing
  <2>4. main'.current_subs = Cardinality(subscriptions) /\ subscriptions' = subscriptions
    BY <1>2, <2>2 DEF SubscribeBegins
  <2> QED
    BY <1>0, <2>3, <2>4 DEF MainTypeOK, SubsInv
<1>3. ASSUME main.pc = "subscribe" \/ main.pc = "sent"
      PROVE  main \in Subscribing
  BY <1>3 DEF MainTypeOK, Unsubscribing, Idle
<1>4. ASSUME main \in Subscribing, main.todo # <<>>, NextToken(0), subscriptions' = subscriptions
      PROVE  MainTypeOK' /\ SubsInv'
  <2>1. Tail(main.todo) \in Seq(Tokens)
    BY <1>4 DEF Subscribing
  <2>2. main' \in Subscribing /\ main'.pc = "subscribe" /\ main'.current_subs = main.current_subs
    BY <1>4, <2>1 DEF NextToken, Subscribing
  <2> QED
    BY <1>4, <2>2 DEF MainTypeOK, SubsInv
<1>5. ASSUME NEW t \in Tokens, SubscribeKnown(t) \/ SubscribeRaises(t)
      PROVE  MainTypeOK' /\ SubsInv'
  BY <1>3, <1>4, <1>5 DEF SubscribeKnown, SubscribeRaises, Asked
<1>6. CASE SubscribeRefused
  BY <1>3, <1>4, <1>6 DEF SubscribeRefused
<1>7. ASSUME NEW t \in Tokens, SubscribeSends(t)
      PROVE  MainTypeOK' /\ SubsInv'
  <2>1. main \in Subscribing /\ main' = [main EXCEPT !.pc = "sent"] /\ subscriptions' = subscriptions
    BY <1>3, <1>7 DEF SubscribeSends, Asked
  <2>2. /\ main' \in Subscribing /\ main'.pc = "sent" /\ main'.todo = main.todo
        /\ main'.current_subs = main.current_subs
    BY <2>1 DEF Subscribing
  <2> QED
    BY <1>7, <2>1, <2>2 DEF SubscribeSends, Asked, MayAdd, MainTypeOK, SubsInv
<1>8. CASE SubscribeRecords
  <2>1. main \in Subscribing /\ main.todo # <<>>
    BY <1>3, <1>8 DEF SubscribeRecords, SubsInv
  <2>2. Head(main.todo) \in Tokens /\ Tail(main.todo) \in Seq(Tokens)
    BY <2>1 DEF Subscribing
  <2>3. Cardinality(subscriptions') = Cardinality(subscriptions) + 1
    <3>1. Head(main.todo) \notin subscriptions /\ subscriptions' = subscriptions \cup {Head(main.todo)}
      BY <1>8 DEF SubscribeRecords, SubsInv
    <3> QED
      BY <1>0, <3>1, FS_AddElement
  <2>4. /\ main' \in Subscribing /\ main'.pc = "subscribe"
        /\ main'.current_subs = main.current_subs + 1
    BY <1>8, <2>1, <2>2 DEF SubscribeRecords, NextToken, Subscribing
  <2>5. main.current_subs = Cardinality(subscriptions) /\ main.current_subs < MaxSubs
    BY <1>8, <2>1 DEF SubscribeRecords, SubsInv
  <2>6. subscriptions' \in SUBSET Tokens
    BY <1>8, <2>2 DEF SubscribeRecords, MainTypeOK
  <2> QED
    BY <1>0, <2>3, <2>4, <2>5, <2>6 DEF MainTypeOK, SubsInv
<1>9. CASE SubscribeEnds
  BY <1>9 DEF SubscribeEnds, MainTypeOK, SubsInv, Idle, Subscribing
<1>10. ASSUME NEW t \in Tokens, UnsubscribeSends({t})
       PROVE  MainTypeOK' /\ SubsInv'
  BY <1>10 DEF UnsubscribeSends, MainTypeOK, SubsInv, Subscribing, Unsubscribing
<1>11. CASE UnsubscribeRecords
  <2>1. subscriptions' \subseteq subscriptions /\ main' = Idle
    BY <1>11 DEF UnsubscribeRecords
  <2>2. Cardinality(subscriptions') <= Cardinality(subscriptions)
    BY <1>0, <2>1, FS_Subset
  <2>3. Cardinality(subscriptions') \in Nat
    BY <1>0, <2>1, FS_Subset, FS_CardinalityType
  <2> QED
    BY <1>0, <2>1, <2>2, <2>3 DEF MainTypeOK, SubsInv, Idle, Subscribing
<1>12. ASSUME NEW c \in 1..Len(connections), Thread(c)
       PROVE  UNCHANGED <<subscriptions, main>>
  BY <1>12 DEF Thread, Opens, Drops, GivesUp, Callback, OnConnect, Resubscribes, OnClose
<1> QED
  BY <1>1, <1>2, <1>5, <1>6, <1>7, <1>8, <1>9, <1>10, <1>11, <1>12
  DEF TickerNext, Main, Start, Stop, tickerVars

(* No more than max_subs_per_connection tokens are ever recorded, and none *)
(* is sent beyond it, in whatever order calls and callbacks run: of all    *)
(* the state that subscribe() reads only the caller's own thread writes    *)
(* what the limit rests on.                                                *)
THEOREM SubsWithinLimitHolds == TickerSpec => []SubsWithinLimit
<1>1. TickerInit => MainTypeOK /\ SubsInv
  <2>1. MaxSubs \in Nat
    BY TickerAssumption
  <2> QED
    BY <2>1, FS_EmptySet DEF TickerInit, MainTypeOK, SubsInv, Idle, Subscribing
<1>2. (MainTypeOK /\ SubsInv) /\ [TickerNext]_tickerVars => (MainTypeOK /\ SubsInv)'
  BY SubsInductive
<1>3. MainTypeOK /\ SubsInv => SubsWithinLimit
  <2> SUFFICES ASSUME MainTypeOK, SubsInv
               PROVE  SubsWithinLimit
    OBVIOUS
  <2>1. Cardinality(subscriptions) \in Nat /\ MaxSubs \in Nat
    BY TickerAssumption, FS_Subset, FS_CardinalityType DEF MainTypeOK
  <2>2. main.pc = "sent" => main \in Subscribing
    BY DEF MainTypeOK, Idle, Unsubscribing
  <2> QED
    BY <2>1, <2>2 DEF SubsInv, SubsWithinLimit
<1> QED
  BY <1>1, <1>2, <1>3, PTL DEF TickerSpec

(* The types, that the connections keep their shape, and that the counter  *)
(* of subscribe() is the number of subscriptions.                          *)
THEOREM TickerTypeCorrect == TickerSpec => [](TickerTypeOK /\ Shapes /\ SubsInv)
<1> DEFINE Inv == TickerTypeOK /\ Shapes /\ MainTypeOK /\ SubsInv
<1>1. TickerInit => Inv
  <2> SUFFICES ASSUME TickerInit
               PROVE  Inv
    OBVIOUS
  <2>1. connections \in Seq(Connection) /\ Len(connections) = 0
    BY DEF TickerInit
  <2>2. MaxSubs \in Nat
    BY TickerAssumption
  <2>3. MainTypeOK /\ SubsInv
    BY <2>2, FS_EmptySet DEF TickerInit, MainTypeOK, SubsInv, Idle, Subscribing
  <2>4. TickerTypeOK
    <3>1. connected \in BOOLEAN
      BY DEF TickerInit
    <3>2. current = 0
      BY DEF TickerInit
    <3> QED
      BY <2>1, <2>3, <3>1, <3>2 DEF TickerTypeOK, MainTypeOK
  <2> QED
    BY <2>1, <2>3, <2>4 DEF Shapes
<1>2. Inv /\ [TickerNext]_tickerVars => Inv'
  <2> SUFFICES ASSUME Inv, [TickerNext]_tickerVars
               PROVE  Inv'
    OBVIOUS
  <2>1. MainTypeOK' /\ SubsInv'
    BY SubsInductive
  <2>2. connections' \in Seq(Connection) /\ Len(connections') >= Len(connections) /\ Shapes'
    BY ConnectionsKept
  <2>3. Len(connections) \in Nat /\ Len(connections') \in Nat
    BY <2>2 DEF TickerTypeOK
  <2>4. current' \in {0, current} \/ Start
    BY DEF TickerNext, Main, Stop, SubscribeBegins, SubscribeKnown, SubscribeSends, SubscribeRaises,
           SubscribeRefused, SubscribeRecords, SubscribeEnds, UnsubscribeSends, UnsubscribeRecords,
           Thread, Opens, Drops, GivesUp, Callback, OnConnect, Resubscribes, OnClose, tickerVars
  <2>5. current' \in 0..Len(connections')
    <3>1. CASE Start
      <4>1. Len(connections') = Len(connections) + 1
        BY <3>1, StartSteps
      <4>2. current' = Len(connections) + 1
        BY <3>1 DEF Start
      <4> QED
        BY <2>3, <4>1, <4>2
    <3>2. CASE current' \in {0, current}
      BY <2>2, <2>3, <3>2 DEF TickerTypeOK
    <3> QED
      BY <2>4, <3>1, <3>2
  <2>6. connected' \in BOOLEAN
    <3>1. UNCHANGED connected \/ connected' = TRUE \/ connected' = FALSE
      BY DEF TickerNext, Main, Start, Stop, SubscribeBegins, SubscribeKnown,
             SubscribeSends, SubscribeRaises, SubscribeRefused, SubscribeRecords, SubscribeEnds,
             UnsubscribeSends, UnsubscribeRecords, Thread, Opens, Drops, GivesUp, Callback,
             OnConnect, Resubscribes, OnClose, tickerVars
    <3> QED
      BY <3>1 DEF TickerTypeOK
  <2> QED
    BY <2>1, <2>2, <2>5, <2>6 DEF TickerTypeOK, MainTypeOK
<1>3. Inv => TickerTypeOK /\ Shapes /\ SubsInv
  OBVIOUS
<1> QED
  BY <1>1, <1>2, <1>3, PTL DEF TickerSpec
-----------------------------------------------------------------------------
(* The flag.                                                               *)
LEMMA FlagInductive ==
    ASSUME TickerTypeOK, Shapes, FlagInv, [TickerNext]_tickerVars
    PROVE  FlagInv'
<1>0. connections \in Seq(Connection) /\ Len(connections) \in Nat
  BY DEF TickerTypeOK
<1>1. CASE UNCHANGED <<current, connected, connections>>
  BY <1>1 DEF FlagInv
<1>2. CASE Start
  <2>1. /\ Len(connections') = Len(connections) + 1 /\ connections' \in Seq(Connection)
        /\ connections'[Len(connections) + 1] = NewConnection
    BY <1>2, StartSteps
  <2>2. current' = Len(connections) + 1 /\ connected' = connected
    BY <1>2 DEF Start
  <2>3. Len(connections') = 1 => connected' = FALSE /\ connections'[1].link = "down"
    BY <1>0, <2>1, <2>2 DEF FlagInv, NewConnection, TickerTypeOK
  <2>4. connections' # <<>> /\ current' # 0
    BY <1>0, <2>1, <2>2
  <2> QED
    BY <2>3, <2>4 DEF FlagInv
<1>3. CASE Stop
  <2>1. current' = 0 /\ connected' = FALSE
    BY <1>3 DEF Stop
  <2>2. CASE current = 0
    BY <1>3, <2>1, <2>2 DEF Stop, FlagInv
  <2>3. CASE current # 0
    <3>1. PICK x \in Connection : Shape(x) /\ StopMakes(connections[current], x)
      BY <1>3, <2>3, StopSteps
    <3>2. current \in 1..Len(connections)
      BY <2>3 DEF TickerTypeOK
    <3>3. connections[current] \in Connection
      BY <1>0, <3>2, ElementOfSeq
    <3>4. x.link = "stopped"
      BY <3>1, <3>3 DEF StopMakes, Connection
    <3>5. Len(connections') = Len(connections) /\ connections'[current] = x
      BY <1>0, <3>1, <3>2, Updated DEF StopMakes
    <3>6. Len(connections) = 1 => current = 1
      BY <3>2
    <3>7. Len(connections') = 1 => connections'[1].link = "stopped"
      BY <3>4, <3>5, <3>6
    <3>8. connections' # <<>> \/ ~connected'
      BY <2>1
    <3> QED
      BY <2>1, <3>7, <3>8 DEF FlagInv
  <2> QED
    BY <2>2, <2>3
<1>4. ASSUME NEW T \in SUBSET Tokens, IsUp, connections' = [connections EXCEPT ![current].streamed = T],
             UNCHANGED <<current, connected>>
      PROVE  FlagInv'
  <2>1. current \in 1..Len(connections)
    BY <1>4, SendSteps
  <2>2. PICK x \in Connection : Shape(x) /\ SendMakes(connections[current], x, T)
    BY <1>4, SendSteps
  <2>3. connections[current] \in Connection
    BY <1>0, <2>1, ElementOfSeq
  <2>4. x.link = connections[current].link /\ x.due = connections[current].due
    BY <2>2, <2>3 DEF SendMakes, Connection
  <2>5. Len(connections') = Len(connections) /\ connections'[current] = x
    BY <1>0, <2>1, <2>2, Updated DEF SendMakes
  <2>6. Len(connections) = 1 => current = 1
    BY <2>1
  <2> QED
    BY <1>0, <1>4, <2>1, <2>4, <2>5, <2>6 DEF FlagInv
<1>5. ASSUME NEW c \in 1..Len(connections), Thread(c)
      PROVE  FlagInv'
  <2> DEFINE y == connections[c]
  <2>0. y \in Connection /\ Shape(y)
    BY <1>0, ElementOfSeq DEF Shapes
  <2>1. PICK x \in Connection : Shape(x) /\ ThreadMakes(c, y, x)
    BY <1>5, ThreadSteps
  <2>2. Len(connections') = Len(connections) /\ connections'[c] = x
    BY <1>0, <2>1, Updated DEF ThreadMakes
  <2>3. Len(connections) = 1 => c = 1
    OBVIOUS
  <2>4. current' = current
    BY <2>1 DEF ThreadMakes
  <2> SUFFICES ASSUME Len(connections) = 1
               PROVE  /\ x.due = <<>> => connected' = (x.link = "up")
                      /\ current = 0 => x.link = "stopped"
    BY <1>0, <2>2, <2>3, <2>4 DEF FlagInv
  <2>5. /\ y.due = <<>> => connected = (y.link = "up")
        /\ current = 0 => y.link = "stopped"
    BY <2>3 DEF FlagInv
  <2> HIDE DEF y
  <2> QED
    BY ZenonT(30), <2>0, <2>1, <2>5, DueSteps DEF ThreadMakes, Connection, Dues, Shape
<1>6. ASSUME NEW t \in Tokens, SubscribeSends(t)
      PROVE  FlagInv'
  <2>1. IsUp /\ current \in 1..Len(connections)
    BY <1>6 DEF SubscribeSends, IsUp, TickerTypeOK
  <2>2. connections[current].streamed \cup {t} \in SUBSET Tokens
    <3>1. connections[current] \in Connection
      BY <1>0, <2>1, ElementOfSeq
    <3> QED
      BY <3>1 DEF Connection
  <2>3. connections' = [connections EXCEPT ![current].streamed = connections[current].streamed \cup {t}]
    BY <1>6 DEF SubscribeSends
  <2> QED
    BY <1>4, <1>6, <2>1, <2>2, <2>3 DEF SubscribeSends
<1>7. ASSUME NEW t \in Tokens, UnsubscribeSends({t})
      PROVE  FlagInv'
  <2>1. IsUp /\ current \in 1..Len(connections)
    BY <1>7 DEF UnsubscribeSends, IsUp, TickerTypeOK
  <2>2. connections[current].streamed \ {t} \in SUBSET Tokens
    <3>1. connections[current] \in Connection
      BY <1>0, <2>1, ElementOfSeq
    <3> QED
      BY <3>1 DEF Connection
  <2>3. connections' = [connections EXCEPT ![current].streamed = connections[current].streamed \ {t}]
    BY <1>7 DEF UnsubscribeSends
  <2> QED
    BY <1>4, <1>7, <2>1, <2>2, <2>3 DEF UnsubscribeSends
<1> QED
  BY <1>1, <1>2, <1>3, <1>5, <1>6, <1>7
  DEF TickerNext, Main, SubscribeBegins, SubscribeKnown, SubscribeRaises, SubscribeRefused,
      SubscribeRecords, SubscribeEnds, UnsubscribeRecords, tickerVars

(* With one connection, no call under way and no callback due, is_connected *)
(* tells whether the link is up, whatever crossed before.                  *)
THEOREM FlagTellsLinkHolds == TickerSpec => []FlagTellsLink
<1>1. TickerInit => FlagInv
  BY DEF TickerInit, FlagInv
<1>2. TickerTypeOK /\ Shapes /\ FlagInv /\ [TickerNext]_tickerVars => FlagInv'
  BY FlagInductive
<1>3. FlagInv => FlagTellsLink
  BY DEF FlagInv, FlagTellsLink, CallingBack
<1> QED
  BY <1>1, <1>2, <1>3, TickerTypeCorrect, PTL DEF TickerSpec
-----------------------------------------------------------------------------
(* What is streamed while nothing crosses.                                 *)

(* A step of a connection's thread, when the connection is the one in use. *)
LEMMA ThreadStreams ==
    ASSUME NEW c, NEW y \in Connection, NEW x \in Connection, Shape(y), Shape(x),
           ThreadMakes(c, y, x), NEW S \in SUBSET Tokens, S = subscriptions, NEW expected,
           (y.due = <<>> /\ y.resubscribing = None) \/ expected = S,
           y.link = "up" => Streams(y, S, expected), x.link = "up"
    PROVE  Streams(x, S, expected)
<1>0. S # None
  BY TickerAssumption
<1>1. CASE y.link = "down" /\ x = [y EXCEPT !.link = "up", !.due = <<"connect">>]
           /\ y.resubscribing = None
  BY <1>1, DueSteps DEF Connection, Shape, Streams
<1>2. CASE y.link = "up" /\ y.resubscribing = None /\ y.due \in {<<"connect">>, <<"connect", "close">>}
           /\ x = [y EXCEPT !.due = Tail(@),
                            !.resubscribing = IF subscriptions = {} THEN None ELSE subscriptions]
  <2>1. y.due = <<"connect">> /\ y.streamed = {} /\ expected = S
    BY <1>2, DueSteps DEF Shape, Streams
  <2>2. x.due = <<>> /\ x.streamed = {}
    BY <1>2, <2>1, DueSteps DEF Connection
  <2>3. x.resubscribing = IF S = {} THEN None ELSE S
    BY <1>2 DEF Connection
  <2> QED
    BY <1>0, <2>1, <2>2, <2>3, DueSteps DEF Streams
<1>3. CASE y.link = "up" /\ y.resubscribing # None
           /\ x = [y EXCEPT !.resubscribing = None,
                            !.streamed = IF y.link = "up" THEN @ \cup y.resubscribing ELSE @]
  <2>1. y.due = <<>> /\ y.streamed = {} /\ y.resubscribing = S /\ expected = S
    BY <1>3, DueSteps DEF Shape, Streams
  <2>2. x.due = <<>> /\ x.resubscribing = None /\ x.streamed = S
    BY <1>3, <2>1 DEF Connection
  <2> QED
    BY <2>1, <2>2, DueSteps DEF Streams
<1> QED
  BY <1>1, <1>2, <1>3, DueSteps DEF ThreadMakes, Connection, Shape

(* Every step keeps what the server streams tied to what is recorded.      *)
LEMMA StreamInductive ==
    ASSUME TickerTypeOK, Shapes, SubsInv, StreamInv, [TickerNext]_tickerVars
    PROVE  StreamInv'
<1>0. /\ connections \in Seq(Connection) /\ Len(connections) \in Nat
      /\ subscriptions \in SUBSET Tokens /\ current \in 0..Len(connections)
  BY DEF TickerTypeOK
<1>1. CASE UNCHANGED tickerVars
  BY <1>1 DEF tickerVars, StreamInv, Overlap, CallingBack, IsUp, Streams, Sent
<1> SUFFICES ASSUME TickerNext, ~crossed'
             PROVE  ~Overlap' /\ (IsUp' => Streams(connections'[current'], subscriptions', Sent'))
  BY <1>1 DEF StreamInv
<1>2. Watched
  BY DEF TickerNext, Main, Start, Stop, SubscribeBegins, SubscribeKnown, SubscribeSends,
         SubscribeRaises, SubscribeRefused, SubscribeRecords, SubscribeEnds, UnsubscribeSends,
         UnsubscribeRecords, Thread, Opens, Drops, GivesUp, Callback, OnConnect, Resubscribes, OnClose
<1>3. ~crossed /\ ~Overlap'
  BY <1>2 DEF Watched
<1>4. /\ IsUp => Streams(connections[current], subscriptions, Sent)
      /\ main # Idle => \A c \in 1..Len(connections) :
                            connections[c].due = <<>> /\ connections[c].resubscribing = None
  BY <1>3 DEF StreamInv, Overlap, CallingBack
<1>5. main # Idle /\ IsUp => /\ connections[current].due = <<>>
                             /\ connections[current].resubscribing = None
                             /\ connections[current].streamed = Sent
  BY <1>0, <1>4 DEF IsUp, Streams
<1>6. main = Idle => Sent = subscriptions
  BY DEF Sent, Idle
<1>7. CASE Start
  <2>1. connections'[current'].link = "down"
    BY <1>7, StartSteps DEF Start, NewConnection
  <2> QED
    BY <1>3, <2>1 DEF IsUp
<1>8. CASE Stop
  BY <1>3, <1>8 DEF Stop, IsUp
<1>9. CASE UNCHANGED <<current, connections, subscriptions>> /\ Sent' = Sent
  <2>1. IsUp' = IsUp
    BY <1>9 DEF IsUp
  <2>2. IsUp' => Streams(connections[current], subscriptions, Sent)
    BY <1>4, <2>1
  <2> QED
    BY <1>3, <1>9, <2>2 DEF Streams
<1>10. ASSUME UNCHANGED <<current, connections>>, main # Idle, subscriptions' = Sent, Sent' = Sent
       PROVE  ~Overlap' /\ (IsUp' => Streams(connections'[current'], subscriptions', Sent'))
  <2>1. IsUp' = IsUp
    BY <1>10 DEF IsUp
  <2> QED
    BY <1>3, <1>5, <1>10, <2>1, DueSteps DEF Streams
<1>11. ASSUME NEW T \in SUBSET Tokens, IsUp, UNCHANGED <<current, subscriptions>>, main' # Idle,
              connections' = [connections EXCEPT ![current].streamed = T], Sent' = T
       PROVE  ~Overlap' /\ (IsUp' => Streams(connections'[current'], subscriptions', Sent'))
  <2>1. current \in 1..Len(connections)
    BY <1>11, SendSteps
  <2>2. PICK x \in Connection : Shape(x) /\ SendMakes(connections[current], x, T)
    BY <1>11, SendSteps
  <2>3. Len(connections') = Len(connections) /\ connections'[current] = x
    BY <1>0, <2>1, <2>2, Updated DEF SendMakes
  <2>4. connections[current] \in Connection
    BY <1>0, <2>1, ElementOfSeq
  <2>5. x.streamed = T
    BY <2>2, <2>4 DEF SendMakes, Connection
  <2>6. x.due = <<>> /\ x.resubscribing = None
    BY <1>3, <1>11, <2>1, <2>3 DEF Overlap, CallingBack
  <2> QED
    BY <1>3, <1>11, <2>3, <2>5, <2>6, DueSteps DEF Streams
<1>12. ASSUME NEW tokens \in TokenLists, SubscribeBegins(tokens)
       PROVE  UNCHANGED <<current, connections, subscriptions>> /\ Sent' = Sent
  BY <1>6, <1>12 DEF SubscribeBegins, Sent
<1>13. ASSUME NEW t \in Tokens, SubscribeKnown(t) \/ SubscribeRaises(t)
       PROVE  UNCHANGED <<current, connections, subscriptions>> /\ Sent' = Sent
  BY <1>13 DEF SubscribeKnown, SubscribeRaises, Asked, NextToken, Sent
<1>14. CASE SubscribeRefused
  BY <1>9, <1>14 DEF SubscribeRefused, NextToken, Sent
<1>15. CASE SubscribeEnds
  BY <1>9, <1>15 DEF SubscribeEnds, Idle, Sent
<1>16. CASE SubscribeRecords
  BY <1>10, <1>16 DEF SubscribeRecords, NextToken, Idle, Sent
<1>17. CASE UnsubscribeRecords
  BY <1>10, <1>17 DEF UnsubscribeRecords, Idle, Sent
<1>18. ASSUME NEW t \in Tokens, SubscribeSends(t)
       PROVE  ~Overlap' /\ (IsUp' => Streams(connections'[current'], subscriptions', Sent'))
  <2>1. IsUp /\ main.pc = "subscribe" /\ main # Idle /\ t = Head(main.todo)
    BY <1>18 DEF SubscribeSends, Asked, Idle
  <2>2. connections[current].streamed = subscriptions
    BY <1>5, <2>1 DEF Sent
  <2>3. main'.pc = "sent" /\ main'.todo = main.todo /\ subscriptions' = subscriptions
    <3>1. main \in Subscribing
      BY <2>1 DEF TickerTypeOK, Unsubscribing, Idle
    <3> QED
      BY <1>18, <3>1 DEF SubscribeSends, Subscribing
  <2>4. Sent' = subscriptions \cup {t}
    BY <2>1, <2>3 DEF Sent
  <2>5. connections' = [connections EXCEPT ![current].streamed = subscriptions \cup {t}]
    BY <1>18, <2>2 DEF SubscribeSends
  <2>6. main' # Idle /\ subscriptions \cup {t} \in SUBSET Tokens
    BY <1>0, <2>3 DEF Idle
  <2>7. UNCHANGED <<current, subscriptions>>
    BY <1>18 DEF SubscribeSends
  <2> QED
    BY <1>11, <2>1, <2>4, <2>5, <2>6, <2>7
<1>19. ASSUME NEW t \in Tokens, UnsubscribeSends({t})
       PROVE  ~Overlap' /\ (IsUp' => Streams(connections'[current'], subscriptions', Sent'))
  <2>1. IsUp /\ main = Idle /\ main' = [pc |-> "unsubscribed", tokens |-> {t}]
    BY <1>19 DEF UnsubscribeSends
  <2>2. UNCHANGED <<current, subscriptions>> /\ main' # Idle
    BY <1>19 DEF UnsubscribeSends, Idle
  <2>3. connections' = [connections EXCEPT ![current].streamed = connections[current].streamed \ {t}]
    BY <1>19 DEF UnsubscribeSends
  <2>4. current \in 1..Len(connections) /\ connections[current] \in Connection
    <3>1. current \in 1..Len(connections)
      BY <1>0, <2>1 DEF IsUp
    <3> QED
      BY <1>0, <3>1, ElementOfSeq
  <2>5. connections[current].streamed \ {t} \in SUBSET Tokens
    BY <2>4 DEF Connection
  <2>6. connections[current].streamed = subscriptions
    <3>1. PICK x \in Connection :
              Shape(x) /\ SendMakes(connections[current], x, connections[current].streamed \ {t})
      BY <2>1, <2>3, <2>5, SendSteps
    <3>2. x.due = connections[current].due /\ x.resubscribing = connections[current].resubscribing
      BY <2>4, <3>1 DEF SendMakes, Connection
    <3>3. Len(connections') = Len(connections) /\ connections'[current] = x
      BY <1>0, <2>4, <3>1, Updated DEF SendMakes
    <3>4. x.due = <<>> /\ x.resubscribing = None
      BY <1>3, <2>2, <2>4, <3>3 DEF Overlap, CallingBack
    <3> QED
      BY <1>4, <1>6, <2>1, <3>2, <3>4 DEF Streams
  <2>7. Sent' = subscriptions \ {t}
    BY <2>1, <2>2 DEF Sent
  <2> QED
    BY <1>11, <2>1, <2>2, <2>3, <2>5, <2>6, <2>7
<1>20. ASSUME NEW c \in 1..Len(connections), Thread(c)
       PROVE  ~Overlap' /\ (IsUp' => Streams(connections'[current'], subscriptions', Sent'))
  <2> DEFINE y == connections[c]
  <2>0. y \in Connection /\ Shape(y)
    BY <1>0, ElementOfSeq DEF Shapes
  <2>1. PICK x \in Connection : Shape(x) /\ ThreadMakes(c, y, x)
    BY <1>20, ThreadSteps
  <2>2. /\ Len(connections') = Len(connections) /\ connections'[c] = x
        /\ \A d \in 1..Len(connections) : d # c => connections'[d] = connections[d]
    BY <1>0, <2>1, Updated DEF ThreadMakes
  <2>3. UNCHANGED <<current, subscriptions>> /\ Sent' = Sent
    BY <2>1 DEF ThreadMakes, Sent
  <2> SUFFICES ASSUME IsUp'
               PROVE  Streams(connections'[current], subscriptions, Sent)
    BY <1>3, <2>3
  <2>4. current \in 1..Len(connections)
    BY <1>0, <2>3 DEF IsUp
  <2>5. CASE current # c
    <3>1. connections'[current] = connections[current]
      BY <2>2, <2>4, <2>5
    <3>2. IsUp
      BY <2>3, <3>1 DEF IsUp
    <3> QED
      BY <1>4, <3>1, <3>2
  <2>6. CASE current = c
    <3>1. x.link = "up" /\ connections'[current] = x
      BY <2>2, <2>3, <2>6 DEF IsUp
    <3>2. y.link = "up" => Streams(y, subscriptions, Sent)
      BY <1>4, <2>4, <2>6 DEF IsUp
    <3>3. (y.due = <<>> /\ y.resubscribing = None) \/ Sent = subscriptions
      BY <1>4, <1>6
    <3> HIDE DEF y
    <3> QED
      BY <1>0, <2>0, <2>1, <3>1, <3>2, <3>3, ThreadStreams
  <2> QED
    BY <2>5, <2>6
<1> QED
  BY <1>7, <1>8, <1>9, <1>12, <1>13, <1>14, <1>15, <1>16, <1>17, <1>18, <1>19, <1>20
  DEF TickerNext, Main

(* After any number of lost links the server streams exactly the tokens    *)
(* that are recorded, provided that no call ever overlapped a callback:    *)
(* _on_connect_callback sends all of them again, and the calls send before *)
(* they record.                                                            *)
THEOREM StreamsSubscriptionsHolds == TickerSpec => []StreamsSubscriptions
<1>1. TickerInit => StreamInv
  BY DEF TickerInit, StreamInv, Overlap, IsUp
<1>2. TickerTypeOK /\ Shapes /\ SubsInv /\ StreamInv /\ [TickerNext]_tickerVars => StreamInv'
  BY StreamInductive
<1>3. StreamInv => StreamsSubscriptions
  <2> SUFFICES ASSUME StreamInv, Settled, ~crossed
               PROVE  connections[current].streamed = subscriptions
    BY DEF StreamsSubscriptions
  <2>1. /\ connections[current].due = <<>> /\ connections[current].resubscribing = None
        /\ Sent = subscriptions
    BY DEF Settled, CallingBack, Sent, Idle
  <2> QED
    BY <2>1 DEF StreamInv, Settled, Streams
<1> QED
  BY <1>1, <1>2, <1>3, TickerTypeCorrect, PTL DEF TickerSpec
-----------------------------------------------------------------------------
(* The times of access do not fall along the keys.                         *)
Rising(ks, la) == \A m, n \in 1..Len(ks) : m < n => la[ks[m]] <= la[ks[n]]

(* Times at which the keys were used, none of them to come.                *)
Accesses(ks, la, t) ==
    /\ ToSet(ks) \subseteq DOMAIN la
    /\ \A i \in ToSet(ks) : la[i] \in Nat /\ la[i] <= t

(* What was put is a list of candles: finitely many timestamps.            *)
IsList(f) == IsFiniteSet(DOMAIN f) /\ DOMAIN f \subseteq Timestamps

CacheTypeOK ==
    /\ now \in Nat
    /\ puts \in Nat
    /\ keys \in Seq(Instruments)
    /\ DOMAIN last_access = ToSet(keys)
    /\ Accesses(keys, last_access, now)

CacheInv ==
    /\ CacheTypeOK
    /\ Rising(keys, last_access)
    /\ Len(keys) <= MaxInstruments

ListsKept ==
    /\ DOMAIN given = Instruments /\ DOMAIN candles = ToSet(keys)
    /\ \A i \in Instruments : IsList(given[i])
    /\ \A i \in ToSet(keys) :
           candles[i] = Only(given[i], Newest(DOMAIN given[i], MaxCandles))
-----------------------------------------------------------------------------
(* The set of the keys, by their positions.                                *)
LEMMA KeysAre ==
    ASSUME NEW ks \in Seq(Instruments)
    PROVE  /\ ToSet(ks) \subseteq Instruments
           /\ \A i : i \in ToSet(ks) <=> \E k \in 1..Len(ks) : ks[k] = i
BY DEF ToSet

(* What selecting leaves of the keys: those of S, in the same order.       *)
LEMMA SelectedKeys ==
    ASSUME NEW ks \in Seq(Instruments), NEW S, NEW la, Rising(ks, la)
    PROVE  /\ Selected(ks, S) \in Seq(Instruments)
           /\ ToSet(Selected(ks, S)) = ToSet(ks) \cap S
           /\ Rising(Selected(ks, S), la)
           /\ Len(Selected(ks, S)) <= Len(ks)
           /\ (\E i \in ToSet(ks) : i \notin S) => Len(Selected(ks, S)) < Len(ks)
<1> DEFINE r == Selected(ks, S)
<1>1. r \in Seq(Instruments) /\ Len(r) \in Nat /\ Len(ks) \in Nat
  BY SelectedLeaves, LenProperties
<1>2. PICK at : LeftOf(ks, S, Len(ks), r, at)
  BY SelectedLeaves
<1>3. \A x : (\E k \in 1..Len(r) : r[k] = x) <=> (x \in S /\ \E i \in 1..Len(ks) : ks[i] = x)
  BY SelectedRange
<1> HIDE DEF r
<1>4. ToSet(r) = ToSet(ks) \cap S
  BY <1>1, <1>3, KeysAre
<1>5. Rising(r, la)
  <2>1. ASSUME NEW m \in 1..Len(r), NEW n \in 1..Len(r), m < n
        PROVE  la[r[m]] <= la[r[n]]
    <3>1. /\ at[m] \in 1..Len(ks) /\ at[n] \in 1..Len(ks) /\ at[m] < at[n]
          /\ r[m] = ks[at[m]] /\ r[n] = ks[at[n]]
      BY <1>2, <2>1 DEF LeftOf
    <3>2. la[ks[at[m]]] <= la[ks[at[n]]]
      BY <3>1 DEF Rising
    <3> QED
      BY <3>1, <3>2
  <2> QED
    BY <2>1 DEF Rising
<1>6. Len(r) = CountOf(ks, S) /\ CountOf(ks, S) <= Len(ks)
  <2>1. CountOf(r, S) = CountOf(ks, S \cap S)
    BY SelectedCounts DEF r
  <2>2. CountOf(r, S) = Len(r)
    BY <1>1, <1>3, CountOfAll
  <2> QED
    BY <2>1, <2>2, CountOfNat
<1>7. ASSUME NEW i \in ToSet(ks), i \notin S
      PROVE  Len(r) < Len(ks)
  <2>1. PICK k \in 1..Len(ks) : ks[k] = i
    BY KeysAre
  <2> DEFINE I == {j \in 1..Len(ks) : ks[j] \in S}
  <2>2. I \in SUBSET (1..Len(ks)) /\ I # 1..Len(ks)
    BY <1>7, <2>1
  <2>3. IsFiniteSet(1..Len(ks)) /\ Cardinality(1..Len(ks)) = Len(ks)
    BY <1>1, FirstNumbers
  <2>4. CountOf(ks, S) = Cardinality(I)
    BY DEF CountOf
  <2> HIDE DEF I
  <2>5. IsFiniteSet(I) /\ Cardinality(I) <= Len(ks) /\ Cardinality(I) # Len(ks)
    BY <2>2, <2>3, FS_Subset
  <2>6. Cardinality(I) \in Nat
    BY <2>5, FS_CardinalityType
  <2> QED
    BY <1>1, <1>6, <2>4, <2>5, <2>6
<1> QED
  BY <1>1, <1>4, <1>5, <1>6, <1>7 DEF r

(* The key used now is the last, and the newest.                           *)
LEMMA MovedKeys ==
    ASSUME now \in Nat, NEW ks \in Seq(Instruments), NEW i \in Instruments, NEW la, NEW new,
           Rising(ks, la), Accesses(ks, la, now),
           new[i] = now, \A k \in ToSet(ks) : k # i => new[k] = la[k]
    PROVE  /\ MovedToEnd(ks, i) \in Seq(Instruments)
           /\ ToSet(MovedToEnd(ks, i)) = ToSet(ks) \cup {i}
           /\ Rising(MovedToEnd(ks, i), new)
           /\ i \in ToSet(ks) => Len(MovedToEnd(ks, i)) <= Len(ks)
<1> DEFINE r == Selected(ks, Instruments \ {i})
           e == Append(r, i)
<1>1. /\ r \in Seq(Instruments) /\ ToSet(r) = ToSet(ks) \cap (Instruments \ {i})
      /\ Rising(r, la)
      /\ i \in ToSet(ks) => Len(r) < Len(ks)
  BY SelectedKeys
<1>2. Len(r) \in Nat /\ Len(ks) \in Nat
  BY <1>1, LenProperties
<1> HIDE DEF r
<1>3. /\ e \in Seq(Instruments) /\ Len(e) = Len(r) + 1 /\ e[Len(r) + 1] = i
      /\ \A k \in 1..Len(r) : e[k] = r[k]
  BY <1>1, AppendProperties
<1> HIDE DEF e
<1>4. ToSet(e) = ToSet(ks) \cup {i}
  <2>1. \A x : (\E k \in 1..Len(e) : e[k] = x) <=> ((\E k \in 1..Len(r) : r[k] = x) \/ x = i)
    <3>1. \A k \in 1..Len(e) : k \in 1..Len(r) \/ k = Len(r) + 1
      BY <1>2, <1>3
    <3>2. Len(r) + 1 \in 1..Len(e) /\ \A k \in 1..Len(r) : k \in 1..Len(e)
      BY <1>2, <1>3
    <3> QED
      BY <1>3, <3>1, <3>2
  <2>2. \A x : x \in ToSet(e) <=> (x \in ToSet(r) \/ x = i)
    BY SMTT(20), <1>1, <1>3, <2>1, KeysAre
  <2>3. ToSet(ks) \subseteq Instruments
    BY KeysAre
  <2> QED
    BY <1>1, <2>2, <2>3
<1>5. \A k \in 1..Len(r) : r[k] \in ToSet(ks) /\ r[k] # i /\ new[r[k]] = la[r[k]]
  BY <1>1, KeysAre
<1>6. \A k \in 1..Len(r) : new[e[k]] = la[r[k]] /\ la[r[k]] \in Nat /\ la[r[k]] <= now
  BY <1>3, <1>5 DEF Accesses
<1>7. Rising(e, new)
  <2> SUFFICES ASSUME NEW m \in 1..Len(e), NEW n \in 1..Len(e), m < n
               PROVE  new[e[m]] <= new[e[n]]
    BY DEF Rising
  <2>1. m \in 1..Len(r)
    BY <1>2, <1>3
  <2>2. CASE n = Len(r) + 1
    BY <1>3, <1>6, <2>1, <2>2
  <2>3. CASE n \in 1..Len(r)
    <3>1. la[r[m]] <= la[r[n]]
      BY <1>1, <2>1, <2>3 DEF Rising
    <3>2. new[e[m]] = la[r[m]] /\ new[e[n]] = la[r[n]]
      BY <1>6, <2>1, <2>3
    <3> QED
      BY <3>1, <3>2
  <2> QED
    BY <1>2, <1>3, <2>2, <2>3
<1> QED
  <2>1. MovedToEnd(ks, i) = e
    BY DEF MovedToEnd, e, r
  <2>2. i \in ToSet(ks) => Len(e) <= Len(ks)
    BY <1>1, <1>2, <1>3
  <2> QED
    BY <1>3, <1>4, <1>7, <2>1, <2>2

(* Of too many keys the last stay.                                         *)
LEMMA EnforcedKeys ==
    ASSUME NEW ks \in Seq(Instruments), NEW la, Rising(ks, la)
    PROVE  /\ Enforced(ks) \in Seq(Instruments)
           /\ ToSet(Enforced(ks)) \subseteq ToSet(ks)
           /\ Rising(Enforced(ks), la)
           /\ Len(Enforced(ks)) <= MaxInstruments
<1>0. Len(ks) \in Nat /\ MaxInstruments \in Nat
  BY CacheAssumption, LenProperties
<1>1. CASE Len(ks) <= MaxInstruments
  BY <1>0, <1>1 DEF Enforced
<1>2. CASE Len(ks) > MaxInstruments
  <2> DEFINE d == Len(ks) - MaxInstruments
             s == SubSeq(ks, d + 1, Len(ks))
  <2>1. d \in Nat /\ d + 1 \in 1..Len(ks) + 1
    BY <1>0, <1>2
  <2>2. /\ s \in Seq(Instruments) /\ Len(s) = MaxInstruments
        /\ \A k \in 1..MaxInstruments : s[k] = ks[d + k] /\ d + k \in 1..Len(ks)
    BY <1>0, <1>2, SubSeqProperties
  <2>3. Enforced(ks) = s
    BY <1>2 DEF Enforced
  <2> HIDE DEF s
  <2>4. ToSet(s) \subseteq ToSet(ks)
    BY <2>2, KeysAre
  <2>5. Rising(s, la)
    <3> SUFFICES ASSUME NEW m \in 1..MaxInstruments, NEW n \in 1..MaxInstruments, m < n
                 PROVE  la[s[m]] <= la[s[n]]
      BY <2>2 DEF Rising
    <3>1. d + m \in 1..Len(ks) /\ d + n \in 1..Len(ks) /\ d + m < d + n
      BY <1>0, <2>1, <2>2
    <3>2. la[ks[d + m]] <= la[ks[d + n]]
      BY <3>1 DEF Rising
    <3> QED
      BY <2>2, <3>2
  <2> QED
    BY <1>0, <2>2, <2>3, <2>4, <2>5
<1> QED
  BY <1>0, <1>1, <1>2

(* What _evict_expired leaves is a cache in order.                         *)
LEMMA LiveKeys ==
    ASSUME CacheInv
    PROVE  /\ Live \in Seq(Instruments)
           /\ ToSet(Live) = ToSet(keys) \ Expired
           /\ Rising(Live, last_access)
           /\ Accesses(Live, last_access, now)
           /\ Len(Live) <= MaxInstruments
<1>1. /\ keys \in Seq(Instruments) /\ Rising(keys, last_access)
      /\ Accesses(keys, last_access, now) /\ Len(keys) <= MaxInstruments
  BY DEF CacheInv, CacheTypeOK
<1>2. /\ Live \in Seq(Instruments)
      /\ ToSet(Live) = ToSet(keys) \cap (Instruments \ Expired)
      /\ Rising(Live, last_access)
      /\ Len(Live) <= Len(keys)
  BY <1>1, SelectedKeys DEF Live
<1>3. ToSet(keys) \subseteq Instruments
  BY <1>1, KeysAre
<1>4. Len(Live) \in Nat /\ Len(keys) \in Nat /\ MaxInstruments \in Nat
  BY <1>1, <1>2, LenProperties, CacheAssumption
<1> QED
  BY <1>1, <1>2, <1>3, <1>4 DEF Accesses

(* Keeping some of the keys keeps the order.                               *)
LEMMA KeepInductive ==
    ASSUME now \in Nat, now' = now, puts' \in Nat,
           NEW ks \in Seq(Instruments), NEW cs, NEW la, NEW gs, Keep(ks, cs, la, gs),
           Rising(ks, la), Accesses(ks, la, now), Len(ks) <= MaxInstruments
    PROVE  CacheInv'
<1>1. keys' = ks /\ last_access' = Only(la, ToSet(ks))
  BY DEF Keep
<1>2. DOMAIN last_access' = ToSet(ks)
  BY <1>1 DEF Only
<1>3. \A i \in ToSet(ks) : last_access'[i] = la[i]
  BY <1>1 DEF Only
<1>4. Accesses(keys', last_access', now')
  BY <1>1, <1>2, <1>3 DEF Accesses
<1>5. Rising(keys', last_access')
  <2> SUFFICES ASSUME NEW m \in 1..Len(ks), NEW n \in 1..Len(ks), m < n
               PROVE  last_access'[ks[m]] <= last_access'[ks[n]]
    BY <1>1 DEF Rising
  <2>1. ks[m] \in ToSet(ks) /\ ks[n] \in ToSet(ks)
    BY KeysAre
  <2>2. la[ks[m]] <= la[ks[n]]
    BY DEF Rising
  <2> QED
    BY <1>3, <2>1, <2>2
<1>6. CacheTypeOK'
  BY <1>1, <1>2, <1>4 DEF CacheTypeOK
<1> QED
  BY <1>1, <1>5, <1>6 DEF CacheInv

(* get keeps the invariant of the cache.                                   *)
LEMMA GetInductive ==
    ASSUME CacheInv, NEW i \in Instruments, Get(i)
    PROVE  CacheInv'
<1>0. now \in Nat /\ puts \in Nat /\ now' = now /\ puts' = puts
  BY DEF CacheInv, CacheTypeOK, Get
<1>1. CASE i \in ToSet(Live)
  <2> DEFINE la == [last_access EXCEPT ![i] = now]
             ks == MovedToEnd(Live, i)
  <2>1. Keep(ks, candles, la, given)
    BY <1>1 DEF Get
  <2>2. DOMAIN la = DOMAIN last_access
    OBVIOUS
  <2>3. la[i] = now /\ \A k \in ToSet(Live) : k # i => la[k] = last_access[k]
    BY <1>1, LiveKeys DEF Accesses
  <2> HIDE DEF la
  <2>4. /\ ks \in Seq(Instruments) /\ ToSet(ks) = ToSet(Live) \cup {i}
        /\ Rising(ks, la) /\ Len(ks) <= Len(Live)
    BY <1>0, <1>1, <2>3, LiveKeys, MovedKeys
  <2>5. Accesses(ks, la, now)
    BY <1>0, <1>1, <2>2, <2>3, <2>4, LiveKeys DEF Accesses
  <2>6. Len(ks) <= MaxInstruments
    BY <2>4, LiveKeys, LenProperties, CacheAssumption
  <2> HIDE DEF ks
  <2> QED
    BY <1>0, <2>1, <2>4, <2>5, <2>6, KeepInductive
<1>2. CASE i \notin ToSet(Live)
  <2>1. Keep(Live, candles, last_access, given)
    BY <1>2 DEF Get
  <2> QED
    BY <1>0, <2>1, LiveKeys, KeepInductive
<1> QED
  BY <1>1, <1>2

(* put keeps the invariant of the cache.                                   *)
LEMMA PutInductive ==
    ASSUME CacheInv, NEW i \in Instruments, NEW batch, Put(i, batch)
    PROVE  CacheInv'
<1>0. now \in Nat /\ puts \in Nat /\ now' = now /\ puts' = puts + 1
  BY DEF CacheInv, CacheTypeOK, Put
<1> DEFINE la == Set(last_access, i, now)
           moved == MovedToEnd(Live, i)
           ks == Enforced(moved)
<1>1. \E cs, gs : Keep(ks, cs, la, gs)
  BY DEF Put
<1>2. DOMAIN la = {i} \cup DOMAIN last_access
  BY DEF Set
<1>3. la[i] = now /\ \A k \in ToSet(Live) : k # i => la[k] = last_access[k]
  BY LiveKeys DEF Accesses, Set
<1> HIDE DEF la
<1>4. /\ moved \in Seq(Instruments) /\ ToSet(moved) = ToSet(Live) \cup {i} /\ Rising(moved, la)
  BY <1>0, <1>3, LiveKeys, MovedKeys
<1> HIDE DEF moved
<1>5. /\ ks \in Seq(Instruments) /\ ToSet(ks) \subseteq ToSet(moved)
      /\ Rising(ks, la) /\ Len(ks) <= MaxInstruments
  BY <1>4, EnforcedKeys
<1>6. Accesses(ks, la, now)
  BY <1>0, <1>2, <1>3, <1>4, <1>5, LiveKeys DEF Accesses
<1> HIDE DEF ks
<1> QED
  BY <1>0, <1>1, <1>5, <1>6, KeepInductive

(* clear keeps the invariant of the cache.                                 *)
LEMMA ClearInductive ==
    ASSUME CacheInv, NEW S, Clear(S)
    PROVE  CacheInv'
<1> DEFINE ks == Selected(keys, Instruments \ S)
<1>0. /\ now \in Nat /\ puts \in Nat /\ now' = now /\ puts' = puts
      /\ keys \in Seq(Instruments) /\ Rising(keys, last_access)
      /\ Accesses(keys, last_access, now) /\ Len(keys) <= MaxInstruments
  BY DEF CacheInv, CacheTypeOK, Clear
<1>1. Keep(ks, candles, last_access, given)
  BY DEF Clear
<1>2. /\ ks \in Seq(Instruments) /\ ToSet(ks) = ToSet(keys) \cap (Instruments \ S)
      /\ Rising(ks, last_access) /\ Len(ks) <= Len(keys)
  BY <1>0, SelectedKeys
<1> HIDE DEF ks
<1>3. Accesses(ks, last_access, now)
  BY <1>0, <1>2 DEF Accesses
<1>4. Len(ks) <= MaxInstruments
  BY <1>0, <1>2, LenProperties, CacheAssumption
<1> QED
  BY <1>0, <1>1, <1>2, <1>3, <1>4, KeepInductive

(* Every step keeps the invariant of the cache.                            *)
LEMMA CacheInvInductive == CacheInv /\ [CacheNext]_cacheVars => CacheInv'
<1> SUFFICES ASSUME CacheInv, [CacheNext]_cacheVars
             PROVE  CacheInv'
  OBVIOUS
<1>1. ASSUME NEW i \in Instruments, Get(i)
      PROVE  CacheInv'
  BY <1>1, GetInductive
<1>2. ASSUME NEW i \in Instruments, NEW batch \in Batches, Put(i, batch)
      PROVE  CacheInv'
  BY <1>2, PutInductive
<1>3. ASSUME NEW S, Clear(S)
      PROVE  CacheInv'
  BY <1>3, ClearInductive
<1>4. CASE TimePasses
  <2>1. /\ UNCHANGED <<keys, last_access, puts>> /\ now' = now + 1
    BY <1>4 DEF TimePasses, Tick
  <2>2. /\ now \in Nat /\ puts \in Nat /\ keys \in Seq(Instruments)
        /\ DOMAIN last_access = ToSet(keys) /\ Accesses(keys, last_access, now)
        /\ Rising(keys, last_access) /\ Len(keys) <= MaxInstruments
    BY DEF CacheInv, CacheTypeOK
  <2>3. now' \in Nat /\ \A n \in Nat : n <= now => n <= now'
    BY <2>1, <2>2
  <2>4. Accesses(keys', last_access', now')
    BY <2>1, <2>2, <2>3 DEF Accesses
  <2> QED
    BY <2>1, <2>2, <2>3, <2>4 DEF CacheInv, CacheTypeOK
<1>5. CASE UNCHANGED cacheVars
  BY <1>5 DEF cacheVars, CacheInv, CacheTypeOK, Accesses
<1> QED
  BY <1>1, <1>2, <1>3, <1>4, <1>5 DEF CacheNext

(* An empty cache meets it.                                                *)
LEMMA CacheInitInv == CacheInit => CacheInv
<1> SUFFICES ASSUME CacheInit
             PROVE  CacheInv
  OBVIOUS
<1>1. keys = <<>> /\ Len(keys) = 0 /\ last_access = <<>> /\ now = 0 /\ puts = 0
  BY DEF CacheInit, Nothing, ClockInit
<1>2. ToSet(keys) = {}
  BY <1>1 DEF ToSet
<1>3. DOMAIN last_access = {}
  BY <1>1
<1>4. MaxInstruments \in Nat
  BY CacheAssumption
<1> QED
  BY <1>1, <1>2, <1>3, <1>4 DEF CacheInv, CacheTypeOK, Accesses, Rising

(* The invariant of the cache, for every number of instruments and candles *)
(* and every time to live.                                                 *)
THEOREM CacheInvHolds == CacheSpec => []CacheInv
<1> QED
  BY CacheInitInv, CacheInvInductive, PTL DEF CacheSpec

(* The keys stand in the order of their last use, so that what the cache   *)
(* drops is what was idle longest, and there are never more than allowed   *)
(* (OHLCVCache.get, put, _enforce_max_instruments).                        *)
THEOREM OldestFirstHolds == CacheSpec => []OldestFirst
<1>1. CacheInv => OldestFirst
  BY DEF CacheInv, Rising, OldestFirst
<1> QED
  BY <1>1, CacheInvHolds, PTL
-----------------------------------------------------------------------------
(* What the newest of a set are, and that cutting a set before more is put *)
(* into it makes no difference to what cutting it afterwards leaves.       *)
LEMMA NewestAre ==
    ASSUME NEW D, IsFiniteSet(D), NEW n
    PROVE  /\ Newest(D, n) \subseteq D /\ IsFiniteSet(Newest(D, n))
           /\ \A t : t \in Newest(D, n) <=> t \in D /\ Cardinality(Newer(D, t)) < n
           /\ \A t : IsFiniteSet(Newer(D, t)) /\ Cardinality(Newer(D, t)) \in Nat
<1>1. Newest(D, n) \subseteq D
  BY DEF Newest
<1>2. \A t : Newer(D, t) \in SUBSET D
  BY DEF Newer
<1>3. \A t : IsFiniteSet(Newer(D, t)) /\ Cardinality(Newer(D, t)) \in Nat
  BY <1>2, FS_Subset, FS_CardinalityType
<1>4. \A t : t \in Newest(D, n) <=> t \in D /\ Cardinality(Newer(D, t)) < n
  BY DEF Newest
<1> QED
  BY <1>1, <1>3, <1>4, FS_Subset

(* In fewer timestamps there are not more that are newer.                  *)
LEMMA FewerNewer ==
    ASSUME NEW D, IsFiniteSet(D), NEW C \in SUBSET D, NEW t
    PROVE  Cardinality(Newer(C, t)) <= Cardinality(Newer(D, t))
<1>1. Newer(C, t) \in SUBSET Newer(D, t)
  BY DEF Newer
<1> QED
  BY <1>1, NewestAre, FS_Subset

(* Of no more than n timestamps all are among the n newest.                *)
LEMMA NewestFew ==
    ASSUME NEW D \in SUBSET Nat, IsFiniteSet(D), NEW n \in Nat, Cardinality(D) <= n
    PROVE  Newest(D, n) = D
<1> SUFFICES ASSUME NEW t \in D
             PROVE  Cardinality(Newer(D, t)) < n
  BY NewestAre
<1>1. Newer(D, t) \in SUBSET (D \ {t})
  BY DEF Newer
<1>2. IsFiniteSet(D \ {t}) /\ Cardinality(D \ {t}) = Cardinality(D) - 1
  BY FS_RemoveElement
<1>3. IsFiniteSet(Newer(D, t)) /\ Cardinality(Newer(D, t)) <= Cardinality(D) - 1
  BY <1>1, <1>2, FS_Subset
<1>4. Cardinality(Newer(D, t)) \in Nat /\ Cardinality(D) \in Nat
  BY <1>3, FS_CardinalityType
<1> QED
  BY <1>3, <1>4

(* If one of D after t was cut off, n that are after t were not: those     *)
(* after the newest that was.                                              *)
LEMMA CutHasNewer ==
    ASSUME NEW D \in SUBSET Nat, IsFiniteSet(D), NEW n \in Nat, NEW t \in Nat,
           \E u \in D : u > t /\ u \notin Newest(D, n)
    PROVE  n <= Cardinality(Newer(Newest(D, n), t))
<1> DEFINE N == Newest(D, n)
           Cut == {u \in D : u > t /\ u \notin N}
           Sizes == {Cardinality(Newer(D, u)) : u \in Cut}
<1>1. \A u : IsFiniteSet(Newer(D, u)) /\ Cardinality(Newer(D, u)) \in Nat
  BY NewestAre
<1>2. N \subseteq D /\ IsFiniteSet(N)
  BY NewestAre
<1>3. \A u \in Cut : ~(Cardinality(Newer(D, u)) < n)
  BY NewestAre
<1>4. Sizes \in SUBSET Nat /\ Sizes # {}
  BY <1>1
<1> HIDE DEF N
<1>5. PICK u \in Cut : \A v \in Cut : Cardinality(Newer(D, u)) <= Cardinality(Newer(D, v))
  <2> HIDE DEF Sizes
  <2>1. PICK m \in Sizes : \A k \in Sizes : m <= k
    BY <1>4, LeastNumber
  <2> QED
    BY <2>1 DEF Sizes
<1>6. u \in D /\ u > t /\ u \in Nat
  OBVIOUS
<1>7. ASSUME NEW v \in Newer(D, u), v \notin N
      PROVE  FALSE
  <2>1. v \in D /\ v > u /\ v \in Nat
    BY <1>7 DEF Newer
  <2>2. v \in Cut
    BY <1>6, <1>7, <2>1
  <2>3. Newer(D, v) \in SUBSET Newer(D, u) /\ v \in Newer(D, u) /\ v \notin Newer(D, v)
    <3>1. \A w \in D : w > v => w > u
      BY <1>6, <2>1
    <3>2. ~(v > v)
      BY <2>1
    <3> HIDE DEF Cut
    <3> QED
      BY <1>7, <3>1, <3>2 DEF Newer
  <2>4. /\ Cardinality(Newer(D, v)) <= Cardinality(Newer(D, u))
        /\ Cardinality(Newer(D, v)) # Cardinality(Newer(D, u))
    BY <1>1, <2>3, FS_Subset
  <2>5. Cardinality(Newer(D, u)) <= Cardinality(Newer(D, v))
    BY <1>5, <2>2
  <2> QED
    BY <1>1, <2>4, <2>5
<1>8. Newer(D, u) \in SUBSET Newer(N, t)
  <2>1. \A v \in Newer(D, u) : v \in N
    BY <1>7
  <2>2. \A v \in Newer(D, u) : v > t
    BY <1>6 DEF Newer
  <2> QED
    BY <2>1, <2>2 DEF Newer
<1>9. IsFiniteSet(Newer(N, t)) /\ Cardinality(Newer(N, t)) \in Nat
  BY <1>2, NewestAre
<1>10. Cardinality(Newer(D, u)) <= Cardinality(Newer(N, t))
  BY <1>8, <1>9, FS_Subset
<1>11. n <= Cardinality(Newer(D, u))
  BY <1>1, <1>3
<1> QED
  BY <1>1, <1>9, <1>10, <1>11 DEF N

(* Cutting to the n newest before new timestamps come in loses nothing     *)
(* that cutting afterwards would keep.                                     *)
LEMMA NewestOfCut ==
    ASSUME NEW D \in SUBSET Nat, IsFiniteSet(D), NEW B \in SUBSET Nat, IsFiniteSet(B),
           NEW n \in Nat
    PROVE  Newest(Newest(D, n) \cup B, n) = Newest(D \cup B, n)
<1> DEFINE N == Newest(D, n)
           some == N \cup B
           all == D \cup B
<1>1. N \subseteq D /\ IsFiniteSet(N)
  BY NewestAre
<1>2. /\ IsFiniteSet(some) /\ IsFiniteSet(all) /\ some \in SUBSET all
      /\ N \in SUBSET some /\ D \in SUBSET all /\ some \in SUBSET Nat
  BY <1>1, FS_Union
<1>3. \A t : t \in some <=> t \in N \/ t \in B
  OBVIOUS
<1>4. \A t : t \in all <=> t \in D \/ t \in B
  OBVIOUS
<1> HIDE DEF some, all
<1>5. \A t : /\ Cardinality(Newer(some, t)) \in Nat /\ Cardinality(Newer(all, t)) \in Nat
             /\ Cardinality(Newer(some, t)) <= Cardinality(Newer(all, t))
  BY <1>2, NewestAre, FewerNewer
<1>6. ASSUME NEW t \in all, Cardinality(Newer(all, t)) < n
      PROVE  t \in some /\ Cardinality(Newer(some, t)) < n
  <2>1. Cardinality(Newer(some, t)) < n
    BY <1>5, <1>6
  <2>2. Cardinality(Newer(D, t)) <= Cardinality(Newer(all, t))
    BY <1>2, FewerNewer
  <2>3. Cardinality(Newer(D, t)) \in Nat
    BY NewestAre
  <2>4. Cardinality(Newer(D, t)) < n
    BY <1>5, <1>6, <2>2, <2>3
  <2>5. t \in D => t \in N
    BY <2>4, NewestAre
  <2> QED
    BY <1>3, <1>4, <2>1, <2>5
<1>7. ASSUME NEW t \in some, Cardinality(Newer(some, t)) < n
      PROVE  t \in all /\ Cardinality(Newer(all, t)) < n
  <2>1. t \in Nat /\ t \in all
    BY <1>2
  <2>2. ASSUME NEW u \in D, u > t, u \notin N
        PROVE  FALSE
    <3>1. n <= Cardinality(Newer(N, t))
      BY <2>1, <2>2, CutHasNewer
    <3>2. Cardinality(Newer(N, t)) <= Cardinality(Newer(some, t))
      BY <1>2, FewerNewer
    <3>3. Cardinality(Newer(N, t)) \in Nat
      BY <1>1, NewestAre
    <3> HIDE DEF N
    <3> QED
      BY <1>5, <1>7, <3>1, <3>2, <3>3
  <2>3. Newer(all, t) = Newer(some, t)
    <3> HIDE DEF N
    <3> QED
      BY <1>1, <1>3, <1>4, <2>2 DEF Newer
  <2> QED
    BY <1>7, <2>1, <2>3
<1>8. \A t : t \in Newest(some, n) <=> t \in some /\ Cardinality(Newer(some, t)) < n
  BY <1>2, NewestAre
<1>9. \A t : t \in Newest(all, n) <=> t \in all /\ Cardinality(Newer(all, t)) < n
  BY <1>2, NewestAre
<1>10. Newest(some, n) = Newest(all, n)
  BY <1>6, <1>7, <1>8, <1>9
<1> QED
  BY <1>10 DEF some, all
-----------------------------------------------------------------------------
(* A batch is a list of candles no longer than the bound: it brings no     *)
(* more timestamps than that.                                              *)
Brought(batch) == {batch[k].timestamp : k \in 1..Len(batch)}

(* A batch brings finitely many timestamps.                                *)
LEMMA BatchBrings ==
    ASSUME NEW batch \in Batches
    PROVE  /\ Brought(batch) \in SUBSET Timestamps /\ Timestamps \subseteq Nat
           /\ IsFiniteSet(Brought(batch)) /\ Cardinality(Brought(batch)) <= MaxBatch
<1>1. PICK n \in 0..MaxBatch : batch \in [1..n -> [timestamp: Timestamps, value: Values]]
  BY DEF Batches
<1>2. n \in Nat /\ n <= MaxBatch /\ MaxBatch \in Nat /\ Len(batch) = n
  <2>1. MaxBatch \in Nat
    BY CacheAssumption
  <2>2. batch \in Seq([timestamp: Timestamps, value: Values])
    <3> DEFINE C == [timestamp: Timestamps, value: Values]
    <3>1. n \in Nat /\ batch \in [1..n -> C]
      BY <1>1, <2>1
    <3> HIDE DEF C
    <3>2. batch \in UNION {[1..m -> C] : m \in Nat}
      BY <3>1
    <3>3. batch \in Seq(C)
      BY <3>2, SeqDef
    <3> QED
      BY <3>3 DEF C
  <2> QED
    BY <1>1, <2>1, <2>2
<1>3. \A k \in 1..n : batch[k].timestamp \in Timestamps
  BY <1>1
<1> DEFINE f == [k \in 1..n |-> batch[k].timestamp]
<1>4. f \in Surjection(1..n, Brought(batch))
  BY <1>2 DEF Surjection, Brought
<1>5. IsFiniteSet(1..n) /\ Cardinality(1..n) = n
  BY <1>2, FirstNumbers
<1> HIDE DEF f
<1>6. IsFiniteSet(Brought(batch)) /\ Cardinality(Brought(batch)) <= n
  BY <1>4, <1>5, FS_Surjection
<1>7. Cardinality(Brought(batch)) \in Nat
  BY <1>6, FS_CardinalityType
<1> QED
  BY <1>2, <1>3, <1>6, <1>7, CacheAssumption DEF Brought

(* A merge has the timestamps of both, and depends on the old list only    *)
(* where the batch brings nothing.                                         *)
LEMMA MergedIs ==
    ASSUME NEW f, NEW batch
    PROVE  /\ DOMAIN Merged(f, batch) = DOMAIN f \cup Brought(batch)
           /\ Merged(f, batch) = [t \in DOMAIN Merged(f, batch) |-> Merged(f, batch)[t]]
           /\ \A g, t : t \in DOMAIN f \cup Brought(batch) /\ t \in DOMAIN g \cup Brought(batch)
                            /\ (t \in DOMAIN f /\ t \in DOMAIN g => f[t] = g[t])
                  => Merged(f, batch)[t] = Merged(g, batch)[t]
<1>1. DOMAIN Merged(f, batch) = DOMAIN f \cup Brought(batch)
  BY DEF Merged, Brought
<1>2. Merged(f, batch) = [t \in DOMAIN Merged(f, batch) |-> Merged(f, batch)[t]]
  BY DEF Merged
<1> DEFINE At(t) == {k \in 1..Len(batch) : batch[k].timestamp = t}
<1>3. \A h, t : t \in DOMAIN h \cup Brought(batch) =>
          Merged(h, batch)[t] = IF At(t) = {} THEN h[t] ELSE batch[Max(At(t))].value
  BY DEF Merged, Brought
<1>4. \A t : t \in Brought(batch) <=> At(t) # {}
  BY DEF Brought
<1> HIDE DEF At
<1> QED
  BY <1>1, <1>2, <1>3, <1>4

(* Merging into what is left of g and cutting again is merging into g and  *)
(* cutting.                                                                *)
LEMMA MergeOfCut ==
    ASSUME MaxCandles > 0, NEW batch \in Batches, NEW f, NEW g, IsList(g),
           DOMAIN f = Newest(DOMAIN g, MaxCandles), \A t \in DOMAIN f : f[t] = g[t]
    PROVE  /\ IsList(Merged(g, batch))
           /\ Trimmed(Merged(f, batch)) =
                  Only(Merged(g, batch), Newest(DOMAIN Merged(g, batch), MaxCandles))
<1> DEFINE new == Merged(f, batch)
           all == Merged(g, batch)
           M == MaxCandles
           D == DOMAIN g
           B == Brought(batch)
<1>0. /\ M \in Nat /\ B \in SUBSET Nat /\ B \in SUBSET Timestamps /\ IsFiniteSet(B)
      /\ D \in SUBSET Nat /\ D \in SUBSET Timestamps /\ IsFiniteSet(D)
  BY BatchBrings, CacheAssumption DEF IsList
<1>1. /\ DOMAIN new = Newest(D, M) \cup B /\ DOMAIN all = D \cup B
      /\ new = [t \in DOMAIN new |-> new[t]]
  BY MergedIs
<1>2. /\ IsFiniteSet(D \cup B) /\ IsFiniteSet(Newest(D, M) \cup B)
      /\ Newest(D, M) \subseteq D
  BY <1>0, FS_Union, NewestAre
<1>3. \A t \in Newest(D, M) \cup B : new[t] = all[t]
  BY <1>2, MergedIs
<1> HIDE DEF new, all, B
<1>4. Newest(DOMAIN new, M) = Newest(DOMAIN all, M)
  <2> HIDE DEF D, M
  <2> QED
    BY <1>0, <1>1, NewestOfCut
<1>5. Trimmed(new) = Only(new, Newest(DOMAIN new, M))
  <2>1. CASE Cardinality(DOMAIN new) > M
    BY <2>1 DEF Trimmed
  <2>2. CASE Cardinality(DOMAIN new) <= M
    <3>1. Newest(DOMAIN new, M) = DOMAIN new
      <4>1. DOMAIN new \in SUBSET Nat /\ IsFiniteSet(DOMAIN new)
        BY <1>0, <1>1, <1>2
      <4> HIDE DEF M
      <4> QED
        BY <1>0, <2>2, <4>1, NewestFew
    <3>2. Only(new, DOMAIN new) = new
      BY <1>1 DEF Only
    <3>3. Trimmed(new) = new
      <4>1. Cardinality(DOMAIN new) \in Nat
        BY <1>1, <1>2, FS_CardinalityType
      <4> QED
        BY <1>0, <2>2, <4>1 DEF Trimmed
    <3> QED
      BY <3>1, <3>2, <3>3
  <2>3. Cardinality(DOMAIN new) \in Nat
    BY <1>1, <1>2, FS_CardinalityType
  <2> QED
    BY <1>0, <2>1, <2>2, <2>3
<1>6. Only(new, Newest(DOMAIN new, M)) = Only(all, Newest(DOMAIN all, M))
  <2>1. Newest(DOMAIN new, M) \subseteq DOMAIN new
    BY <1>1, <1>2, NewestAre
  <2> QED
    BY <1>1, <1>3, <1>4, <2>1 DEF Only
<1>7. IsList(all)
  BY <1>0, <1>1, <1>2 DEF IsList
<1> QED
  BY <1>5, <1>6, <1>7 DEF new, all

(* Keeping some of the instruments keeps their candles.                    *)
LEMMA KeepLists ==
    ASSUME NEW ks \in Seq(Instruments), NEW cs, NEW la, NEW gs, Keep(ks, cs, la, gs),
           \A i \in ToSet(ks) : /\ IsList(gs[i])
                                /\ cs[i] = Only(gs[i], Newest(DOMAIN gs[i], MaxCandles))
    PROVE  ListsKept'
<1>1. /\ keys' = ks /\ candles' = Only(cs, ToSet(ks))
      /\ given' = [i \in Instruments |-> IF i \in ToSet(ks) THEN gs[i] ELSE Nothing]
  BY DEF Keep
<1>2. ToSet(ks) \subseteq Instruments
  BY KeysAre
<1>3. IsList(Nothing)
  <2>1. DOMAIN Nothing = {}
    BY DEF Nothing
  <2> QED
    BY <2>1, FS_EmptySet DEF IsList
<1>4. \A i \in Instruments : IsList(given'[i])
  BY <1>1, <1>3
<1>5. \A i \in ToSet(ks) : candles'[i] = Only(given'[i], Newest(DOMAIN given'[i], MaxCandles))
  BY <1>1, <1>2 DEF Only
<1>6. DOMAIN candles' = ToSet(keys')
  BY <1>1 DEF Only
<1> QED
  BY <1>1, <1>4, <1>5, <1>6 DEF ListsKept

(* Every step keeps the lists what one cut of all that was put would be.   *)
LEMMA ListsInductive ==
    ASSUME MaxCandles > 0, CacheInv, ListsKept, [CacheNext]_cacheVars
    PROVE  ListsKept'
<1>0. keys \in Seq(Instruments) /\ now \in Nat
  BY DEF CacheInv, CacheTypeOK
<1>1. \A i \in ToSet(keys) : /\ IsList(given[i])
                             /\ candles[i] = Only(given[i], Newest(DOMAIN given[i], MaxCandles))
  BY <1>0, KeysAre DEF ListsKept
<1>2. ToSet(Live) \subseteq ToSet(keys) /\ Live \in Seq(Instruments)
  BY LiveKeys
<1>3. ASSUME NEW i \in Instruments, Get(i)
      PROVE  ListsKept'
  <2>1. CASE i \in ToSet(Live)
    <3> DEFINE ks == MovedToEnd(Live, i)
               la == [last_access EXCEPT ![i] = now]
    <3>1. Keep(ks, candles, la, given)
      BY <1>3, <2>1 DEF Get
    <3>2. la[i] = now /\ \A k \in ToSet(Live) : k # i => la[k] = last_access[k]
      BY <2>1, LiveKeys DEF Accesses
    <3> HIDE DEF la
    <3>3. ks \in Seq(Instruments) /\ ToSet(ks) = ToSet(Live) \cup {i}
      BY SMTT(20), <1>0, <3>2, LiveKeys, MovedKeys
    <3> HIDE DEF ks
    <3> QED
      BY <1>1, <1>2, <2>1, <3>1, <3>3, KeepLists
  <2>2. CASE i \notin ToSet(Live)
    <3>1. Keep(Live, candles, last_access, given)
      BY <1>3, <2>2 DEF Get
    <3> QED
      BY <1>1, <1>2, <3>1, KeepLists
  <2> QED
    BY <2>1, <2>2
<1>4. ASSUME NEW i \in Instruments, NEW batch \in Batches, Put(i, batch)
      PROVE  ListsKept'
  <2> DEFINE old == IF i \in ToSet(Live) THEN candles[i] ELSE Nothing
             was == IF i \in ToSet(Live) THEN given[i] ELSE Nothing
             moved == MovedToEnd(Live, i)
             ks == Enforced(moved)
             cs == Set(candles, i, Trimmed(Merged(old, batch)))
             la == Set(last_access, i, now)
             gs == [given EXCEPT ![i] = Merged(was, batch)]
  <2>1. Keep(ks, cs, la, gs)
    BY <1>4 DEF Put
  <2>2. la[i] = now /\ \A k \in ToSet(Live) : k # i => la[k] = last_access[k]
    BY LiveKeys DEF Accesses, Set
  <2> HIDE DEF la
  <2>3. /\ moved \in Seq(Instruments) /\ ToSet(moved) = ToSet(Live) \cup {i} /\ Rising(moved, la)
    BY <1>0, <2>2, LiveKeys, MovedKeys
  <2> HIDE DEF moved
  <2>4. ks \in Seq(Instruments) /\ ToSet(ks) \subseteq ToSet(moved)
    BY <2>3, EnforcedKeys
  <2> HIDE DEF ks
  <2>5. /\ IsList(was) /\ DOMAIN old = Newest(DOMAIN was, MaxCandles)
        /\ \A t \in DOMAIN old : old[t] = was[t]
    <3>1. CASE i \in ToSet(Live)
      BY <1>1, <1>2, <3>1 DEF Only
    <3>2. CASE i \notin ToSet(Live)
      <4>1. old = Nothing /\ was = Nothing /\ DOMAIN Nothing = {}
        BY <3>2 DEF Nothing
      <4>2. Newest({}, MaxCandles) = {}
        BY DEF Newest
      <4> QED
        BY <4>1, <4>2, FS_EmptySet DEF IsList
    <3> QED
      BY <3>1, <3>2
  <2> HIDE DEF old, was
  <2>6. /\ IsList(Merged(was, batch))
        /\ Trimmed(Merged(old, batch)) =
               Only(Merged(was, batch), Newest(DOMAIN Merged(was, batch), MaxCandles))
    BY <2>5, MergeOfCut
  <2>7. /\ cs[i] = Trimmed(Merged(old, batch)) /\ gs[i] = Merged(was, batch)
        /\ \A k \in ToSet(Live) : k # i => cs[k] = candles[k] /\ gs[k] = given[k]
    <3>1. DOMAIN given = Instruments
      BY DEF ListsKept
    <3>2. i \in DOMAIN cs /\ cs[i] = Trimmed(Merged(old, batch))
      BY DEF Set
    <3>3. \A k \in ToSet(Live) : k # i => cs[k] = candles[k]
      BY <1>2 DEF Set, ListsKept
    <3> QED
      BY <3>1, <3>2, <3>3
  <2> HIDE DEF cs, gs
  <2>8. \A k \in ToSet(ks) : /\ IsList(gs[k])
                             /\ cs[k] = Only(gs[k], Newest(DOMAIN gs[k], MaxCandles))
    BY <1>1, <1>2, <2>3, <2>4, <2>6, <2>7
  <2> QED
    BY <2>1, <2>4, <2>8, KeepLists
<1>5. ASSUME NEW S, Clear(S)
      PROVE  ListsKept'
  <2> DEFINE ks == Selected(keys, Instruments \ S)
  <2>1. Keep(ks, candles, last_access, given)
    BY <1>5 DEF Clear
  <2>2. ks \in Seq(Instruments) /\ ToSet(ks) = ToSet(keys) \cap (Instruments \ S)
    BY <1>0, SelectedKeys DEF CacheInv
  <2> HIDE DEF ks
  <2> QED
    BY <1>1, <2>1, <2>2, KeepLists
<1>6. ASSUME UNCHANGED <<keys, candles, given>>
      PROVE  ListsKept'
  BY <1>6 DEF ListsKept
<1>7. CASE TimePasses
  BY <1>6, <1>7 DEF TimePasses
<1>8. CASE UNCHANGED cacheVars
  BY <1>6, <1>8 DEF cacheVars
<1> QED
  BY <1>3, <1>4, <1>5, <1>7, <1>8 DEF CacheNext

(* However a list of candles came together, from whatever batches, what is *)
(* kept of it is what sorting all of it and cutting once would keep: the   *)
(* newest, each as it was put last (OHLCVCache.put).  A maximum of zero is *)
(* left out: existing[-0:] is the whole list.                              *)
THEOREM NewestKeptHolds ==
    ASSUME MaxCandles > 0
    PROVE  CacheSpec => []NewestKept
<1>1. CacheInit => ListsKept
  <2> SUFFICES ASSUME CacheInit
               PROVE  ListsKept
    OBVIOUS
  <2>1. /\ ToSet(keys) = {} /\ candles = Nothing /\ DOMAIN Nothing = {}
        /\ given = [i \in Instruments |-> Nothing]
    BY DEF CacheInit, ToSet, Nothing
  <2>2. IsList(Nothing)
    BY <2>1, FS_EmptySet DEF IsList
  <2> QED
    BY <2>1, <2>2 DEF ListsKept
<1>2. CacheInv /\ ListsKept /\ [CacheNext]_cacheVars => ListsKept'
  BY ListsInductive
<1>3. ListsKept => NewestKept
  BY DEF ListsKept, NewestKept
<1> QED
  BY <1>1, <1>2, <1>3, CacheInvHolds, PTL DEF CacheSpec

(* Only a put brings an expired instrument back, and then with that put's  *)
(* candles and no others (OHLCVCache._evict_expired runs first in get and  *)
(* in put).                                                                *)
THEOREM NeverRevivesHolds == CacheSpec => NeverRevives
<1> DEFINE Revived(i) == i \in ToSet(keys') /\ last_access'[i] = now
           Afresh(i) == \A batch \in Batches :
                            Put(i, batch) /\ i \in ToSet(keys') =>
                                candles'[i] = Trimmed(Merged(Nothing, batch))
<1>1. ASSUME CacheInv, [CacheNext]_cacheVars, NEW i \in Expired, Revived(i)
      PROVE  puts' # puts
  <2>0. /\ keys \in Seq(Instruments) /\ now \in Nat /\ puts \in Nat /\ TTL \in Nat
        /\ i \in ToSet(keys) /\ now - last_access[i] > TTL
        /\ last_access[i] \in Nat /\ last_access[i] # now
        /\ DOMAIN last_access = ToSet(keys) /\ i \in Instruments
    <3>1. /\ keys \in Seq(Instruments) /\ now \in Nat /\ puts \in Nat /\ TTL \in Nat
          /\ i \in ToSet(keys) /\ now - last_access[i] > TTL
          /\ last_access[i] \in Nat /\ DOMAIN last_access = ToSet(keys)
      BY <1>1, CacheAssumption DEF CacheInv, CacheTypeOK, Accesses, Expired
    <3> QED
      BY <3>1, KeysAre
  <2>1. i \notin ToSet(Live) /\ Live \in Seq(Instruments)
    BY <1>1, LiveKeys
  <2>2. ASSUME NEW j \in Instruments, Get(j)
        PROVE  FALSE
    <3>1. CASE j \in ToSet(Live)
      <4> DEFINE ks == MovedToEnd(Live, j)
                 la == [last_access EXCEPT ![j] = now]
      <4>1. keys' = ks
        BY <2>2, <3>1 DEF Get, Keep
      <4>2. la[j] = now /\ \A k \in ToSet(Live) : k # j => la[k] = last_access[k]
        BY <1>1, <3>1, LiveKeys DEF Accesses
      <4> HIDE DEF la
      <4>3. ToSet(ks) = ToSet(Live) \cup {j}
        BY <1>1, <2>0, <4>2, LiveKeys, MovedKeys
      <4> QED
        BY <1>1, <2>1, <3>1, <4>1, <4>3
    <3>2. CASE j \notin ToSet(Live)
      BY <1>1, <2>1, <2>2, <3>2 DEF Get, Keep
    <3> QED
      BY <3>1, <3>2
  <2>3. ASSUME NEW j \in Instruments, NEW batch \in Batches, Put(j, batch)
        PROVE  puts' # puts
    <3>1. puts' = puts + 1
      BY <2>3 DEF Put
    <3> QED
      BY <2>0, <3>1
  <2>4. ASSUME NEW S, Clear(S)
        PROVE  FALSE
    <3> DEFINE ks == Selected(keys, Instruments \ S)
    <3>1. keys' = ks /\ last_access' = Only(last_access, ToSet(ks))
      BY <2>4 DEF Clear, Keep
    <3> HIDE DEF ks
    <3>2. last_access'[i] = last_access[i]
      BY <1>1, <3>1 DEF Only
    <3> QED
      BY <1>1, <2>0, <3>2
  <2>5. ASSUME last_access' = last_access
        PROVE  FALSE
    BY <1>1, <2>0, <2>5
  <2>6. CASE TimePasses
    BY <2>5, <2>6 DEF TimePasses
  <2>7. CASE UNCHANGED cacheVars
    BY <2>5, <2>7 DEF cacheVars
  <2> QED
    BY <1>1, <2>2, <2>3, <2>4, <2>6, <2>7 DEF CacheNext
<1>2. ASSUME CacheInv, NEW i \in Expired
      PROVE  Afresh(i)
  <2> SUFFICES ASSUME NEW batch \in Batches, Put(i, batch), i \in ToSet(keys')
               PROVE  candles'[i] = Trimmed(Merged(Nothing, batch))
    OBVIOUS
  <2> DEFINE old == IF i \in ToSet(Live) THEN candles[i] ELSE Nothing
             ks == Enforced(MovedToEnd(Live, i))
  <2>1. old = Nothing
    BY <1>2, LiveKeys
  <2>2. keys' = ks /\ candles' = Only(Set(candles, i, Trimmed(Merged(old, batch))), ToSet(ks))
    BY DEF Put, Keep
  <2> HIDE DEF old, ks
  <2> QED
    BY <2>1, <2>2 DEF Only, Set
<1>3. CacheInv /\ [CacheNext]_cacheVars =>
          [\A i \in Expired :
               /\ Revived(i) => puts' # puts
               /\ Afresh(i)]_cacheVars
  <2> HIDE DEF Revived, Afresh
  <2> QED
    BY <1>1, <1>2
<1> QED
  BY <1>3, CacheInvHolds, PTL DEF CacheSpec, NeverRevives
=============================================================================
