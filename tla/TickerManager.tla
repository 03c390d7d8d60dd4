--------------------------- MODULE TickerManager ---------------------------
(***************************************************************************)
(* Market data subscriptions (src/data/ticker.py): the caller's thread     *)
(* starts, stops, subscribes and unsubscribes; the thread of each          *)
(* KiteTicker connects, reconnects and calls back.  No lock is held.       *)
(*                                                                         *)
(* A connection is external: its link, the tokens the server streams on    *)
(* it, and the callbacks that are due, which its thread runs one after the *)
(* other.  Sending on a link that is not up raises.  subscribe() and       *)
(* unsubscribe() send first and record afterwards; these are the states of *)
(* main.  _reconnect_attempts is read by nobody and left out; ticks are    *)
(* handed on and change nothing.                                           *)
(***************************************************************************)
EXTENDS Naturals, Sequences, FiniteSets

CONSTANTS
    Tokens,
    MaxSubs,             \* max_subs_per_connection
    MaxConnections,      \* max_connections, which the code never reads
    None,
    MaxStarts,           \* bound: calls of start in a run
    MaxDrops             \* bound: links lost in a run

ASSUME TickerAssumption ==
    /\ {MaxSubs, MaxConnections, MaxStarts, MaxDrops} \subseteq Nat
    /\ IsFiniteSet(Tokens)
    /\ \A T \in SUBSET Tokens : T # None

VARIABLES
    current,             \* _kite_tickers: 0 for [], else the one in it
    subscriptions,       \* _subscriptions
    connected,           \* _connected
    main,                \* the call the caller's thread is in
    connections,         \* one per call of start
    drops,
    crossed              \* history: a call and a callback overlapped

tickerVars == <<current, subscriptions, connected, main, connections, drops, crossed>>

Idle == [pc |-> "idle"]

TickerInit ==
    /\ current = 0
    /\ subscriptions = {}
    /\ connected = FALSE
    /\ main = Idle
    /\ connections = <<>>
    /\ drops = 0
    /\ crossed = FALSE

CallingBack(c) == connections[c].due # <<>> \/ connections[c].resubscribing # None

Overlap == main # Idle /\ \E c \in 1..Len(connections) : CallingBack(c)

(* Part of every step.                                                     *)
Watched == crossed' = (crossed \/ Overlap')

IsUp == current # 0 /\ connections[current].link = "up"
-----------------------------------------------------------------------------
(* Faults: plausible mistakes in the steps below.                          *)

MayAddLate == main.current_subs <= MaxSubs

OnConnectForgets(c) ==
    /\ connections[c].resubscribing = None
    /\ connections[c].due # <<>> /\ Head(connections[c].due) = "connect"
    /\ connected' = TRUE
    /\ connections' = [connections EXCEPT ![c].due = Tail(@)]
    /\ UNCHANGED <<current, subscriptions, main, drops>>
    /\ Watched

OnCloseKeepsFlag(c) ==
    /\ connections[c].resubscribing = None
    /\ connections[c].due # <<>> /\ Head(connections[c].due) = "close"
    /\ connections' = [connections EXCEPT ![c].due = Tail(@)]
    /\ UNCHANGED <<current, subscriptions, connected, main, drops>>
    /\ Watched
-----------------------------------------------------------------------------
(* The caller's thread.                                                    *)

(* start(): a new connection takes the place of the old one, which is not  *)
(* closed; the subscriptions stay.                                         *)
Start ==
    /\ main = Idle /\ Len(connections) < MaxStarts
    /\ connections' = Append(connections,
           [link |-> "down", streamed |-> {}, due |-> <<>>, resubscribing |-> None])
    /\ current' = Len(connections) + 1
    /\ UNCHANGED <<subscriptions, connected, main, drops>>
    /\ Watched

(* stop(): closes the connection it has; the close callback is still due.  *)
Stop ==
    /\ main = Idle
    /\ IF current = 0 THEN UNCHANGED connections
       ELSE connections' = [connections EXCEPT
                ![current].link = "stopped",
                ![current].streamed = {},
                ![current].due =
                    IF connections[current].link = "up" THEN Append(@, "close") ELSE @]
    /\ current' = 0
    /\ connected' = FALSE
    /\ UNCHANGED <<subscriptions, main, drops>>
    /\ Watched

(* subscribe(tokens): without a connection every token is refused and      *)
(* nothing changes.                                                        *)
SubscribeBegins(tokens) ==
    /\ main = Idle /\ current # 0
    /\ main' = [pc |-> "subscribe", todo |-> tokens, current_subs |-> Cardinality(subscriptions)]
    /\ UNCHANGED <<current, subscriptions, connected, connections, drops>>
    /\ Watched

NextToken(step) ==
    main' = [pc |-> "subscribe", todo |-> Tail(main.todo),
             current_subs |-> main.current_subs + step]

Asked(t) == main.pc = "subscribe" /\ main.todo # <<>> /\ t = Head(main.todo)

MayAdd == main.current_subs < MaxSubs

SubscribeKnown(t) ==
    /\ Asked(t) /\ t \in subscriptions
    /\ NextToken(0)
    /\ UNCHANGED <<current, subscriptions, connected, connections, drops>>
    /\ Watched

SubscribeRefused ==
    /\ main.pc = "subscribe" /\ main.todo # <<>>
    /\ Head(main.todo) \notin subscriptions
    /\ ~MayAdd
    /\ NextToken(0)
    /\ UNCHANGED <<current, subscriptions, connected, connections, drops>>
    /\ Watched

SubscribeSends(t) ==
    /\ Asked(t) /\ t \notin subscriptions
    /\ MayAdd
    /\ IsUp
    /\ connections' = [connections EXCEPT ![current].streamed = @ \cup {t}]
    /\ main' = [main EXCEPT !.pc = "sent"]
    /\ UNCHANGED <<current, subscriptions, connected, drops>>
    /\ Watched

SubscribeRecords ==
    /\ main.pc = "sent"
    /\ subscriptions' = subscriptions \cup {Head(main.todo)}
    /\ NextToken(1)
    /\ UNCHANGED <<current, connected, connections, drops>>
    /\ Watched

SubscribeRaises(t) ==
    /\ Asked(t) /\ t \notin subscriptions
    /\ MayAdd
    /\ ~IsUp
    /\ NextToken(0)
    /\ UNCHANGED <<current, subscriptions, connected, connections, drops>>
    /\ Watched

SubscribeEnds ==
    /\ main.pc = "subscribe" /\ main.todo = <<>>
    /\ main' = Idle
    /\ UNCHANGED <<current, subscriptions, connected, connections, drops>>
    /\ Watched

(* unsubscribe(tokens): when sending raises, so does the call, and nothing *)
(* changes.                                                                *)
UnsubscribeSends(T) ==
    /\ main = Idle /\ IsUp
    /\ connections' = [connections EXCEPT ![current].streamed = @ \ T]
    /\ main' = [pc |-> "unsubscribed", tokens |-> T]
    /\ UNCHANGED <<current, subscriptions, connected, drops>>
    /\ Watched

UnsubscribeRecords ==
    /\ main.pc = "unsubscribed"
    /\ subscriptions' = subscriptions \ main.tokens
    /\ main' = Idle
    /\ UNCHANGED <<current, connected, connections, drops>>
    /\ Watched
-----------------------------------------------------------------------------
(* The thread of connection c: KiteTicker, external, and the callbacks.    *)

Opens(c) ==
    /\ connections[c].link = "down" /\ ~CallingBack(c)
    /\ connections' = [connections EXCEPT ![c].link = "up", ![c].due = <<"connect">>]
    /\ UNCHANGED <<current, subscriptions, connected, main, drops>>
    /\ Watched

Drops(c) ==
    /\ connections[c].link = "up" /\ drops < MaxDrops
    /\ connections' = [connections EXCEPT
           ![c].link = "down", ![c].streamed = {}, ![c].due = Append(@, "close")]
    /\ drops' = drops + 1
    /\ UNCHANGED <<current, subscriptions, connected, main>>
    /\ Watched

(* The library stops trying: _on_noreconnect_callback.                     *)
GivesUp(c) ==
    /\ connections[c].link = "down" /\ ~CallingBack(c)
    /\ connections' = [connections EXCEPT ![c].link = "dead"]
    /\ connected' = FALSE
    /\ UNCHANGED <<current, subscriptions, main, drops>>
    /\ Watched

Due(c, callback) ==
    /\ connections[c].resubscribing = None
    /\ connections[c].due # <<>> /\ Head(connections[c].due) = callback

(* _on_connect_callback, up to the list of the tokens to subscribe again.  *)
OnConnect(c) ==
    /\ Due(c, "connect")
    /\ connected' = TRUE
    /\ connections' = [connections EXCEPT
           ![c].due = Tail(@),
           ![c].resubscribing = IF subscriptions = {} THEN None ELSE subscriptions]
    /\ UNCHANGED <<current, subscriptions, main, drops>>
    /\ Watched

(* _on_connect_callback, the rest: on a link that is lost again it raises. *)
Resubscribes(c) ==
    /\ connections[c].resubscribing # None
    /\ connections' = [connections EXCEPT
           ![c].resubscribing = None,
           ![c].streamed =
               IF connections[c].link = "up" THEN @ \cup connections[c].resubscribing ELSE @]
    /\ UNCHANGED <<current, subscriptions, connected, main, drops>>
    /\ Watched

(* _on_disconnect_callback and _on_close_callback.                         *)
OnClose(c) ==
    /\ Due(c, "close")
    /\ connected' = FALSE
    /\ connections' = [connections EXCEPT ![c].due = Tail(@)]
    /\ UNCHANGED <<current, subscriptions, main, drops>>
    /\ Watched
-----------------------------------------------------------------------------
TokenLists == UNION {[1..n -> Tokens] : n \in {1, 2}}

Main ==
    \/ Start \/ Stop
    \/ \E tokens \in TokenLists : SubscribeBegins(tokens)
    \/ \E t \in Tokens : SubscribeKnown(t) \/ SubscribeSends(t) \/ SubscribeRaises(t)
    \/ SubscribeRefused \/ SubscribeRecords \/ SubscribeEnds
    \/ \E t \in Tokens : UnsubscribeSends({t})
    \/ UnsubscribeRecords

Callback(c) == OnConnect(c) \/ Resubscribes(c) \/ OnClose(c)

Thread(c) == Opens(c) \/ Drops(c) \/ GivesUp(c) \/ Callback(c)

TickerNext == Main \/ \E c \in 1..Len(connections) : Thread(c)

TickerSpec == TickerInit /\ [][TickerNext]_tickerVars
-----------------------------------------------------------------------------
(* Properties.                                                             *)

(* Nothing is under way on the connection in use, and it is up.            *)
Settled == main = Idle /\ IsUp /\ ~CallingBack(current)

(* After any number of lost links the server streams exactly the tokens    *)
(* that are recorded, provided that no call ever overlapped a callback.    *)
StreamsSubscriptions ==
    Settled /\ ~crossed => connections[current].streamed = subscriptions

(* Even when calls and callbacks overlap: no more tokens are recorded than *)
(* a connection may have, counting the one just sent.                      *)
SubsWithinLimit ==
    Cardinality(subscriptions) + (IF main.pc = "sent" THEN 1 ELSE 0) <= MaxSubs

(* With one connection and nothing under way, is_connected tells whether   *)
(* it is up, whatever overlapped before.                                   *)
FlagTellsLink ==
    /\ Len(connections) = 1 /\ main = Idle /\ ~CallingBack(1)
    => connected = (connections[1].link = "up")
=============================================================================
