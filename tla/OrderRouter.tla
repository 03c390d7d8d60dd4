---------------------------- MODULE OrderRouter ----------------------------
(***************************************************************************)
(* The router in front of the engine (src/execution/router.py): it counts  *)
(* the orders of the last second, of the last minute and in all, refuses   *)
(* an order that would pass a limit and hands the others to the engine.    *)
(*                                                                         *)
(* Several tasks of one asyncio loop call route().  Everything up to the   *)
(* await of engine.submit runs in one step.  What submit does is the       *)
(* subject of ExecutionEngine; here it returns a result or raises, after   *)
(* any time.                                                               *)
(***************************************************************************)
EXTENDS Clock, Selection, FiniteSets, Functions

CONSTANTS
    Tasks,
    Segments,
    MaxOps, MaxOpm, MaxOpd,    \* arguments of the constructor, 0 for none
    SettingsOps, SettingsOpm, SettingsOpd,   \* the defaults in settings
    OneSecond, OneMinute, OneDay,            \* in ticks
    MaxRequests                \* bound: calls of route in a run

ASSUME RouterAssumption ==
    /\ {MaxOps, MaxOpm, MaxOpd, SettingsOps, SettingsOpm, SettingsOpd, MaxRequests}
           \subseteq Nat
    /\ {OneSecond, OneMinute, OneDay} \subseteq Nat \ {0}
    /\ IsFiniteSet(Tasks) /\ IsFiniteSet(Segments)

VARIABLES
    second_timestamps, minute_timestamps, daily_count,
    segment_counts,
    results,         \* how many results are kept
    routing,         \* the tasks that await engine.submit
    asked,           \* how many calls of route were begun
    routed,          \* history: when each order was handed to the engine
    raised           \* history: how many calls of submit raised

routerVars ==
    <<now, second_timestamps, minute_timestamps, daily_count, segment_counts, results,
      routing, asked, routed, raised>>

RouterInit ==
    /\ ClockInit
    /\ second_timestamps = <<>>
    /\ minute_timestamps = <<>>
    /\ daily_count = 0
    /\ segment_counts = [g \in Segments |-> 0]
    /\ results = 0
    /\ routing = {}
    /\ asked = 0
    /\ routed = <<>>
    /\ raised = 0

(* x or y in Python: the zero of an argument is no argument.               *)
Or(x, y) == IF x = 0 THEN y ELSE x
-----------------------------------------------------------------------------
(* Faults: plausible mistakes in the steps below.                          *)

PruneInclusive(ts, w) == Selected(ts, {t \in Nat : t >= now - w})

RateLimitedLate(sec, min) ==
    \/ Len(sec) > Or(MaxOps, SettingsOps)
    \/ Len(min) >= Or(MaxOpm, SettingsOpm)
    \/ daily_count >= Or(MaxOpd, SettingsOpd)

SubmitRaisesRefunded(t) ==
    /\ t \in routing
    /\ routing' = routing \ {t}
    /\ raised' = raised + 1
    /\ daily_count' = daily_count - 1
    /\ UNCHANGED <<now, second_timestamps, minute_timestamps, segment_counts,
                   results, asked, routed>>
-----------------------------------------------------------------------------
(* OrderRouter._prune_timestamps, for one of the two lists.                *)
Pruned(ts, w) == Selected(ts, {t \in Nat : t > now - w})

(* OrderRouter._is_rate_limited.                                           *)
RateLimited(sec, min) ==
    \/ Len(sec) >= Or(MaxOps, SettingsOps)
    \/ Len(min) >= Or(MaxOpm, SettingsOpm)
    \/ daily_count >= Or(MaxOpd, SettingsOpd)

CanRoute(t) == t \notin routing /\ asked < MaxRequests

(* route(): over a limit; the order goes nowhere.                          *)
RouteRefused(t) ==
    /\ CanRoute(t)
    /\ second_timestamps' = Pruned(second_timestamps, OneSecond)
    /\ minute_timestamps' = Pruned(minute_timestamps, OneMinute)
    /\ RateLimited(second_timestamps', minute_timestamps')
    /\ asked' = asked + 1
    /\ UNCHANGED <<now, daily_count, segment_counts, results, routing, routed, raised>>

(* route(): a slot is taken in every count before the engine is called,    *)
(* and never given back.                                                   *)
RouteAccepted(t, g) ==
    /\ CanRoute(t)
    /\ LET sec == Pruned(second_timestamps, OneSecond)
           min == Pruned(minute_timestamps, OneMinute)
       IN  /\ ~RateLimited(sec, min)
           /\ second_timestamps' = Append(sec, now)
           /\ minute_timestamps' = Append(min, now)
    /\ daily_count' = daily_count + 1
    /\ segment_counts' = [segment_counts EXCEPT ![g] = @ + 1]
    /\ routing' = routing \cup {t}
    /\ asked' = asked + 1
    /\ routed' = Append(routed, now)
    /\ UNCHANGED <<now, results, raised>>

(* engine.submit returns a result, whatever it says.                       *)
SubmitReturns(t) ==
    /\ t \in routing
    /\ routing' = routing \ {t}
    /\ results' = results + 1
    /\ UNCHANGED <<now, second_timestamps, minute_timestamps, daily_count, segment_counts,
                   asked, routed, raised>>

(* engine.submit raises, and route with it.                                *)
SubmitRaises(t) ==
    /\ t \in routing
    /\ routing' = routing \ {t}
    /\ raised' = raised + 1
    /\ UNCHANGED <<now, second_timestamps, minute_timestamps, daily_count, segment_counts,
                   results, asked, routed>>

TimePasses ==
    /\ Tick
    /\ UNCHANGED <<second_timestamps, minute_timestamps, daily_count, segment_counts,
                   results, routing, asked, routed, raised>>

RouterNext ==
    \/ \E t \in Tasks :
           \/ RouteRefused(t)
           \/ \E g \in Segments : RouteAccepted(t, g)
           \/ SubmitReturns(t)
           \/ SubmitRaises(t)
    \/ TimePasses

RouterSpec == RouterInit /\ [][RouterNext]_routerVars
-----------------------------------------------------------------------------
(* The orders handed to the engine less than w ticks ago.                  *)
HandedOver(w) == Cardinality({i \in 1..Len(routed) : routed[i] > now - w})

(* The limits hold of what the engine is really given, however many tasks  *)
(* route at once and however long the engine takes: the slot is taken      *)
(* before the await.                                                       *)
HandedOverLimits ==
    /\ HandedOver(OneSecond) <= Or(MaxOps, SettingsOps)
    /\ HandedOver(OneMinute) <= Or(MaxOpm, SettingsOpm)
    /\ Len(routed) <= Or(MaxOpd, SettingsOpd)

(* Each order handed over is in the daily count, in the count of one       *)
(* segment, and is awaited, answered or lost in an exception; an order     *)
(* that was lost keeps its slot.  Pruning forgets none that still counts:  *)
(* what the lists hold of a window is what was handed over in it.          *)
EverySlotExplained ==
    /\ daily_count = Len(routed)
    /\ daily_count = results + raised + Cardinality(routing)
    /\ daily_count = SumFunction(segment_counts)
    /\ Len(Pruned(second_timestamps, OneSecond)) = HandedOver(OneSecond)
    /\ Len(Pruned(minute_timestamps, OneMinute)) = HandedOver(OneMinute)

(* An order is refused only when the engine really was given as many as a  *)
(* limit allows: in the last second, in the last minute or, the daily      *)
(* count being what it is, since the router was made.  No order that left  *)
(* its window, and none that was refused itself, holds another one up.     *)
RefusedOnlyAtALimit ==
    [][ asked' # asked /\ routed' = routed =>
            \/ HandedOver(OneSecond) >= Or(MaxOps, SettingsOps)
            \/ HandedOver(OneMinute) >= Or(MaxOpm, SettingsOpm)
            \/ Len(routed) >= Or(MaxOpd, SettingsOpd) ]_routerVars
-----------------------------------------------------------------------------
(* What a comment of the code says and the code does not do.               *)

(* router.py: limits of 3/sec, 200/min and 2000/day.  That is, an order is *)
(* refused only when the second, the minute or the day has had its orders. *)
(* Nothing sets the daily count back when a day begins.                    *)
DayLimitIsOfTheDay ==
    [][ asked' # asked /\ routed' = routed =>
            \/ HandedOver(OneSecond) >= Or(MaxOps, SettingsOps)
            \/ HandedOver(OneMinute) >= Or(MaxOpm, SettingsOpm)
            \/ Cardinality({i \in 1..Len(routed) :
                   routed[i] \div OneDay = now \div OneDay}) >= Or(MaxOpd, SettingsOpd)
      ]_routerVars
=============================================================================
