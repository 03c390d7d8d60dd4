--------------------------- MODULE RecordsProofs ---------------------------
(***************************************************************************)
(* The two records beside the engine.  The router's: its limits and counts *)
(* for every set of limits, tasks and segments.  And the audit trail: what *)
(* a verified trail is worth, for every set of payloads and every number   *)
(* of entries, restarts and writes into the trail.                         *)
(*                                                                         *)
(* That a chain which verifies digests every payload up to its end is an   *)
(* induction over the chain; it is made by looking at the first entry of   *)
(* which it would not be true (LeastNumber).                               *)
(***************************************************************************)
EXTENDS OrderRouter, AuditTrail, DataLemmas

RouterTypeOK ==
    /\ now \in Nat /\ now <= MaxTime
    /\ second_timestamps \in Seq(Nat) /\ minute_timestamps \in Seq(Nat)
    /\ daily_count \in Nat
    /\ segment_counts \in [Segments -> Nat]
    /\ results \in Nat /\ asked \in Nat /\ raised \in Nat
    /\ routing \in SUBSET Tasks
    /\ routed \in Seq(Nat)

(* How many times of a list are later than t.                              *)
After(ts, t) == CountOf(ts, {x \in Nat : x > t})

(* A list that is pruned now and then still has every time of its window.  *)
Remembers(ts, w) == \A t \in Int : t >= now - w => After(ts, t) = After(routed, t)

ListsInv ==
    /\ Remembers(second_timestamps, OneSecond)
    /\ Remembers(minute_timestamps, OneMinute)

CountsInv ==
    /\ daily_count = Len(routed)
    /\ daily_count = results + raised + Cardinality(routing)
    /\ daily_count = SumFunction(segment_counts)
    /\ \A i \in 1..Len(routed) : routed[i] <= now

RouterInv == RouterTypeOK /\ ListsInv /\ CountsInv /\ HandedOverLimits
-----------------------------------------------------------------------------
(* A limit or its default is a number.                                     *)
LEMMA OrIsLimit == \A x, y \in Nat : Or(x, y) \in Nat
BY DEF Or

(* The limits and the lengths of the windows are numbers.                  *)
LEMMA LimitsAreNat ==
    /\ Or(MaxOps, SettingsOps) \in Nat
    /\ Or(MaxOpm, SettingsOpm) \in Nat
    /\ Or(MaxOpd, SettingsOpd) \in Nat
    /\ OneSecond \in Nat \ {0} /\ OneMinute \in Nat \ {0} /\ OneDay \in Nat \ {0}
BY RouterAssumption, OrIsLimit

(* Pruning up to c loses no time later than t, if t is not before c.       *)
LEMMA AfterSelected ==
    ASSUME NEW ts \in Seq(Nat), NEW c \in Int, NEW t \in Int, t >= c
    PROVE  After(Selected(ts, {x \in Nat : x > c}), t) = After(ts, t)
<1> DEFINE S == {x \in Nat : x > c}
           P == {x \in Nat : x > t}
<1>1. CountOf(Selected(ts, S), P) = CountOf(ts, S \cap P)
  <2> HIDE DEF S, P
  <2> QED
    BY SelectedCounts
<1>2. S \cap P = P
  OBVIOUS
<1> QED
  BY <1>1, <1>2 DEF After

(* A timestamp appended counts when it is after t.                         *)
LEMMA AfterAppend ==
    ASSUME NEW ts \in Seq(Nat), NEW x \in Nat, NEW t \in Int
    PROVE  After(Append(ts, x), t) = After(ts, t) + IF x > t THEN 1 ELSE 0
<1> DEFINE P == {y \in Nat : y > t}
<1>1. x \in P <=> x > t
  OBVIOUS
<1> HIDE DEF P
<1>2. CountOf(Append(ts, x), P) = CountOf(ts, P) + IF x \in P THEN 1 ELSE 0
  BY CountOfAppend
<1> QED
  BY <1>1, <1>2 DEF After, P

(* What was handed over in a window is what comes after its beginning.     *)
LEMMA HandedOverIsAfter ==
    ASSUME routed \in Seq(Nat)
    PROVE  \A w : HandedOver(w) = After(routed, now - w)
<1> SUFFICES ASSUME NEW w
             PROVE  HandedOver(w) = After(routed, now - w)
  OBVIOUS
<1>1. {i \in 1..Len(routed) : routed[i] > now - w}
          = {i \in 1..Len(routed) : routed[i] \in {x \in Nat : x > now - w}}
  BY ElementOfSeq
<1> QED
  BY <1>1 DEF HandedOver, After, CountOf

(* The length of a pruned list is what was handed over in its window.      *)
LEMMA PrunedLength ==
    ASSUME NEW ts \in Seq(Nat), NEW w \in Nat, now \in Nat, routed \in Seq(Nat),
           Remembers(ts, w)
    PROVE  /\ Pruned(ts, w) \in Seq(Nat)
           /\ Remembers(Pruned(ts, w), w)
           /\ Len(Pruned(ts, w)) = HandedOver(w)
<1> DEFINE c == now - w
           r == Pruned(ts, w)
<1>1. c \in Int /\ r \in Seq(Nat)
  BY SelectedLeaves DEF Pruned
<1>2. \A t \in Int : t >= c => After(r, t) = After(ts, t)
  BY AfterSelected DEF Pruned
<1>3. Remembers(r, w)
  <2> HIDE DEF r
  <2> QED
    BY <1>2 DEF Remembers
<1>4. ASSUME NEW i \in 1..Len(r)
      PROVE  r[i] \in {x \in Nat : x > c}
  BY SelectedRange DEF Pruned
<1>5. After(r, c) = Len(r)
  <2> HIDE DEF r, c
  <2> QED
    BY <1>1, <1>4, CountOfAll DEF After
<1>6. After(r, c) = HandedOver(w)
  <2> HIDE DEF r
  <2> QED
    BY <1>1, <1>3, HandedOverIsAfter DEF Remembers
<1> QED
  BY <1>1, <1>3, <1>5, <1>6
-----------------------------------------------------------------------------
(* A new router meets the invariant.                                       *)
LEMMA RouterInitInv == RouterInit => RouterInv
<1> SUFFICES ASSUME RouterInit
             PROVE  RouterInv
  OBVIOUS
<1> USE DEF RouterInit, ClockInit
<1>1. RouterTypeOK
  BY ClockAssumption, EmptySeq DEF RouterTypeOK
<1>2. ListsInv
  BY DEF ListsInv, Remembers
<1>3. Len(routed) = 0 /\ \A t \in Int : HandedOver(t) = 0
  <2>1. \A t : {i \in 1..0 : routed[i] > now - t} = {}
    OBVIOUS
  <2> QED
    BY <2>1, FS_EmptySet DEF HandedOver
<1>4. CountsInv
  <2>1. Cardinality(routing) = 0
    BY FS_EmptySet
  <2>2. SumFunction(segment_counts) = 0
    <3> DEFINE zero == [g \in Segments |-> 0]
    <3>1. \A T \in SUBSET Segments : \A x \in T : zero[x] \in Int /\ zero[x] <= 0
      OBVIOUS
    <3>2. SumFunctionOnSet(zero, Segments) = 0
      BY RouterAssumption, SumZero
    <3> QED
      BY <3>2 DEF SumFunction
  <2> QED
    BY <1>3, <2>1, <2>2 DEF CountsInv
<1>5. HandedOverLimits
  BY <1>3, LimitsAreNat DEF HandedOverLimits
<1> QED
  BY <1>1, <1>2, <1>4, <1>5 DEF RouterInv
-----------------------------------------------------------------------------
(* Nothing is handed over: pruned or not, the lists remember.              *)
LEMMA RefusedInductive ==
    ASSUME RouterInv, NEW t \in Tasks, RouteRefused(t)
    PROVE  RouterInv'
<1> USE DEF RouterInv, RouterTypeOK
<1>1. UNCHANGED <<now, daily_count, segment_counts, results, routing, routed, raised>>
  BY DEF RouteRefused
<1>2. /\ second_timestamps' \in Seq(Nat) /\ Remembers(second_timestamps', OneSecond)
      /\ minute_timestamps' \in Seq(Nat) /\ Remembers(minute_timestamps', OneMinute)
  BY PrunedLength, LimitsAreNat DEF RouteRefused, ListsInv
<1>3. ListsInv'
  BY <1>1, <1>2 DEF ListsInv, Remembers, After, CountOf
<1>4. RouterTypeOK'
  BY <1>1, <1>2 DEF RouteRefused
<1>5. CountsInv'
  BY <1>1 DEF CountsInv
<1>6. HandedOverLimits'
  BY <1>1 DEF HandedOverLimits, HandedOver
<1> QED
  BY <1>3, <1>4, <1>5, <1>6

(* A list that remembered what was handed over and takes the new time.     *)
LEMMA RemembersNew ==
    ASSUME now \in Nat, routed \in Seq(Nat), NEW ts \in Seq(Nat), NEW w \in Nat,
           Remembers(ts, w), now' = now, routed' = Append(routed, now)
    PROVE  \A t \in Int : t >= now' - w => After(Append(ts, now), t) = After(routed', t)
BY AfterAppend DEF Remembers

(* Taking a slot keeps the invariant: the one step that adds to counts and *)
(* windows.                                                                *)
LEMMA AcceptedInductive ==
    ASSUME RouterInv, NEW t \in Tasks, NEW g \in Segments, RouteAccepted(t, g)
    PROVE  RouterInv'
<1> DEFINE sec == Pruned(second_timestamps, OneSecond)
           min == Pruned(minute_timestamps, OneMinute)
<1>0. /\ RouterTypeOK /\ ListsInv /\ CountsInv /\ HandedOverLimits
      /\ now \in Nat /\ routed \in Seq(Nat)
  BY DEF RouterInv, RouterTypeOK
<1>1. /\ now' = now /\ routed' = Append(routed, now)
      /\ second_timestamps' = Append(sec, now) /\ minute_timestamps' = Append(min, now)
      /\ daily_count' = daily_count + 1
      /\ segment_counts' = [segment_counts EXCEPT ![g] = @ + 1]
      /\ t \notin routing /\ routing' = routing \cup {t}
      /\ asked' = asked + 1 /\ UNCHANGED <<results, raised>>
      /\ ~RateLimited(sec, min)
  BY DEF RouteAccepted, CanRoute
<1>2. /\ sec \in Seq(Nat) /\ Remembers(sec, OneSecond) /\ Len(sec) = HandedOver(OneSecond)
      /\ min \in Seq(Nat) /\ Remembers(min, OneMinute) /\ Len(min) = HandedOver(OneMinute)
  BY <1>0, PrunedLength, LimitsAreNat DEF RouterTypeOK, ListsInv
<1>3. /\ HandedOver(OneSecond) < Or(MaxOps, SettingsOps)
      /\ HandedOver(OneMinute) < Or(MaxOpm, SettingsOpm)
      /\ daily_count < Or(MaxOpd, SettingsOpd)
  <2>1. /\ Len(sec) \in Nat /\ Len(min) \in Nat /\ daily_count \in Nat
    BY <1>0, <1>2, LenProperties DEF RouterTypeOK
  <2> QED
    BY <1>1, <1>2, <2>1, LimitsAreNat DEF RateLimited
<1> HIDE DEF sec, min
<1>4. /\ routed' \in Seq(Nat) /\ Len(routed') = Len(routed) + 1
      /\ routed'[Len(routed) + 1] = now
      /\ \A i \in 1..Len(routed) : routed'[i] = routed[i]
  BY <1>0, <1>1, AppendProperties
<1>5. RouterTypeOK'
  <2>1. second_timestamps' \in Seq(Nat) /\ minute_timestamps' \in Seq(Nat)
    BY <1>0, <1>1, <1>2, AppendProperties
  <2> QED
    BY <1>0, <1>1, <1>4, <2>1 DEF RouterTypeOK
<1>6. ListsInv'
  <2>1. \A x \in Int : x >= now' - OneSecond =>
            After(second_timestamps', x) = After(routed', x)
    BY <1>0, <1>1, <1>2, RemembersNew, LimitsAreNat
  <2>2. \A x \in Int : x >= now' - OneMinute =>
            After(minute_timestamps', x) = After(routed', x)
    BY <1>0, <1>1, <1>2, RemembersNew, LimitsAreNat
  <2> QED
    BY <2>1, <2>2 DEF ListsInv, Remembers, After, CountOf
<1>7. CountsInv'
  <2>1. daily_count' = Len(routed')
    BY <1>0, <1>1, <1>4 DEF CountsInv
  <2>2. daily_count' = results' + raised' + Cardinality(routing')
    <3>1. IsFiniteSet(routing)
      BY <1>0, RouterAssumption, FS_Subset DEF RouterTypeOK
    <3>2. Cardinality(routing') = Cardinality(routing) + 1 /\ Cardinality(routing) \in Nat
      BY <1>1, <3>1, FS_AddElement, FS_CardinalityType
    <3> QED
      BY <1>0, <1>1, <3>2 DEF CountsInv, RouterTypeOK
  <2>3. daily_count' = SumFunction(segment_counts')
    <3>1. /\ segment_counts \in [Segments -> Nat] /\ segment_counts' \in [Segments -> Nat]
          /\ segment_counts'[g] = segment_counts[g] + 1
          /\ \A y \in Segments \ {g} : segment_counts'[y] = segment_counts[y]
      BY <1>0, <1>1 DEF RouterTypeOK
    <3>2. SumFunctionOnSet(segment_counts', Segments)
              = SumFunctionOnSet(segment_counts, Segments) + segment_counts'[g]
                    - segment_counts[g]
      BY <3>1, RouterAssumption, SumChanged
    <3>3. daily_count \in Int /\ daily_count = SumFunctionOnSet(segment_counts, Segments)
      BY <1>0, <3>1 DEF CountsInv, RouterTypeOK, SumFunction
    <3>4. SumFunctionOnSet(segment_counts', Segments) = daily_count + 1
      BY <3>1, <3>2, <3>3
    <3> QED
      BY <1>1, <3>1, <3>4 DEF SumFunction
  <2>4. \A i \in 1..Len(routed') : routed'[i] <= now'
    BY <1>0, <1>1, <1>4 DEF CountsInv
  <2> QED
    BY <2>1, <2>2, <2>3, <2>4 DEF CountsInv
<1>8. HandedOverLimits'
  <2>1. ASSUME NEW w \in Nat \ {0}
        PROVE  HandedOver(w)' = HandedOver(w) + 1
    <3>1. HandedOver(w) = After(routed, now - w)
      BY <1>0, HandedOverIsAfter
    <3>2. HandedOver(w)' = After(routed', now' - w)
      <4>1. {i \in 1..Len(routed') : routed'[i] > now' - w}
                = {i \in 1..Len(routed') : routed'[i] \in {x \in Nat : x > now' - w}}
        BY <1>4, ElementOfSeq
      <4> QED
        BY <4>1 DEF HandedOver, After, CountOf
    <3>3. After(Append(routed, now), now - w) = After(routed, now - w) + 1
      <4>1. now - w \in Int /\ now > now - w
        BY <1>0
      <4> QED
        BY <1>0, <4>1, AfterAppend
    <3> QED
      BY <1>1, <3>1, <3>2, <3>3
  <2>2. /\ HandedOver(OneSecond) \in Nat /\ HandedOver(OneMinute) \in Nat
        /\ Len(routed) \in Nat /\ Len(routed) = daily_count
    BY <1>0, <1>2, LenProperties DEF CountsInv
  <2>3. /\ HandedOver(OneSecond)' = HandedOver(OneSecond) + 1
        /\ HandedOver(OneMinute)' = HandedOver(OneMinute) + 1
    BY <2>1, LimitsAreNat
  <2> QED
    BY <1>3, <1>4, <2>2, <2>3, LimitsAreNat DEF HandedOverLimits
<1> QED
  BY <1>5, <1>6, <1>7, <1>8 DEF RouterInv

(* submit answers or raises: the order keeps its slot in every count.      *)
LEMMA SubmitEndsInductive ==
    ASSUME RouterInv, NEW t \in Tasks, SubmitReturns(t) \/ SubmitRaises(t)
    PROVE  RouterInv'
<1>0. RouterTypeOK /\ ListsInv /\ CountsInv /\ HandedOverLimits
  BY DEF RouterInv
<1>1. /\ UNCHANGED <<now, second_timestamps, minute_timestamps, daily_count, segment_counts,
                     asked, routed>>
      /\ t \in routing /\ routing' = routing \ {t}
      /\ \/ results' = results + 1 /\ raised' = raised
         \/ results' = results /\ raised' = raised + 1
  BY DEF SubmitReturns, SubmitRaises
<1>2. RouterTypeOK'
  BY <1>0, <1>1 DEF RouterTypeOK
<1>3. ListsInv' /\ HandedOverLimits'
  BY <1>0, <1>1 DEF ListsInv, Remembers, After, CountOf, HandedOverLimits, HandedOver
<1>4. CountsInv'
  <2>1. IsFiniteSet(routing)
    BY <1>0, RouterAssumption, FS_Subset DEF RouterTypeOK
  <2>2. Cardinality(routing') = Cardinality(routing) - 1 /\ Cardinality(routing) \in Nat
    BY <1>1, <2>1, FS_RemoveElement, FS_CardinalityType
  <2>3. daily_count = results' + raised' + Cardinality(routing')
    BY <1>0, <1>1, <2>2 DEF CountsInv, RouterTypeOK
  <2> QED
    BY <1>0, <1>1, <2>3 DEF CountsInv
<1> QED
  BY <1>2, <1>3, <1>4 DEF RouterInv

(* Time passes: what was handed over leaves the windows, never enters one. *)
LEMMA TimeInductive ==
    ASSUME RouterInv, TimePasses
    PROVE  RouterInv'
<1>0. /\ RouterTypeOK /\ ListsInv /\ CountsInv /\ HandedOverLimits
      /\ now \in Nat /\ routed \in Seq(Nat)
  BY DEF RouterInv, RouterTypeOK
<1>1. /\ now' = now + 1 /\ now' <= MaxTime
      /\ UNCHANGED <<second_timestamps, minute_timestamps, daily_count, segment_counts,
                     results, routing, asked, routed, raised>>
  BY <1>0, ClockAssumption DEF TimePasses, Tick
<1>2. RouterTypeOK'
  BY <1>0, <1>1 DEF RouterTypeOK
<1>3. ListsInv'
  <2>1. \A w \in Nat, t \in Int : t >= now' - w => t >= now - w
    BY <1>0, <1>1
  <2> QED
    BY <1>0, <1>1, <2>1, LimitsAreNat DEF ListsInv, Remembers, After, CountOf
<1>4. CountsInv'
  <2>1. \A i \in 1..Len(routed) : routed[i] \in Nat /\ routed[i] <= now
    BY <1>0, ElementOfSeq DEF CountsInv
  <2>2. \A i \in 1..Len(routed) : routed'[i] <= now'
    BY <1>0, <1>1, <2>1
  <2> QED
    BY <1>0, <1>1, <2>2 DEF CountsInv
<1>5. ASSUME NEW w \in Nat
      PROVE  HandedOver(w)' <= HandedOver(w) /\ HandedOver(w) \in Nat /\ HandedOver(w)' \in Nat
  <2> DEFINE P == {x \in Nat : x > now' - w}
             Q == {x \in Nat : x > now - w}
  <2>1. HandedOver(w) = CountOf(routed, Q)
    BY <1>0, HandedOverIsAfter DEF After
  <2>2. HandedOver(w)' = CountOf(routed, P)
    <3>1. {i \in 1..Len(routed) : routed[i] > now' - w}
              = {i \in 1..Len(routed) : routed[i] \in P}
      BY <1>0, ElementOfSeq
    <3> QED
      BY <1>1, <3>1 DEF HandedOver, CountOf
  <2>3. \A x : x \in P => x \in Q
    BY <1>0, <1>1
  <2> HIDE DEF P, Q
  <2> QED
    BY <1>0, <2>1, <2>2, <2>3, CountOfSubset, CountOfNat
<1>6. HandedOverLimits'
  <2>1. Len(routed') = Len(routed)
    BY <1>1
  <2>2. /\ HandedOver(OneSecond)' <= HandedOver(OneSecond) /\ HandedOver(OneSecond) \in Nat
        /\ HandedOver(OneMinute)' <= HandedOver(OneMinute) /\ HandedOver(OneMinute) \in Nat
        /\ HandedOver(OneSecond)' \in Nat /\ HandedOver(OneMinute)' \in Nat
    BY <1>5, LimitsAreNat
  <2> QED
    BY <1>0, <2>1, <2>2, LimitsAreNat DEF HandedOverLimits
<1> QED
  BY <1>2, <1>3, <1>4, <1>6 DEF RouterInv

(* Every step keeps the invariant of the router.                           *)
LEMMA RouterInvInductive == RouterInv /\ [RouterNext]_routerVars => RouterInv'
<1> SUFFICES ASSUME RouterInv, [RouterNext]_routerVars
             PROVE  RouterInv'
  OBVIOUS
<1>1. ASSUME NEW t \in Tasks, RouteRefused(t)
      PROVE  RouterInv'
  BY <1>1, RefusedInductive
<1>2. ASSUME NEW t \in Tasks, NEW g \in Segments, RouteAccepted(t, g)
      PROVE  RouterInv'
  BY <1>2, AcceptedInductive
<1>3. ASSUME NEW t \in Tasks, SubmitReturns(t) \/ SubmitRaises(t)
      PROVE  RouterInv'
  BY <1>3, SubmitEndsInductive
<1>4. CASE TimePasses
  BY <1>4, TimeInductive
<1>5. CASE UNCHANGED routerVars
  BY <1>5 DEF routerVars, RouterInv, RouterTypeOK, ListsInv, Remembers, After, CountOf,
              CountsInv, HandedOverLimits, HandedOver
<1> QED
  BY <1>1, <1>2, <1>3, <1>4, <1>5 DEF RouterNext

(* The router's invariant, for every set of limits, tasks and segments.    *)
THEOREM RouterInvHolds == RouterSpec => []RouterInv
<1> QED
  BY RouterInitInv, RouterInvInductive, PTL DEF RouterSpec

(* However many tasks route at once, however long the engine takes and     *)
(* whether or not it raises, the engine is handed no more than the limits  *)
(* of a second, a minute and in all: the slot is taken before the await    *)
(* (OrderRouter.route), from lists that remember the whole window.         *)
THEOREM HandedOverLimitsHolds == RouterSpec => []HandedOverLimits
<1> QED
  BY RouterInvHolds, PTL DEF RouterInv

(* Every slot taken is in the daily count, in the count of a segment, and  *)
(* awaited, answered or lost; what pruning leaves of a list is exactly     *)
(* what was handed over in its window.                                     *)
THEOREM EverySlotExplainedHolds == RouterSpec => []EverySlotExplained
<1>1. RouterInv => EverySlotExplained
  <2> SUFFICES ASSUME RouterInv
               PROVE  EverySlotExplained
    OBVIOUS
  <2>1. /\ Len(Pruned(second_timestamps, OneSecond)) = HandedOver(OneSecond)
        /\ Len(Pruned(minute_timestamps, OneMinute)) = HandedOver(OneMinute)
    BY PrunedLength, LimitsAreNat DEF RouterInv, RouterTypeOK, ListsInv
  <2> QED
    BY <2>1 DEF RouterInv, CountsInv, EverySlotExplained
<1> QED
  BY <1>1, RouterInvHolds, PTL

(* An order is refused only when the engine was given as many as a limit   *)
(* allows in its window: no list holds a time that is out of its window,   *)
(* and the daily count counts the orders handed over and nothing else.     *)
THEOREM RefusedOnlyAtALimitHolds == RouterSpec => RefusedOnlyAtALimit
<1> DEFINE AtLimit == \/ HandedOver(OneSecond) >= Or(MaxOps, SettingsOps)
                      \/ HandedOver(OneMinute) >= Or(MaxOpm, SettingsOpm)
                      \/ Len(routed) >= Or(MaxOpd, SettingsOpd)
<1>1. ASSUME RouterInv, [RouterNext]_routerVars, asked' # asked, routed' = routed
      PROVE  AtLimit
  <2>0. RouterTypeOK /\ ListsInv /\ CountsInv /\ routed \in Seq(Nat) /\ now \in Nat
    BY <1>1 DEF RouterInv, RouterTypeOK
  <2>1. PICK t \in Tasks : RouteRefused(t)
    <3>1. ASSUME NEW t \in Tasks, NEW g \in Segments, RouteAccepted(t, g)
          PROVE  FALSE
      <4>1. routed' = Append(routed, now)
        BY <3>1 DEF RouteAccepted
      <4>2. Len(routed') = Len(routed) + 1 /\ Len(routed) \in Nat
        BY <2>0, <4>1, AppendProperties, LenProperties
      <4> QED
        BY <1>1, <4>2
    <3> QED
      BY <1>1, <3>1 DEF RouterNext, SubmitReturns, SubmitRaises, TimePasses, routerVars
  <2>2. /\ Len(second_timestamps') = HandedOver(OneSecond)
        /\ Len(minute_timestamps') = HandedOver(OneMinute)
        /\ RateLimited(second_timestamps', minute_timestamps')
    BY <2>0, <2>1, PrunedLength, LimitsAreNat DEF RouteRefused, RouterTypeOK, ListsInv
  <2> QED
    BY <2>0, <2>2 DEF RateLimited, CountsInv
<1>2. RouterInv /\ [RouterNext]_routerVars =>
          [asked' # asked /\ routed' = routed => AtLimit]_routerVars
  <2> HIDE DEF AtLimit
  <2> QED
    BY <1>1
<1> QED
  BY <1>2, RouterInvHolds, PTL DEF RouterSpec, RefusedOnlyAtALimit
-----------------------------------------------------------------------------
Entry == [payload: Payloads, prev_checksum: Seq(Payloads), checksum: Seq(Payloads)]

TrailTypeOK ==
    /\ entries \in Seq(Entry)
    /\ recorded \in Seq(Payloads)
    /\ faults \in Nat

(* No write reaches a checksum: each still digests payloads that were      *)
(* recorded, in their order.                                               *)
Digests == \A i \in 1..Len(entries) : IsSubsequence(entries[i].checksum, recorded)

Complete == faults = 0 => VerifyChain /\ PayloadsOf(entries) = recorded

TrailInv == TrailTypeOK /\ Digests /\ Complete
-----------------------------------------------------------------------------
(* The payloads of the entries, one by one.                                *)
LEMMA PayloadsSeq ==
    ASSUME entries \in Seq(Entry)
    PROVE  /\ PayloadsOf(entries) \in Seq(Payloads)
           /\ Len(PayloadsOf(entries)) = Len(entries)
           /\ \A i \in 1..Len(entries) : PayloadsOf(entries)[i] = entries[i].payload
<1>1. \A i \in 1..Len(entries) : entries[i].payload \in Payloads
  <2>1. \A i \in 1..Len(entries) : entries[i] \in Entry
    BY ElementOfSeq
  <2> QED
    BY <2>1 DEF Entry
<1>2. Len(entries) \in Nat
  OBVIOUS
<1> QED
  BY <1>1, <1>2 DEF PayloadsOf

(* A subsequence stays one when the same element is added to both, or one  *)
(* to the longer.                                                          *)
LEMMA SubsequenceGrows ==
    ASSUME NEW es \in Seq(Payloads), NEW ps \in Seq(Payloads), NEW p \in Payloads,
           IsSubsequence(es, ps)
    PROVE  /\ IsSubsequence(es, Append(ps, p))
           /\ IsSubsequence(Append(es, p), Append(ps, p))
<1>1. PICK at \in [1..Len(es) -> 1..Len(ps)] :
          /\ \A i, j \in 1..Len(es) : i < j => at[i] < at[j]
          /\ \A i \in 1..Len(es) : es[i] = ps[at[i]]
  BY DEF IsSubsequence
<1>2. /\ Len(es) \in Nat /\ Len(ps) \in Nat
      /\ Len(Append(ps, p)) = Len(ps) + 1 /\ Len(Append(es, p)) = Len(es) + 1
      /\ Append(ps, p)[Len(ps) + 1] = p /\ Append(es, p)[Len(es) + 1] = p
      /\ \A i \in 1..Len(ps) : Append(ps, p)[i] = ps[i]
      /\ \A i \in 1..Len(es) : Append(es, p)[i] = es[i]
  BY AppendProperties
<1>3. IsSubsequence(es, Append(ps, p))
  <2>1. at \in [1..Len(es) -> 1..Len(Append(ps, p))]
    BY <1>2
  <2>2. \A i \in 1..Len(es) : es[i] = Append(ps, p)[at[i]]
    BY <1>1, <1>2
  <2> QED
    BY <1>1, <2>1, <2>2 DEF IsSubsequence
<1>4. IsSubsequence(Append(es, p), Append(ps, p))
  <2> DEFINE n == Len(es)
             m == Len(ps)
             to == [i \in 1..n + 1 |-> IF i = n + 1 THEN m + 1 ELSE at[i]]
  <2>1. to \in [1..n + 1 -> 1..m + 1]
    BY <1>2
  <2>2. \A i \in 1..n : to[i] = at[i] /\ at[i] \in 1..m
    BY <1>2
  <2>3. to[n + 1] = m + 1
    BY <1>2
  <2> HIDE DEF to
  <2>4. \A i, j \in 1..n + 1 : i < j => to[i] < to[j]
    <3> SUFFICES ASSUME NEW i \in 1..n + 1, NEW j \in 1..n + 1, i < j
                 PROVE  to[i] < to[j]
      OBVIOUS
    <3>1. i \in 1..n
      BY <1>2
    <3>2. CASE j = n + 1
      BY <1>2, <2>2, <2>3, <3>1, <3>2
    <3>3. CASE j \in 1..n
      BY <1>1, <2>2, <3>1, <3>3
    <3> QED
      BY SMTT(20), <1>2, <3>2, <3>3
  <2>5. \A i \in 1..n + 1 : Append(es, p)[i] = Append(ps, p)[to[i]]
    <3> SUFFICES ASSUME NEW i \in 1..n + 1
                 PROVE  Append(es, p)[i] = Append(ps, p)[to[i]]
      OBVIOUS
    <3>1. CASE i = n + 1
      BY <1>2, <2>3, <3>1
    <3>2. CASE i \in 1..n
      BY <1>1, <1>2, <2>2, <3>2
    <3>3. i = n + 1 \/ i \in 1..n
      BY <1>2
    <3> QED
      BY <3>1, <3>2, <3>3
  <2> QED
    BY <1>2, <2>1, <2>4, <2>5 DEF IsSubsequence
<1> QED
  BY <1>3, <1>4

(* Nothing is a subsequence of anything.                                   *)
LEMMA EmptySubsequence ==
    ASSUME NEW ps \in Seq(Payloads)
    PROVE  IsSubsequence(<<>>, ps)
<1>1. [i \in {} |-> i] \in [1..Len(<<>>) -> 1..Len(ps)]
  OBVIOUS
<1> QED
  BY <1>1 DEF IsSubsequence

(* The checksum of entry i of a chain that verifies digests the payloads   *)
(* of the entries up to i, each as it is now.                              *)
DigestsAll(i) ==
    /\ Len(entries[i].checksum) = i
    /\ \A k \in 1..i : entries[i].checksum[k] = entries[k].payload

(* In a chain that verifies each checksum digests all payloads up to it.   *)
LEMMA VerifiedDigests ==
    ASSUME entries \in Seq(Entry), VerifyChain
    PROVE  \A i \in 1..Len(entries) : DigestsAll(i)
<1> DEFINE Wrong == {i \in 1..Len(entries) : ~DigestsAll(i)}
<1>0. Len(entries) \in Nat
  OBVIOUS
<1>1. SUFFICES ASSUME Wrong # {}
               PROVE  FALSE
  OBVIOUS
<1>2. PICK i \in Wrong : \A j \in Wrong : i <= j
  <2>1. Wrong \in SUBSET Nat
    BY <1>0
  <2> HIDE DEF Wrong
  <2> QED
    BY <1>1, <2>1, LeastNumber
<1>3. i \in 1..Len(entries) /\ ~DigestsAll(i)
  OBVIOUS
<1>4. \A j \in 1..Len(entries) : j < i => DigestsAll(j)
  <2> SUFFICES ASSUME NEW j \in 1..Len(entries), j < i, ~DigestsAll(j)
               PROVE  FALSE
    OBVIOUS
  <2>1. j \in Wrong
    OBVIOUS
  <2> HIDE DEF Wrong
  <2> QED
    BY <1>0, <1>2, <1>3, <2>1
<1> DEFINE prev == entries[i].prev_checksum
           p == entries[i].payload
<1>5. /\ prev \in Seq(Payloads) /\ p \in Payloads
      /\ entries[i].checksum = Append(prev, p)
      /\ prev = IF i = 1 THEN GENESIS ELSE entries[i - 1].checksum
  <2>1. entries[i] \in Entry
    BY <1>3, ElementOfSeq
  <2> QED
    BY <1>3, <2>1 DEF VerifyChain, Checksum, Entry
<1>6. Len(prev) = i - 1 /\ \A k \in 1..i - 1 : prev[k] = entries[k].payload
  <2>1. CASE i = 1
    <3>1. prev = <<>>
      BY <1>5, <2>1 DEF GENESIS
    <3> HIDE DEF prev
    <3> QED
      BY <2>1, <3>1
  <2>2. CASE i # 1
    <3>1. i - 1 \in 1..Len(entries) /\ i - 1 < i
      BY <1>0, <1>3, <2>2
    <3>2. DigestsAll(i - 1) /\ prev = entries[i - 1].checksum
      BY <1>4, <1>5, <2>2, <3>1
    <3> HIDE DEF prev
    <3> QED
      BY <3>2 DEF DigestsAll
  <2> QED
    BY <2>1, <2>2
<1> HIDE DEF prev
<1>7. /\ Len(Append(prev, p)) = i /\ Append(prev, p)[i] = p
      /\ \A k \in 1..i - 1 : Append(prev, p)[k] = prev[k]
  <2> HIDE DEF p
  <2>1. /\ Len(Append(prev, p)) = Len(prev) + 1 /\ Append(prev, p)[Len(prev) + 1] = p
        /\ \A k \in 1..Len(prev) : Append(prev, p)[k] = prev[k]
    BY <1>5, AppendProperties
  <2> QED
    BY <1>0, <1>3, <1>6, <2>1
<1>8. ASSUME NEW k \in 1..i
      PROVE  entries[i].checksum[k] = entries[k].payload
  <2>1. k = i \/ k \in 1..i - 1
    BY <1>0, <1>3
  <2> QED
    BY <1>5, <1>6, <1>7, <2>1
<1> QED
  BY <1>3, <1>5, <1>7, <1>8 DEF DigestsAll

(* A chain that verifies is the last of its checksums.                     *)
LEMMA VerifiedIsDigest ==
    ASSUME TrailTypeOK, Digests, VerifyChain
    PROVE  IsSubsequence(PayloadsOf(entries), recorded)
<1>0. entries \in Seq(Entry) /\ recorded \in Seq(Payloads) /\ Len(entries) \in Nat
  BY DEF TrailTypeOK
<1>1. CASE Len(entries) = 0
  <2>1. PayloadsOf(entries) = <<>>
    BY <1>0, <1>1, PayloadsSeq, EmptySeq
  <2> QED
    BY <1>0, <2>1, EmptySubsequence
<1>2. CASE Len(entries) # 0
  <2> DEFINE n == Len(entries)
             last == entries[n].checksum
  <2>1. n \in 1..n
    BY <1>0, <1>2
  <2>2. last \in Seq(Payloads) /\ IsSubsequence(last, recorded)
    <3>1. entries[n] \in Entry
      BY <1>0, <2>1, ElementOfSeq
    <3> QED
      BY <2>1, <3>1 DEF Digests, Entry
  <2>3. Len(last) = n /\ \A k \in 1..n : last[k] = entries[k].payload
    BY <1>0, <2>1, VerifiedDigests DEF DigestsAll
  <2> HIDE DEF last
  <2>4. PayloadsOf(entries) = last
    BY <1>0, <2>2, <2>3, PayloadsSeq, SeqEqual
  <2> QED
    BY <2>2, <2>4
<1> QED
  BY <1>1, <1>2
-----------------------------------------------------------------------------
(* record() adds one entry and leaves the others as they are.              *)
LEMMA RecordAdds ==
    ASSUME TrailTypeOK, NEW p \in Payloads, RecordPayload(p), LastChecksum \in Seq(Payloads)
    PROVE  /\ entries' \in Seq(Entry) /\ Len(entries') = Len(entries) + 1
           /\ \A i \in 1..Len(entries) : entries'[i] = entries[i]
           /\ entries'[Len(entries) + 1] =
                  [payload |-> p, prev_checksum |-> LastChecksum, checksum |-> Append(LastChecksum, p)]
           /\ PayloadsOf(entries') = Append(PayloadsOf(entries), p)
<1> DEFINE e == [payload |-> p, prev_checksum |-> LastChecksum, checksum |-> Append(LastChecksum, p)]
<1>0. entries \in Seq(Entry) /\ Len(entries) \in Nat
  BY DEF TrailTypeOK
<1>1. e \in Entry
  BY DEF Entry
<1>2. entries' = Append(entries, e)
  BY DEF RecordPayload, Checksum
<1>3. e.payload = p
  OBVIOUS
<1> HIDE DEF e
<1>4. /\ entries' \in Seq(Entry) /\ Len(entries') = Len(entries) + 1
      /\ \A i \in 1..Len(entries) : entries'[i] = entries[i]
      /\ entries'[Len(entries) + 1] = e
  BY <1>0, <1>1, <1>2, AppendProperties
<1>5. PayloadsOf(entries') = Append(PayloadsOf(entries), p)
  <2>1. /\ PayloadsOf(entries') \in Seq(Payloads) /\ Len(PayloadsOf(entries')) = Len(entries) + 1
        /\ \A i \in 1..Len(entries) + 1 : PayloadsOf(entries')[i] = entries'[i].payload
    <3>1. \A i \in 1..Len(entries) + 1 : entries'[i].payload \in Payloads
      <4>1. \A i \in 1..Len(entries') : entries'[i] \in Entry
        BY <1>4, ElementOfSeq
      <4> QED
        BY <1>4, <4>1 DEF Entry
    <3> QED
      BY <1>0, <1>4, <3>1 DEF PayloadsOf
  <2>2. /\ PayloadsOf(entries) \in Seq(Payloads) /\ Len(PayloadsOf(entries)) = Len(entries)
        /\ \A i \in 1..Len(entries) : PayloadsOf(entries)[i] = entries[i].payload
    BY <1>0, PayloadsSeq
  <2> DEFINE S == PayloadsOf(entries)
  <2>3. /\ Append(S, p) \in Seq(Payloads) /\ Len(Append(S, p)) = Len(entries) + 1
        /\ Append(S, p)[Len(entries) + 1] = p
        /\ \A i \in 1..Len(entries) : Append(S, p)[i] = entries[i].payload
    <3> HIDE DEF S
    <3>1. S \in Seq(Payloads) /\ Len(S) = Len(entries)
      BY <2>2 DEF S
    <3>2. \A i \in 1..Len(entries) : Append(S, p)[i] = S[i]
      BY <1>0, <3>1, AppendProperties
    <3>3. \A i \in 1..Len(entries) : S[i] = entries[i].payload
      BY <2>2 DEF S
    <3> QED
      BY <1>0, <3>1, <3>2, <3>3, AppendProperties
  <2>4. \A i \in 1..Len(entries) + 1 : entries'[i].payload = Append(S, p)[i]
    <3> HIDE DEF S
    <3> SUFFICES ASSUME NEW i \in 1..Len(entries) + 1
                 PROVE  entries'[i].payload = Append(S, p)[i]
      OBVIOUS
    <3>1. i = Len(entries) + 1 \/ i \in 1..Len(entries)
      BY <1>0
    <3> QED
      BY <1>3, <1>4, <2>3, <3>1
  <2> HIDE DEF S
  <2>5. PayloadsOf(entries') = Append(S, p)
    <3> DEFINE A == PayloadsOf(entries')
               B == Append(S, p)
    <3>1. A \in Seq(Payloads) /\ B \in Seq(Payloads) /\ Len(A) = Len(B)
      BY <2>1, <2>3
    <3>2. \A i \in 1..Len(A) : A[i] = B[i]
      BY <2>1, <2>4
    <3> HIDE DEF A, B
    <3>3. A = B
      BY <3>1, <3>2, SeqEqual
    <3> QED
      BY <3>3 DEF A, B
  <2> QED
    BY <2>5 DEF S
<1> QED
  BY <1>4, <1>5 DEF e

(* So does the last checksum, the one the next entry is chained to.        *)
LEMMA LastDigests ==
    ASSUME TrailTypeOK
    PROVE  /\ LastChecksum \in Seq(Payloads)
           /\ Digests => IsSubsequence(LastChecksum, recorded)
<1>0. entries \in Seq(Entry) /\ recorded \in Seq(Payloads) /\ Len(entries) \in Nat
  BY DEF TrailTypeOK
<1>1. CASE entries = <<>>
  BY <1>0, <1>1, EmptySubsequence DEF LastChecksum, GENESIS
<1>2. CASE entries # <<>>
  <2>1. Len(entries) \in 1..Len(entries)
    BY <1>0, <1>2
  <2>2. entries[Len(entries)] \in Entry
    BY <1>0, <2>1, ElementOfSeq
  <2> QED
    BY <1>2, <2>1, <2>2 DEF LastChecksum, Digests, Entry
<1> QED
  BY <1>1, <1>2

(* Recording keeps the invariant of the trail.                             *)
LEMMA RecordInductive ==
    ASSUME TrailInv, NEW p \in Payloads, RecordPayload(p)
    PROVE  TrailInv'
<1>0. /\ entries \in Seq(Entry) /\ recorded \in Seq(Payloads) /\ Len(entries) \in Nat
      /\ recorded' = Append(recorded, p) /\ faults' = faults
  BY DEF TrailInv, TrailTypeOK, RecordPayload
<1>1. LastChecksum \in Seq(Payloads) /\ IsSubsequence(LastChecksum, recorded)
  BY LastDigests DEF TrailInv
<1>2. /\ entries' \in Seq(Entry) /\ Len(entries') = Len(entries) + 1
      /\ \A i \in 1..Len(entries) : entries'[i] = entries[i]
      /\ entries'[Len(entries) + 1] =
             [payload |-> p, prev_checksum |-> LastChecksum, checksum |-> Append(LastChecksum, p)]
      /\ PayloadsOf(entries') = Append(PayloadsOf(entries), p)
  BY <1>1, RecordAdds DEF TrailInv
<1>3. \A i \in 1..Len(entries') : i = Len(entries) + 1 \/ i \in 1..Len(entries)
  BY <1>0, <1>2
<1>4. TrailTypeOK'
  BY <1>0, <1>2 DEF TrailInv, TrailTypeOK
<1>5. Digests'
  <2> SUFFICES ASSUME NEW i \in 1..Len(entries')
               PROVE  IsSubsequence(entries'[i].checksum, Append(recorded, p))
    BY <1>0 DEF Digests, IsSubsequence
  <2>1. CASE i = Len(entries) + 1
    <3>1. entries'[i].checksum = Append(LastChecksum, p)
      BY <1>2, <2>1
    <3> QED
      BY <1>0, <1>1, <3>1, SubsequenceGrows
  <2>2. CASE i \in 1..Len(entries)
    <3>1. entries[i] \in Entry
      BY <1>0, <2>2, ElementOfSeq
    <3>2. entries[i].checksum \in Seq(Payloads) /\ IsSubsequence(entries[i].checksum, recorded)
      BY <2>2, <3>1 DEF TrailInv, Digests, Entry
    <3>3. entries'[i].checksum = entries[i].checksum
      BY <1>2, <2>2
    <3> QED
      BY <1>0, <3>2, <3>3, SubsequenceGrows
  <2> QED
    BY <1>3, <2>1, <2>2
<1>6. Complete'
  <2> SUFFICES ASSUME faults = 0
               PROVE  VerifyChain' /\ PayloadsOf(entries') = Append(recorded, p)
    BY <1>0 DEF Complete, PayloadsOf
  <2>1. VerifyChain /\ PayloadsOf(entries) = recorded
    BY DEF TrailInv, Complete
  <2>2. ASSUME NEW i \in 1..Len(entries')
        PROVE  /\ entries'[i].checksum = Append(entries'[i].prev_checksum, entries'[i].payload)
               /\ entries'[i].prev_checksum = IF i = 1 THEN GENESIS ELSE entries'[i - 1].checksum
    <3>1. CASE i \in 1..Len(entries)
      <4>1. i # 1 => i - 1 \in 1..Len(entries)
        BY <1>0, <3>1
      <4>2. i # 1 => entries'[i - 1] = entries[i - 1]
        BY <1>2, <4>1
      <4> QED
        BY <1>2, <2>1, <3>1, <4>2 DEF VerifyChain, Checksum
    <3>2. CASE i = Len(entries) + 1
      <4>1. entries'[i].checksum = Append(entries'[i].prev_checksum, entries'[i].payload)
        BY <1>2, <3>2
      <4>2. CASE Len(entries) = 0
        BY <1>0, <1>2, <3>2, <4>1, <4>2 DEF LastChecksum
      <4>3. CASE Len(entries) # 0
        <5>1. i # 1 /\ i - 1 = Len(entries) /\ Len(entries) \in 1..Len(entries) /\ entries # <<>>
          BY <1>0, <3>2, <4>3
        <5> QED
          BY <1>2, <3>2, <4>1, <5>1 DEF LastChecksum
      <4> QED
        BY <4>2, <4>3
    <3> QED
      BY <1>3, <3>1, <3>2
  <2> QED
    BY <1>2, <2>1, <2>2 DEF VerifyChain, Checksum
<1> QED
  BY <1>4, <1>5, <1>6 DEF TrailInv
-----------------------------------------------------------------------------
(* Whatever else writes into the trail leaves every checksum that remains  *)
(* as some entry had it.                                                   *)
LEMMA WrittenInto ==
    ASSUME TrailInv, entries' \in Seq(Entry), recorded' = recorded, faults' = faults + 1,
           \A i \in 1..Len(entries') :
               \E j \in 1..Len(entries) : entries'[i].checksum = entries[j].checksum
    PROVE  TrailInv'
<1>1. TrailTypeOK' /\ faults' # 0
  BY DEF TrailInv, TrailTypeOK
<1>2. Digests'
  <2> SUFFICES ASSUME NEW i \in 1..Len(entries')
               PROVE  IsSubsequence(entries'[i].checksum, recorded)
    BY DEF Digests, IsSubsequence
  <2>1. PICK j \in 1..Len(entries) : entries'[i].checksum = entries[j].checksum
    OBVIOUS
  <2>2. IsSubsequence(entries[j].checksum, recorded)
    BY DEF TrailInv, Digests
  <2> QED
    BY <2>1, <2>2
<1> QED
  BY <1>1, <1>2 DEF TrailInv, Complete

(* Writing into an entry keeps the invariant of the trail.                 *)
LEMMA EditInductive ==
    ASSUME TrailInv, NEW i \in 1..Len(entries), NEW p \in Payloads, EditAliased(i, p)
    PROVE  TrailInv'
<1> DEFINE e == [entries[i] EXCEPT !.payload = p]
<1>0. entries \in Seq(Entry) /\ entries[i] \in Entry
  BY ElementOfSeq DEF TrailInv, TrailTypeOK
<1>1. e \in Entry /\ e.checksum = entries[i].checksum
  BY <1>0 DEF Entry
<1>2. entries' = [entries EXCEPT ![i] = e]
  BY DEF EditAliased
<1> HIDE DEF e
<1>3. /\ entries' \in Seq(Entry) /\ Len(entries') = Len(entries)
      /\ \A j \in 1..Len(entries) : entries'[j] = IF j = i THEN e ELSE entries[j]
  BY <1>0, <1>1, <1>2
<1>4. \A j \in 1..Len(entries') : entries'[j].checksum = entries[j].checksum
  BY <1>1, <1>3
<1>5. recorded' = recorded /\ faults' = faults + 1
  BY DEF EditAliased
<1> QED
  BY <1>3, <1>4, <1>5, WrittenInto

(* Losing an entry keeps the invariant of the trail.                       *)
LEMMA LoseInductive ==
    ASSUME TrailInv, NEW i \in 1..Len(entries), Lose(i)
    PROVE  TrailInv'
<1> DEFINE A == SubSeq(entries, 1, i - 1)
           B == SubSeq(entries, i + 1, Len(entries))
<1>0. entries \in Seq(Entry) /\ Len(entries) \in Nat /\ i \in 1..Len(entries)
  BY DEF TrailInv, TrailTypeOK
<1>1. /\ A \in Seq(Entry) /\ Len(A) = i - 1
      /\ \A k \in 1..i - 1 : A[k] = entries[k]
  BY <1>0, SubSeqProperties
<1>2. /\ B \in Seq(Entry) /\ Len(B) = Len(entries) - i
      /\ \A k \in 1..Len(entries) - i : B[k] = entries[i + k]
  BY <1>0, SubSeqProperties
<1>3. entries' = A \o B
  BY DEF Lose
<1> HIDE DEF A, B
<1>4. /\ A \o B \in Seq(Entry) /\ Len(A \o B) = Len(entries) - 1
      /\ \A k \in 1..Len(entries) - 1 : (A \o B)[k] = IF k <= i - 1 THEN A[k] ELSE B[k - (i - 1)]
  <2>1. /\ A \o B \in Seq(Entry) /\ Len(A \o B) = Len(A) + Len(B)
        /\ \A k \in 1..Len(A) + Len(B) : (A \o B)[k] = IF k <= Len(A) THEN A[k] ELSE B[k - Len(A)]
    BY <1>1, <1>2, ConcatProperties
  <2>2. Len(A) + Len(B) = Len(entries) - 1
    BY <1>0, <1>1, <1>2
  <2> QED
    BY <1>1, <2>1, <2>2
<1>5. ASSUME NEW k \in 1..Len(entries')
      PROVE  \E j \in 1..Len(entries) : entries'[k].checksum = entries[j].checksum
  <2>1. k \in 1..Len(entries) - 1
    BY <1>3, <1>4
  <2>2. CASE k <= i - 1
    <3>1. k \in 1..i - 1 /\ k \in 1..Len(entries)
      BY <1>0, <2>1, <2>2
    <3>2. entries'[k] = entries[k]
      BY <1>1, <1>3, <1>4, <2>1, <2>2, <3>1
    <3> QED
      BY <3>1, <3>2
  <2>3. CASE ~(k <= i - 1)
    <3>1. k - (i - 1) \in 1..Len(entries) - i /\ i + (k - (i - 1)) = k + 1 /\ k + 1 \in 1..Len(entries)
      BY <1>0, <2>1, <2>3
    <3>2. entries'[k] = entries[k + 1]
      BY <1>2, <1>3, <1>4, <2>1, <2>3, <3>1
    <3> QED
      BY <3>1, <3>2
  <2> QED
    BY <2>2, <2>3
<1>6. recorded' = recorded /\ faults' = faults + 1
  BY DEF Lose
<1> QED
  BY <1>3, <1>4, <1>5, <1>6, WrittenInto

(* Exchanging two entries keeps the invariant of the trail.                *)
LEMMA ExchangeInductive ==
    ASSUME TrailInv, NEW i \in 1..Len(entries), NEW j \in 1..Len(entries), Exchange(i, j)
    PROVE  TrailInv'
<1>0. entries \in Seq(Entry) /\ entries[i] \in Entry /\ entries[j] \in Entry
  BY ElementOfSeq DEF TrailInv, TrailTypeOK
<1>1. entries' = [entries EXCEPT ![i] = entries[j], ![j] = entries[i]]
  BY DEF Exchange
<1>2. /\ entries' \in Seq(Entry) /\ Len(entries') = Len(entries)
      /\ \A k \in 1..Len(entries) : entries'[k] \in {entries[i], entries[j], entries[k]}
  BY <1>0, <1>1
<1>3. recorded' = recorded /\ faults' = faults + 1
  BY DEF Exchange
<1> QED
  BY <1>2, <1>3, WrittenInto

(* A restart keeps the invariant of the trail.                             *)
LEMMA RestartInductive ==
    ASSUME TrailInv, TrailRestarts
    PROVE  TrailInv'
<1>1. entries' \in Seq(Entry) /\ Len(entries') = 0
  BY DEF TrailRestarts
<1>2. recorded' = recorded /\ faults' = faults + 1
  BY DEF TrailRestarts
<1> QED
  BY <1>1, <1>2, WrittenInto

(* The types of the trail, that every checksum digests what was recorded,  *)
(* and that an untouched trail is complete.                                *)
THEOREM TrailInvHolds == TrailSpec => []TrailInv
<1>1. TrailInit => TrailInv
  <2> SUFFICES ASSUME TrailInit
               PROVE  TrailInv
    OBVIOUS
  <2>1. Len(entries) = 0 /\ entries = <<>> /\ recorded = <<>> /\ faults = 0
    BY DEF TrailInit
  <2>2. PayloadsOf(entries) = recorded
    BY <2>1, EmptySeq DEF PayloadsOf
  <2> QED
    BY <2>1, <2>2 DEF TrailInv, TrailTypeOK, Digests, Complete, VerifyChain
<1>2. TrailInv /\ [TrailNext]_trailVars => TrailInv'
  <2> SUFFICES ASSUME TrailInv, [TrailNext]_trailVars
               PROVE  TrailInv'
    OBVIOUS
  <2>1. CASE UNCHANGED trailVars
    BY <2>1 DEF trailVars, TrailInv, TrailTypeOK, Digests, Complete, VerifyChain, PayloadsOf, IsSubsequence
  <2> QED
    BY <2>1, RecordInductive, EditInductive, LoseInductive, ExchangeInductive, RestartInductive
    DEF TrailNext
<1> QED
  BY <1>1, <1>2, PTL DEF TrailSpec

(* A trail that verifies holds only what was recorded, unaltered and in    *)
(* the order it was recorded in, whatever was written into it, lost or     *)
(* exchanged; one that nobody wrote into verifies and is complete.         *)
THEOREM VerifiedIsRecordedHolds == TrailSpec => []VerifiedIsRecorded
<1>1. TrailInv => VerifiedIsRecorded
  BY VerifiedIsDigest DEF TrailInv, Complete, VerifiedIsRecorded
<1> QED
  BY <1>1, TrailInvHolds, PTL

(* Recording never mends a broken chain.                                   *)
THEOREM RecordingNeverMendsHolds == TrailSpec => RecordingNeverMends
<1>1. TrailInv /\ [TrailNext]_trailVars
      => [~VerifyChain /\ recorded' # recorded => ~VerifyChain']_trailVars
  <2> SUFFICES ASSUME TrailInv, TrailNext, VerifyChain', recorded' # recorded
               PROVE  VerifyChain
    BY DEF trailVars
  <2>1. PICK p \in Payloads : RecordPayload(p)
    BY DEF TrailNext, EditAliased, Lose, Exchange, TrailRestarts
  <2>2. /\ Len(entries') = Len(entries) + 1 /\ Len(entries) \in Nat
        /\ \A i \in 1..Len(entries) : entries'[i] = entries[i]
    <3>1. TrailTypeOK /\ LastChecksum \in Seq(Payloads)
      BY LastDigests DEF TrailInv
    <3>2. Len(entries) \in Nat
      BY <3>1 DEF TrailTypeOK
    <3> QED
      BY <2>1, <3>1, <3>2, RecordAdds
  <2> SUFFICES ASSUME NEW i \in 1..Len(entries)
               PROVE  /\ entries[i].checksum = Checksum(entries[i].payload, entries[i].prev_checksum)
                      /\ entries[i].prev_checksum = IF i = 1 THEN GENESIS ELSE entries[i - 1].checksum
    BY DEF VerifyChain
  <2>3. i \in 1..Len(entries') /\ (i # 1 => i - 1 \in 1..Len(entries))
    BY <2>2
  <2>4. entries'[i] = entries[i] /\ (i # 1 => entries'[i - 1] = entries[i - 1])
    BY <2>2, <2>3
  <2> QED
    BY <2>3, <2>4 DEF VerifyChain, Checksum
<1> QED
  BY <1>1, TrailInvHolds, PTL DEF TrailSpec, RecordingNeverMends

(* The hash chain implements the growing sequence that the components see. *)
THEOREM TrailImplementsLog == TrailSpec => ImplementsLog
<1>1. TrailInit => Log!AuditInit
  <2> SUFFICES ASSUME TrailInit
               PROVE  PayloadsOf(entries) = <<>>
    BY DEF Log!AuditInit
  <2>1. entries = <<>>
    BY DEF TrailInit
  <2> QED
    BY <2>1, EmptySeq DEF PayloadsOf
<1>2. TrailInv /\ [TrailNext]_trailVars => [faults' = faults => Log!LogNext]_(PayloadsOf(entries))
  <2> SUFFICES ASSUME TrailInv, [TrailNext]_trailVars, PayloadsOf(entries)' # PayloadsOf(entries),
                      faults' = faults
               PROVE  Log!LogNext
    OBVIOUS
  <2>1. entries \in Seq(Entry) /\ faults \in Nat
    BY DEF TrailInv, TrailTypeOK
  <2>2. ~UNCHANGED trailVars
    BY DEF trailVars, PayloadsOf
  <2>3. PICK p \in Payloads : RecordPayload(p)
    BY <2>1, <2>2 DEF TrailNext, EditAliased, Lose, Exchange, TrailRestarts
  <2> DEFINE S == PayloadsOf(entries)
  <2>4. PayloadsOf(entries)' = Append(S, p)
    BY <2>3, LastDigests, RecordAdds DEF TrailInv, PayloadsOf
  <2>5. S \in Seq(Payloads)
    BY <2>1, PayloadsSeq
  <2>6. p \in Log!AuditEntry
    BY PayloadAssumption
  <2>7. Len(Append(S, p)) = Len(S) + 1 /\ Append(S, p)[Len(S) + 1] = p
    <3> HIDE DEF S
    <3> QED
      BY <2>5, AppendProperties
  <2> QED
    BY <2>4, <2>6, <2>7 DEF Log!LogNext
<1> QED
  BY <1>1, <1>2, TrailInvHolds, PTL DEF TrailSpec, ImplementsLog
=============================================================================
