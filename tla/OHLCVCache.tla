----------------------------- MODULE OHLCVCache -----------------------------
(***************************************************************************)
(* The candle cache (src/data/cache.py): least recently used instruments   *)
(* are dropped above a number, idle ones after a time, old candles above a *)
(* number per instrument.  It is used by one thread.                       *)
(*                                                                         *)
(* The candles of an instrument are a list sorted by timestamp in which no *)
(* timestamp occurs twice: a function from timestamps to values.  The      *)
(* OrderedDict is the sequence of its keys and that function for each.     *)
(***************************************************************************)
EXTENDS Clock, Selection, SequencesExt

CONSTANTS
    Instruments,
    Timestamps,         \* of candles; unrelated to the clock
    Values,             \* the rest of a candle
    TTL, MaxInstruments, MaxCandles,
    MaxBatch,           \* bound: candles given to one put
    MaxPuts             \* bound: calls of put in a run

ASSUME CacheAssumption ==
    /\ Timestamps \subseteq Nat
    /\ {TTL, MaxInstruments, MaxCandles, MaxBatch, MaxPuts} \subseteq Nat
    /\ IsFiniteSet(Instruments)

VARIABLES
    keys,               \* the keys of _data, the least recently used first
    candles,            \* the values of _data
    last_access,
    puts,
    given               \* history: per instrument, all put since it was last absent

cacheVars == <<now, keys, candles, last_access, puts, given>>

Nothing == <<>>         \* the function with no timestamps: the empty list

CacheInit ==
    /\ ClockInit
    /\ keys = <<>> /\ candles = Nothing /\ last_access = Nothing
    /\ puts = 0
    /\ given = [i \in Instruments |-> Nothing]
-----------------------------------------------------------------------------
Only(f, S) == [x \in S |-> f[x]]

(* d[k] = v, where the key may be new.                                     *)
Set(d, k, v) == [x \in DOMAIN d \cup {k} |-> IF x = k THEN v ELSE d[x]]

(* Candle after candle: a timestamp already there is overwritten, so that  *)
(* each has the value it was given last.                                   *)
Merged(f, batch) ==
    LET With(t) == {k \in 1..Len(batch) : batch[k].timestamp = t}
    IN  [t \in DOMAIN f \cup {batch[k].timestamp : k \in 1..Len(batch)} |->
            IF With(t) = {} THEN f[t] ELSE batch[Max(With(t))].value]

(* The n newest of a set of timestamps.                                    *)
Newer(T, t) == {u \in T : u > t}
Newest(T, n) == {t \in T : Cardinality(Newer(T, t)) < n}

(* Instruments neither expired nor dropped.                                *)
Expired == {i \in ToSet(keys) : now - last_access[i] > TTL}

Live == Selected(keys, Instruments \ Expired)
-----------------------------------------------------------------------------
(* Faults: plausible mistakes in the operations.                           *)

TrimmedOldest(f) ==
    IF MaxCandles > 0 /\ Cardinality(DOMAIN f) > MaxCandles
    THEN Only(f, {t \in DOMAIN f : Cardinality({u \in DOMAIN f : u < t}) < MaxCandles})
    ELSE f

MovedToEndIfNew(ks, i) == IF i \in ToSet(ks) THEN ks ELSE Append(ks, i)

GetWithoutEviction(i) ==
    /\ i \in ToSet(keys)
    /\ keys' = Append(Selected(keys, Instruments \ {i}), i)
    /\ last_access' = [last_access EXCEPT ![i] = now]
    /\ UNCHANGED <<now, candles, given, puts>>
-----------------------------------------------------------------------------
(* move_to_end, for a key that is there or is just inserted.               *)
MovedToEnd(ks, i) == Append(Selected(ks, Instruments \ {i}), i)

(* Candles above the number are cut off; existing[-0:] is the whole list.  *)
Trimmed(f) ==
    IF MaxCandles > 0 /\ Cardinality(DOMAIN f) > MaxCandles
    THEN Only(f, Newest(DOMAIN f, MaxCandles))
    ELSE f

(* _enforce_max_instruments: the keys that stay.                           *)
Enforced(ks) ==
    IF Len(ks) > MaxInstruments
    THEN SubSeq(ks, Len(ks) - MaxInstruments + 1, Len(ks))
    ELSE ks

(* Everything about the keys that go is forgotten.                         *)
Keep(ks, cs, accesses, gs) ==
    /\ keys' = ks
    /\ candles' = Only(cs, ToSet(ks))
    /\ last_access' = Only(accesses, ToSet(ks))
    /\ given' = [i \in Instruments |-> IF i \in ToSet(ks) THEN gs[i] ELSE Nothing]

(* get, and latest which calls it: the access counts even when no candle   *)
(* is wanted.                                                              *)
Get(i) ==
    /\ IF i \in ToSet(Live)
       THEN Keep(MovedToEnd(Live, i), candles, [last_access EXCEPT ![i] = now], given)
       ELSE Keep(Live, candles, last_access, given)
    /\ UNCHANGED <<now, puts>>

(* Fault of Put: the expired instruments are still there.                  *)
PutWithoutEviction(i, batch) ==
    /\ puts < MaxPuts
    /\ LET old == IF i \in ToSet(keys) THEN candles[i] ELSE Nothing
           was == IF i \in ToSet(keys) THEN given[i] ELSE Nothing
       IN  Keep(Enforced(MovedToEnd(keys, i)),
                Set(candles, i, Trimmed(Merged(old, batch))),
                Set(last_access, i, now),
                [given EXCEPT ![i] = Merged(was, batch)])
    /\ puts' = puts + 1
    /\ UNCHANGED now

Put(i, batch) ==
    /\ puts < MaxPuts
    /\ LET old == IF i \in ToSet(Live) THEN candles[i] ELSE Nothing
           was == IF i \in ToSet(Live) THEN given[i] ELSE Nothing
       IN  Keep(Enforced(MovedToEnd(Live, i)),
                Set(candles, i, Trimmed(Merged(old, batch))),
                Set(last_access, i, now),
                [given EXCEPT ![i] = Merged(was, batch)])
    /\ puts' = puts + 1
    /\ UNCHANGED now

(* clear of one instrument and of all; the expired ones are not looked at. *)
Clear(S) ==
    /\ Keep(Selected(keys, Instruments \ S), candles, last_access, given)
    /\ UNCHANGED <<now, puts>>

TimePasses == Tick /\ UNCHANGED <<keys, candles, last_access, puts, given>>

Batches ==
    UNION {[1..n -> [timestamp: Timestamps, value: Values]] : n \in 0..MaxBatch}

CacheNext ==
    \/ \E i \in Instruments :
           Get(i) \/ (\E batch \in Batches : Put(i, batch)) \/ Clear({i})
    \/ Clear(Instruments)
    \/ TimePasses

CacheSpec == CacheInit /\ [][CacheNext]_cacheVars
-----------------------------------------------------------------------------
(* Merging list after list and cutting each time keeps what sorting and    *)
(* cutting everything put since the instrument came in would keep: the     *)
(* newest candles, each with the value put last.                           *)
NewestKept ==
    \A i \in ToSet(keys) :
        candles[i] = Only(given[i], Newest(DOMAIN given[i], MaxCandles))

(* The order of the keys is the order of the accesses, so that the cache   *)
(* drops the instrument that was idle longest, and it holds no more than   *)
(* it may.                                                                 *)
OldestFirst ==
    /\ \A m, n \in 1..Len(keys) : m < n => last_access[keys[m]] <= last_access[keys[n]]
    /\ Len(keys) <= MaxInstruments

(* An instrument idle for longer than the TTL comes back only by a put,    *)
(* and then with what that put brought and nothing else: its old candles   *)
(* are never read and never added to.                                      *)
NeverRevives ==
    [][ \A i \in Expired :
            /\ i \in ToSet(keys') /\ last_access'[i] = now => puts' # puts
            /\ \A batch \in Batches :
                   Put(i, batch) /\ i \in ToSet(keys') =>
                       candles'[i] = Trimmed(Merged(Nothing, batch)) ]_cacheVars
=============================================================================
