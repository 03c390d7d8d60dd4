# Formal model of the trading bot

TLA+ modules for the order path, the risk controls and the market data path of
this repository, the TLC configurations that check them, and the theorems TLAPS
proves about them. Paths below are relative to the repository root
(`src/execution/engine.py` and so on); PROJECT.json adds the prefix under which
the sources are kept.

    tlasany M.tla                         parse a module
    tlc -workers 2 -config X.cfg M        model-check
    tlapm M.tla                           check the proofs

## 1. The system

The program is a library of components for one asyncio process. There is no
`main`: the tests, and one day a bot, compose them. This is how the code lets
them be composed:

    strategy --> OrderRouter --> ExecutionEngine --> BrokerInterface --> exchange
                    (counts)       |  |   |           (ZerodhaAdapter)
                                   |  |   +--> AuditTrail
                                   |  +------> RiskManager --> RiskState
                                   +---------> KillSwitch        ^
                                                  ^              |
    account --> PositionTracker.sync/update_fill --+--------------+
    WebSocket --> TickerManager --> tick callbacks
    REST --> data provider --> OHLCVCache

| component | state | operations | depends on |
|---|---|---|---|
| `risk/kill_switch.py` KillSwitch | level, activation time, log | activate, deactivate, check_order_allowed, guard | - |
| `risk/audit.py` AuditTrail | list of hash-chained entries | record, verify_chain, get_entries | - |
| `risk/manager.py` RiskManager | RiskState: daily count, exposure, positions, margin, order times, rejections, allowed symbols | check (T1..T10), record_order_placed, register_symbol | KillSwitch, AuditTrail |
| `execution/engine.py` ExecutionEngine | none of its own besides the call stack of each task | submit, cancel, retry loop | all of the above, the broker |
| `execution/router.py` OrderRouter | order times of the second and the minute, daily count, counts per segment, results | route, cancel | engine |
| `execution/positions.py` PositionTracker | positions, realized and unrealized P&L | sync, update_fill, the loss and margin checks | broker, RiskState, KillSwitch, AuditTrail |
| `data/cache.py` OHLCVCache | ordered dict of candle lists, last access times | get, latest, put, clear | clock |
| `data/ticker.py` TickerManager | ticker list, subscriptions, connected flag | start, stop, subscribe, unsubscribe, callbacks | KiteTicker's thread |
| `brokers/zerodha.py` ZerodhaAdapter | access token, the SDK client with a token of its own | authenticate, generate_session, place_order, cancel_order, cancel_all_orders, get_positions, get_margins | exchange |
| `ta/`, `market/strength.py` | none | indicators, volatilities, readings of the option chain, the breadth and the VIX | candles |
| `market/greeks.py`, `risk/compliance.py`, `strategy/base.py`, `data/zerodha_provider.py`, `scripts/` | none | floating-point formulas, predicates, abstract classes, conversions, skeletons | - |

What is hard about it:

* **Await points.** `submit` reads the risk counters before it awaits the broker
  and writes them after; other tasks run in between. `PositionTracker.sync`
  awaits twice. `ZerodhaAdapter` is declared `async` and never awaits, so with it
  the loop stands still during a call, and most of this cannot happen; any other
  `BrokerInterface` brings it back.
* **Two threads.** `TickerManager` is called by the program's thread and called
  back by KiteTicker's, with no lock.
* **Lost answers.** An SDK error becomes the answer REJECTED even when the
  exchange took the order; an exception leads to a retry of the same order.
* **Order of notices.** A fill is seen by `sync` and by `update_fill`, in either
  order.
* **A book that moves.** `cancel_all_orders` lists the orders once and then cancels
  what it saw, while orders fill, trigger and arrive.
* **One switch, many hands.** The loss check, the margin check, an operator and a
  restart all write the kill switch, each over what the others wrote.
* **Restarts.** Nothing is persisted, and the container is restarted by itself
  (`deployment/docker-compose.yml:9`).
* **Boundaries.** Strict and non-strict comparisons against ten limits, sliding
  windows, an LRU with a TTL, zero and negative margins; for the indicators the
  first candle with a reading, offsets, and quotients without a value.

What makes each component correct, in a sentence: the switch is what its log
says and, within a life of the process, only a person resumes trading; the trail
that verifies is what was recorded; no order passes a limit except by what
concurrency explains, none is cleared while trading is halted, and trail, counters
and results agree; the router takes a
slot before it waits and forgets none; the tracker follows the broker and no
sync lets a loss through; the cache keeps the newest and drops the idlest; the
ticker streams what it records; the adapter does what its interface promises and
accounts for what it cancelled; a loss stops the orders, whatever else happens in
the process; an indicator reads the past only and stays within it.

## 2. The modules

| module | models | built on |
|---|---|---|
| Clock | the wall clock, in ticks | |
| KillSwitch | `risk/kill_switch.py`, its operations | Clock |
| OperatedSwitch | the switch on its own: an operator, restarts of the process, a reader of its log | KillSwitch |
| AuditLog | the trail as its writers see it: a growing sequence | |
| AuditTrail | `risk/audit.py`: the hash chain, aliasing by get_entries, restart; implements AuditLog | AuditLog (INSTANCE) |
| RiskManager | `risk/manager.py` | KillSwitch, AuditLog |
| ExecutionEngine | `execution/engine.py`, the broker adapter and the exchange behind it | RiskManager |
| AccountChecks | the two checks of `PositionTracker.sync`, as functions on the switch | KillSwitch |
| TradingBot | engine, syncs, kill switch, risk state and trail in one process, and its restarts | ExecutionEngine, AccountChecks |
| OrderRouter | `execution/router.py` | Clock, Selection |
| PositionTracker | `execution/positions.py`, the account it follows | RiskManager, AccountChecks |
| BrokerInterface | `brokers/base.py`: what the callers of a broker rely on | |
| ZerodhaAdapter | `brokers/zerodha.py`, the SDK and the exchange behind it; implements BrokerInterface | BrokerInterface (INSTANCE) |
| OHLCVCache | `data/cache.py` | Clock, Selection |
| TickerManager | `data/ticker.py`, KiteTicker's connections | |
| Fractions | exact arithmetic, for Python's Decimal | |
| Indicators, Volatility | `ta/indicators.py`, `ta/volatility.py` | Fractions |
| MarketStrength | `market/strength.py` | Fractions |
| MarketView | the data that a strategy would see, growing piece by piece | Volatility, MarketStrength |
| MC*.tla | TLC instances: request sets, symmetry; MCRecords and MCMarketData put two components that share nothing into one run | |
| Selection | a list comprehension with a condition, defined by a recursive function so that it can be reasoned about | |
| DataLemmas | what sums, counts and selections are, for any data | TLAPS, Selection |
| KillSwitchProofs | theorems about the switch and the two checks | OperatedSwitch, AccountChecks |
| ExecutionEngineProofs | theorems about the engine and the bot | TradingBot, KillSwitchProofs, DataLemmas |
| PositionTrackerProofs | theorems about the tracker | PositionTracker, KillSwitchProofs, DataLemmas |
| RecordsProofs | theorems about the router and the trail | OrderRouter, AuditTrail, DataLemmas |
| MarketDataProofs | theorems about the ticker manager and the cache | TickerManager, OHLCVCache, DataLemmas |
| ZerodhaAdapterProofs | theorems about the adapter | ZerodhaAdapter |
| MarketViewProofs | theorems about the analysis | MarketView, DataLemmas |

Each module has a section "Faults": mistakes a programmer could plausibly make in
one of its operations. They are used by no specification; PROJECT.json pairs each
checked property with a fault that breaks it.

**KillSwitch.** The object is a record `ks` and its operations are functions
from record to record, because one step of a caller may activate twice. A level
replaces the one in force whether it is higher or lower; activating at INACTIVE
and deactivating an inactive switch do nothing. `Restart` runs the constructor.
OperatedSwitch adds who uses it: `NewLife` is the container's restart, counted in
`lives` so that a property can tell it from an operation that happens to reset the
switch, and `ReaderAlters` is what `get_log` allows, which copies the list and shares
its entries. `altered` says that a reader has done so.

**AuditTrail.** SHA-256 is taken to be injective, so the checksum of an entry is
the sequence of all payloads it digests. `EditAliased` is what `get_entries`
allows (it hands out the entries' own dictionaries); `Lose` and `Exchange` are
what a store could do; `TrailRestarts` is a list in memory.

**RiskManager.** One operator per check, named T1 to T10 as in the code.
`RecordOrderPlaced` adds a sell to the position like a buy and takes no margin,
as the code does. T2 compares the minute of the day (`OneDay`, in minutes of
`OneMinute` ticks), both ends included, so trading opens again the next day. Nothing checks that a quantity is positive, and requests may carry any.
The engine and the tracker are composed with it.

**ExecutionEngine.** A task runs alone between two awaits, so the code between
two awaits is one action. `SubmitBlocked`, `SubmitRiskRejected` and
`SubmitCleared` are the three ways through the first stretch of `submit`;
`PlaceReturns`, `PlaceReturnsRejected`, `PlaceRaisesRetry` and `PlaceRaisesOut`
the ways out of the awaited call; `RetryWake` the end of `asyncio.sleep`, after
which the broker is called with nothing looked at again. `BlockingSDK` chooses
the adapter: TRUE is `ZerodhaAdapter` (never suspends, raises only without a
session, answers SDK errors as REJECTED), FALSE any other one. `RequestLeaves` puts
the request of an attempt on its way, `RequestArrives` makes it an order, at any later
time or never: also after the call was answered as rejected, raised, or died with the
process. An answer that is not REJECTED names an order the exchange has; REJECTED and
exceptions promise nothing, with either adapter. `_to_broker_order`, messages and
latencies are left out.

**OrderRouter.** `RouteAccepted` is everything up to the await, including the
pruning and the three counts; what `submit` does is reduced to returning or
raising at some later time. `Or` is Python's `x or y`: a limit of zero means
the one of the settings. `cancel` hands its argument to the engine and keeps
nothing.

**PositionTracker.** `SyncReads` is the answer to `get_positions`, `SyncApplies`
the answer to `get_margins` with everything the code then does, the two checks
included; `SyncRaises` the exception between. `UpdateFill` delivers fills in
order, once. The engine is one step here (`OrderPlaced`), because its
interleavings are the other module's subject. P&L and margins come from the
account and are arbitrary members of small sets. Nothing in the repository calls
`update_fill` (`execution/engine.py:8` lists "Position state update on fill");
the model calls it for every fill. Orders here have positive quantities, which is
what the exchange takes.

**TradingBot.** The engine's tasks, a task that syncs, an operator and the
container, over one kill switch, one risk state and one trail. A sync writes nothing
before its last await, so it is one step: it replaces the margin and the exposure
and may throw the switch twice, the margin check over the loss check. It needs the
loop. With the shipped adapter and no retry the loop is not free between the checks
of a submission and its bookkeeping, so that syncs fall between submissions only; with
a retry they fall into the sleep as well, and with an adapter that suspends anywhere.
`ProcessRestarts` may come anywhere, with a broker call under way too: memory is lost,
the exchange's orders stay, and requests on their way still arrive. `stoppedAt` is
history: how many submissions had begun when a sync found the loss beyond its limit,
until an operator lets orders through or the process dies; `synced` is the exposure
the last sync set.

**ZerodhaAdapter.** A call of the SDK is a request, perhaps an effect at the
exchange, and an answer or an exception, in steps of their own, so that each may
be lost: `PlaceFails` and `CancelFails` are enabled after the effect as well as
before it. `_access_token` and the token the client carries are two variables
because the code lets them come apart. `cancel_all_orders` is the listing, one
cancellation after another and the end; the exchange and the owner of the account
move the book meanwhile, cancelling orders too. Order types decide whether an order goes to OPEN or to
TRIGGER PENDING; `Received` are the exchange's statuses before either, none of which
the adapter cancels.

**BrokerInterface.** What engine.py assumes of a broker: one effect per call at
most, an order behind every PENDING answer, a cancelled one behind every CANCELLED,
REJECTED as an answer that promises nothing, exceptions only before the broker is
opened or from a listing. `brokers/base.py` has signatures only; the promises are those
that `submit`, `_submit_with_retry` and `cancel` are written for, and the map points
there. ZerodhaAdapter implements it with its statuses mapped to live, cancelled and
done.

**Indicators, Volatility, MarketStrength.** Each function of the source is an
operator. Decimals are exact fractions; the rounding to 28 digits is left out. What
has no exact value is given by something as good: Bollinger bands and volatilities
by their squares, logarithms to the base of two over prices that are powers of two
(or nought) up to 2 ^ MaxLog.
MarketView feeds them one candle, one implied volatility, one change of the chain or
of the breadth at a time, so that a property can relate the readings before and
after.

**OHLCVCache.** A candle list sorted by timestamp without duplicates is a
function from timestamps to values; the OrderedDict is the sequence of its keys.
Expiry, LRU, the instrument limit and the slice are each an operator.

**TickerManager.** `subscribe` and `unsubscribe` send first and record later;
every stretch between is an action of the caller's thread, and every callback one
of the connection's. A second `start` opens a second connection and leaves the
first.

## 3. The runs

| run | instance | shows |
|---|---|---|
| records | the switch: 4 log entries, 3 instants, 2 lives, readers that alter entries; the trail: 2 payloads, 4 records, 2 writes or restarts | KSTypeOK, LogReplays, LogAlternates, NeverAutoResumes, VerifiedIsRecorded, RecordingNeverMends, ImplementsLog (refinement of AuditLog) |
| bot | suspending adapter, 1 retry, 2 tasks, 2 submissions, a symbol to register, 1 operator action, 2 syncs with a loss or none and 2 margins (one beyond T8's limit), 1 fill, 1 restart | BotTypeOK, AuditReconciles, LossStopsOrders, SyncedOvershoot |
| engine_async | suspending adapter, 2 tasks, 4 submissions of three sizes, one negative | DailyOvershoot, RateOvershoot, ExposureOvershoot |
| engine_retry | suspending adapter, 1 retry, 1 task, 2 submissions, 2 switches, 1 cancellation | InFlightPredatesHalt, OrdersPerSubmission, LostOrdersReported, SubmissionsFinish |
| router | 2 tasks, 6 requests, 2 segments, 7 instants with a second of 2, a minute of 4 and a day of 5, 5 orders in all | HandedOverLimits, EverySlotExplained, RefusedOnlyAtALimit |
| tracker | blocking adapter, long only, 3 orders, 2 switches, losses, every kind of utilization, an overdrawn account | FollowsBroker, RealizedIsCash, SyncHalts |
| adapter | 2 orders of two types, the bot's and the owner's, 2 tokens, any failure | CancelAllAccounts, ImplementsBroker (refinement of BrokerInterface), CancelAllEnds, TokenNeverReverts |
| market_data | the cache: 3 instruments for 2 places, 3 timestamps for 2 places, TTL 1 of 3 ticks, batches of up to 2; the ticker: 3 tokens for 2 places, 2 starts, 2 lost links | OldestFirst, NewestKept, NeverRevives, StreamsSubscriptions, SubsWithinLimit, FlagTellsLink |
| analysis | every series of 5 candles of 4 shapes, of 4 volatilities, 3 strikes, 6 stocks, VIX 11 to 26 | ReadingsInRange, RsiMirrors, IvReadingsAgree, NoLookAhead, StrengthReadings |
| engine_kill | one order, one activation, fair | **violates** KillCancelsOpenOrders |
| engine_halt | one submission, one retry, one activation | **violates** NeverSendsWhileHalted |
| router_days | a day of four ticks that allows two orders | **violates** DayLimitIsOfTheDay |

Why the bounds are enough. Every limit of the code is given a value that the run
reaches and could exceed by one: two orders a day and four submissions, two
places and three instruments, and so on. Two syncs and one restart suffice for the
bot: the one that finds the loss and one that says something weaker after it, or two
whose exposures differ with orders under way in between; the theorems cover any
number. `bot` has the suspending adapter: every behaviour with the blocking one is
a behaviour with the suspending one too (each guard that mentions BlockingSDK is the
weaker when it is FALSE), so that its invariants are checked for both. A day ends in
router and router_days, where it matters. records and market_data each hold two
components that share no variable; a behaviour moves one of the two, which reaches
every state of each, and no property speaks of both. Two orders suffice for the adapter: one that
cancel_all_orders has dealt with and one that it has not, or one that arrives. Five
candles give the slowest indicator two readings, the second of which is made from
the first. Windows need a tick inside, one at the
boundary and one outside: the router's second is two ticks and its minute four,
in a run of six. Races of the engine need two tasks; what more tasks add is a
constant per task, and the theorems cover every number. Tasks, tokens and
instruments are interchangeable and under SYMMETRY; runs with a liveness property
use none. engine_retry has one task: its properties speak of each call by itself,
and InFlightPredatesHalt is proved for any number of tasks. Every counter
that grows is bounded by a constant with "bound" in its comment (MaxTime,
MaxSwitches, MaxSubmits, MaxCancels, MaxRecords, MaxFaults, MaxRequests, MaxPuts,
MaxBatch, MaxStarts, MaxDrops, MaxSyncs,
MaxRestarts, MaxLives, MaxFills, MaxOrders, MaxTokens, MaxCandles, MaxIvs, MaxOi, MaxPrice, MaxStocks), which is why the runs set CHECK_DEADLOCK FALSE:
a person may stop acting, and the clock stops at MaxTime.

Fairness. `FairEngineSpec` assumes that a broker call comes back in some way and
that `asyncio.sleep` ends (weak fairness of `Reply` and `RetryWake`). The SDK's
HTTP timeout justifies the first (the engine has none:
`execution_order_timeout_seconds` and the status TIMEOUT are never used), asyncio
the second. A hung broker call would hang `submit`. Nothing is assumed of the
operator, the exchange or the clock. `FairAdapterSpec` assumes the same HTTP timeout
of each call of the SDK, and that the loop of `cancel_all_orders` goes on
(CancelAllEnds); nothing of the exchange, which may answer with failures
for ever. engine_kill fails under this fairness
because no code follows an activation at all: `cancel_all_orders` and
`trigger_kill_switch_cancel_all` have no caller.

What the passing runs say that is not obvious:

* DailyOvershoot, RateOvershoot, ExposureOvershoot: with a suspending adapter T4 and
  T5 are passed by at most one order for each other task, T8 by one largest order
  each. Of T6 and T7 nothing of the kind is said: no order reduces the margin T6
  reads, and T7's positions are overwritten by fills.
* SyncedOvershoot: a sync in between replaces the exposure that T8 compared with. What
  it sets may be beyond the limit, and the orders under way come on top of it, one for
  every task: one more than without syncs.
* LossStopsOrders: after a sync that found the loss beyond its limit no submission gets
  through, although the margin check of the same sync or of a later one may lower the
  level. It is the guard against THROTTLE over a stronger level
  (`execution/positions.py:227`) that it rests on. What was submitted before may
  still be retried and may still arrive.
* CancelAllAccounts: what is still live when cancel_all_orders has returned either
  arrived after the listing, or was not open yet when listed, or is reported as
  refused. There is no fourth case, but the second is one the caller is not told of.
* TokenNeverReverts: authenticate after a generate_session that failed cannot bring
  back an older token, because generate_session writes both copies or neither.
* NoLookAhead: no indicator, the MACD with its offset included, changes a reading
  when a later candle comes.
* LostOrdersReported: the exchange may have, or get, orders the trail does not know:
  no more than 1 + MaxRetries for each submission rejected, raised or under way, and
  MaxRetries for each that was placed, whose earlier attempts may have arrived too.
  A rejected submission may so be an order, with the shipped adapter as well.
* OrdersPerSubmission: a retry can turn one submission into one order per
  attempt with an adapter that raises after the exchange took the order. The
  shipped adapter raises only before it reaches the exchange.
* FollowsBroker and RealizedIsCash need the premise that no sync and fill
  notice passed each other (`overtaken`), and RealizedIsCash that the account is
  never short; StreamsSubscriptions that no call overlapped a callback
  (`crossed`); FlagTellsLink that there is one connection. The premises are
  where the code makes no promise it keeps; see below.

## 4. What the code does otherwise than it says

Shown by a run (and listed under "findings"):

* KILL cancels nothing (`risk/kill_switch.py:44`; engine_kill);
* a retry goes to the broker although the switch was thrown during the sleep
  (`execution/engine.py:69`, "never bypasses"; engine_halt);
* the daily count of the router is never set back, so that a process stops trading
  for good at the limit (`execution/router.py:5`, "2000/day"; router_days).

Seen while modelling, and in the models as the code has it, without a run of
their own:

* a restart resumes trading without anybody's re-enabling it
  (`risk/kill_switch.py:9`, "never auto-resume"; Restart);
* the "immutable copy" of the log shares its entries with the switch
  (`risk/kill_switch.py:158`; ReaderAlters);
* orders are placed under THROTTLE (`risk/kill_switch.py:8`, "must be INACTIVE"), and
  as many as without it (`risk/kill_switch.py:42`, "10 % of normal"): nothing reads
  get_throttle_factor (CheckOrderAllowed);
* the daily count of the risk state outlives the day as the router's does
  (`risk/manager.py:8`, T4);
* the thresholds of `market/strength.py` are inclusive where its comments have "PCR >
  1.2", "PCR < 0.7", "VIX > 25", "A/D ratio > 1.5" and "A/D ratio < 0.67"
  (`market/strength.py:75`, `:76`, `:108`, `:185`, `:187`; Pcr, InterpretVix,
  IndexBreadth);
* `cancel` does not look at the broker's answer: a refused cancellation is audited
  and reported as done (`execution/engine.py:251`; CancelRefused);
* a fill overwrites the risk state's position, and T7 forgets what was added for
  open orders (`execution/positions.py:156`; UpdateFill);
* orders the exchange has received but not opened are in no status that
  `cancel_all_orders` cancels (`brokers/zerodha.py:233`); every order is sent to NFO,
  whatever its segment (`brokers/zerodha.py:155`);
* a position with a product the enumeration lacks makes get_positions raise, and
  with it the sync and its loss check (`brokers/zerodha.py:268`; SyncRaises);
  two products of one symbol overwrite each other (`execution/positions.py:99`);
* a market that never moved has an RSI of 100 (`ta/indicators.py:80`); the
  historical volatility has readings before its period is full
  (`ta/volatility.py:47`); without calls the PCR is neutral, however many puts there
  are (`market/strength.py:80`); without advances and declines the breadth is
  bearish (`market/strength.py:195`); open interest that did not change counts as
  fallen (`market/strength.py:156`);
* a restart empties the trail (`risk/audit.py:6`): the TrailRestarts action;
* a submission that ends in an exception leaves no entry for its end
  (`execution/engine.py:285`);
* T6 compares with a margin that no order reduces, and no check refuses a negative
  quantity, which lowers the exposure;
* the router refuses rather than "queues orders when rate limits are hit"
  (`execution/router.py:6`; RouteRefused);
* in one sync the margin check may lower the KILL of the loss check to PAUSE;
  SyncHalts says what remains: orders stay forbidden;
* covering a short position realizes nothing, an overdrawn account passes the
  margin check (its utilization is negative), a fill notice after a sync is counted twice;
* `max_candles = 0` keeps every candle; a reconnect between sending and recording
  a subscription loses it; a second start leaks a connection; only one of
  `max_connections` is ever used.

Settings and fields nobody reads: execution_order_timeout_seconds,
execution_router_queue_capacity, `_EXCHANGE_MAP`, the router's `_pending` and
day_start, max_connections, margin_used.

## 5. The proofs

Every theorem is for all values of the constants that the assumptions named in the
component's module allow; where a theorem needs more it says so in its ASSUME.

| property | theorem | rests on |
|---|---|---|
| KSTypeOK, LogReplays, LogAlternates | KSTypeCorrect, LogReplaysHolds, LogAlternatesHolds | KSInv |
| NeverAutoResumes | NeverAutoResumesHolds | KSTypeOK |
| VerifiedIsRecorded, RecordingNeverMends, ImplementsLog | VerifiedIsRecordedHolds, RecordingNeverMendsHolds, TrailImplementsLog | TrailInv |
| BotTypeOK (and EngineTypeOK) | BotTypeCorrect, EngineTypeCorrect | itself |
| DailyOvershoot, RateOvershoot | DailyOvershootHolds, RateOvershootHolds | themselves |
| ExposureOvershoot | ExposureOvershootHolds | ExposureInv |
| InFlightPredatesHalt | InFlightPredatesHaltHolds | HaltInv |
| OrdersPerSubmission | OrdersPerSubmissionHolds | AttemptsInv |
| AuditReconciles | AuditReconcilesHolds, BotAuditReconciles | Counts, Named |
| LostOrdersReported | LostOrdersReportedHolds | BookCounted, Counts, Named |
| LossStopsOrders | LossStopsOrdersHolds | LossInv |
| SyncedOvershoot | SyncedOvershootHolds | SyncedInv |
| HandedOverLimits, EverySlotExplained | HandedOverLimitsHolds, EverySlotExplainedHolds | RouterInv |
| RefusedOnlyAtALimit | RefusedOnlyAtALimitHolds | RouterInv |
| SyncHalts | SyncHaltsHolds | nothing more |
| FollowsBroker | FollowsBrokerHolds | TrackerTypeOK, FollowInv |
| RealizedIsCash | RealizedIsCashHolds | NeverShort, CashInv; never short, WholeAverages |
| CancelAllAccounts, TokenNeverReverts, ImplementsBroker | CancelAllAccountsHolds, TokenNeverRevertsHolds, AdapterImplementsBroker | AdapterInv |
| StreamsSubscriptions, SubsWithinLimit, FlagTellsLink | StreamsSubscriptionsHolds, SubsWithinLimitHolds, FlagTellsLinkHolds | Shape, SubsInv, FlagInv, StreamInv |
| OldestFirst, NeverRevives | OldestFirstHolds, NeverRevivesHolds | CacheInv |
| NewestKept | NewestKeptHolds | CacheInv, ListsKept, MaxCandles > 0 |
| NoLookAhead, ReadingsInRange, RsiMirrors | NoLookAheadHolds, ReadingsInRangeHolds, RsiMirrorsHolds | ViewTypeOK |
| IvReadingsAgree, StrengthReadings | IvReadingsAgreeHolds, StrengthReadingsHolds | ViewTypeOK |

`DataLemmas`: what TLC computes and the provers must be told. The library's induction
theorems take an operator as a parameter and cannot be used; in their place stands
the least counterexample: if a fact about numbers, or about finite sets, fails
somewhere, it fails at a least number (`LeastNumber`) or at a set none of whose subsets
fails (`LeastSet`), and one step from there is a contradiction. In this way a
recursive function is shown to have a value (`SumExists`, `SelectionExists`), to have
one only (`SumUnique`), and to be what it should: a sum is changed by what changes in
its parts, in whatever order the fold took them (`SumRemove`, `SumChanged`), and
`Selected` keeps the elements selected, each once, in their order (`SelectedLeaves`),
so that nothing counted in the one is lost in the other (`SelectedCounts`).

`KillSwitchProofs`: for every length of run. The invariant `KSInv` joins the type,
LogReplays, LogAlternates and "no entry lies in the future". It is needed as a
whole: LogAlternates for a new deactivation follows from LogReplays before it
(the last entry is the activation of the level in force), and its order of times
from the last conjunct. NeverAutoResumes follows from the type alone; it compares the
logs before and after entry by entry, and excuses a new life and a reader by name.

`ExecutionEngineProofs`: for every number of tasks, set of requests, limit, number
of retries and both adapters, from the assumptions on the constants that
RiskManager, KillSwitch, Clock and ExecutionEngine name.

* `EngineTypeCorrect`: one case per action.
* `DailyOvershootHolds`, `RateOvershootHolds`: `StepKinds` classifies steps into
  a call that begins, succeeds, fails, and anything else; a call begins
  only below the limit, at which all other tasks may be in flight, and a call
  that ends is counted at most once. For the windows also: time passing never
  adds to a window (`RecentFades`), recording adds at most one (`RecentGrows`).
* `InFlightPredatesHaltHolds`: strengthened by "submissions lie in the past"
  (`HaltInv`), without which a new activation would say nothing of calls
  already in flight.
* `AuditReconcilesHolds`: the property equates sums, which single steps keep only
  if more is known of the parts. `Counts` says what each kind of entry is
  made of (results, exceptions and calls in flight), `Named` that no two entries
  and no call in flight name the same order.
* `OrdersPerSubmissionHolds`: `AttemptsInv` bounds the orders made for a submission
  by the attempts its call has begun, for as long as it is in flight.
* `ExposureOvershootHolds`: a call begins only when its order fits under the limit
  next to what is recorded, and everybody else in flight may have read the same
  exposure. `ExposureInv` adds that each order in flight has passed T3, so that what
  the others add (`Pending`, a sum over tasks) is at most the largest order each.
* `LostOrdersReportedHolds`: `BookCounted` bounds the exchange's book by the attempts
  that ended and those that the calls in flight have spent; with `Counts` and `Named`
  the orders that results name are as many as the results, and the rest are the lost.
* `DailyLimitExact` (BlockingSDK and MaxRetries = 0): T4 is exact, by `OneAtATime`:
  at most one call is in flight and the day has room for it.

Also in `KillSwitchProofs`, used by `PositionTrackerProofs` and `ExecutionEngineProofs`:
whatever the thresholds and the account, a loss beyond its limit leaves the switch
halted, and neither check resumes anything; `SyncHaltsHolds` needs nothing else.

`PositionTrackerProofs`: `FollowsBrokerHolds` for any orders, prices and symbols, both
adapters, long and short. FollowsBroker says nothing while a fill is on its way, so
`FollowInv` says what it means then: applied in order, the notices on their way lead
(`Leads`) from the quantities tracked to those of the broker, and what a sync under
way has read are the quantities tracked. Only quantities matter; the broker's
averaging and the tracker's differ, and both leave the quantities alone.

`RealizedIsCashHolds` is the same argument about money, for accounts that sell only what
they have (AllowShort FALSE), any symbols, orders and prices. `CashInv`: the notices
lead (`LeadsLong`) from the tracker's account (what it holds, what it realized) to one that
holds what the broker does and has realized the cash less its cost. `NeverShort` says that
the position covers the sales still open, a sum over the exchange's book, from which
each fill leaves nothing short; only then do the tracker and the broker agree
on averages (`Buys`, `Sells`). Its other premise is an action property, WholeAverages:
every purchase leaves an average that is a whole number. The model's integers need it where the
code has a Decimal of 28 digits, and in both an average that is cut off loses what was cut. The
prices of the run (60 and 120, at most three orders) satisfy it in every state.

`ExecutionEngineProofs`, the bot: the type and AuditReconciles again, with syncs and
restarts among the steps (the engine's lemmas are stated for a step, so that they serve
both), and two theorems about what only the composition has, for both adapters and any
number of retries. `LossStopsOrdersHolds`: `LossInv` adds that the switch stops orders
while `stoppedAt` stands, whatever syncs have made of its level, and that calls and
orders come from submissions that have begun. `SyncedOvershootHolds`: `SyncedInv` adds
that each order under way has passed T3, so that all of them together add at most the
largest order per task, on top of whatever a sync sets.

`RecordsProofs`, the router: for every limit, number of tasks and time. Pruning forgets,
so the lists alone cannot bound what was handed over in a window; `RouterInv` says
that they remember (`Remembers`): from any instant that a later window may begin at,
a list has as many times after it as were handed over after it. A call is accepted
with a pruned list shorter than the limit, and the list has then one more. No window
of the lists is out of date when it is read, which is RefusedOnlyAtALimit, and the
daily count is what was handed over in all.

`RecordsProofs`, the trail: for any number of records, faults and restarts. `TrailInv` says
that every checksum, wherever its entry has got to, digests a subsequence of what was
recorded; no write reaches a checksum. That a chain which verifies is digested by its
last checksum is an induction over the chain, done with `LeastNumber`: look at the first
entry of which it would not be true.

`ZerodhaAdapterProofs`: `AdapterInv` joins the types, "the adapter's token is not older
than its client's" (`TokenInv`), what is known of the call under way (`CallInv`), and
`Accounted`: every order listed is still to do, under way or has a result, an order
that was not live in the listing is not live now, and what has the result CANCELLED
is cancelled. `AdapterImplementsBroker` maps each action to a step of BrokerInterface or
a stutter; it needs CallInv, since an answer may say CANCELLED only when the order is.

`MarketDataProofs`, the ticker manager: `Shape` relates the callbacks due to the link of each connection;
`SubsInv` says that current_subs, which subscribe reads once, still is the
number of subscriptions; `FlagInv` and `StreamInv` are FlagTellsLink and
StreamsSubscriptions with what they need while something is under way.

`MarketDataProofs`, the cache: `CacheInv` says that the keys stand in the order of their
last access and that no access lies in the future; get and put move a key
to the end with the time of now, and eviction only takes keys out (`SelectedLeaves`).
`ListsKept` says that a list is the newest part of all that was put since the
instrument came in. That it survives a put is `NewestOfCut`: cutting before a merge and
after it keeps what one cut at the end would, because a candle that was cut has
enough newer ones for ever. NeverRevives: nothing of an expired instrument is among
the keys that live, so that a put of it merges with nothing, and any other call leaves
its time of access in the past.

`MarketViewProofs`: for any number of candles, volatilities, strikes and stocks, from
`ViewAssumption` alone. The invariant is the type; the argument is about the
functions. `Gcd`, `Total` and `Smoothed` are defined by recursion, and each is first shown
to have the value its equation says, by the least number for which it had none
(`GcdExistsUpTo`, `TotalUnfolds`, `SmoothExists`). Reduced fractions are awkward to
compute with, so `Worth(f, n, d)` says that a fraction is worth n / d, reduced or not
(`WorthPlus`, `WorthTimes`, `WorthOrder`), and the gcd does not appear after that.
`ViewAssumption` asks of the data what a market gives (a close between low and high,
positive strikes, volatilities and skew, each strike once, as the keys of a dict are) and of
the period of the historical volatility what the code does (`ta/volatility.py:30`);
prices are nought or powers of two up to 2 ^ MaxLog, for any MaxLog, so that their
logarithms are whole.

* `NoLookAheadHolds`: `Grows` relates the readings of a list of candles to those of the
  same list with one more, for each indicator (`SmoothedGrows`, `VwapGrows` and so on).
  For the MACD: what its line selects is the rest of the line from the longer period on
  (`MacdLineReads`), so the signal is put back where it came from, whichever of the two
  periods is the longer.
* `ReadingsInRangeHolds`: `Within` is kept by totals, means, the step of smoothing and
  weighted totals (`TotalWithin`, `StepWithin`, `WeightedWithin`). For the bands it is
  Chebyshev's inequality, in integers (`FewFarFromMean`): a close outside adds more
  than the spread to the total of squares, and the rest add nothing negative.
* `RsiMirrorsHolds`: the rises of a market are the falls of its mirror image
  (`MirroredMoves`); smoothed, both stay gains, and one is not nought once the market
  has moved (`SmoothedGain`); the readings are the two parts of a hundred
  (`PartsOfHundred`).
* `IvReadingsAgreeHolds`: rank and percentile are each nought and a hundred at the
  ends of the history only (`RankReads`, `PercentileReads`); off the money the surface
  adds a positive part of the volatility (`SurfaceReads`).
* `StrengthReadingsHolds`: a level is a strike whose rank is within TopN. Ranks are
  found by counting who comes before (`RanksAreOne`), and a strike that gains has
  nobody new before it (`LevelRanks`, `LevelStays`).

Only model-checked: SubmissionsFinish and CancelAllEnds, which are liveness under
fairness and out of the prover's reach, and the properties the code violates.

## 6. Not modelled

* `market/greeks.py`: erf, exp and log of floating-point numbers, which neither
  TLC nor the provers evaluate; with them abstracted nothing of the code is left.
* `risk/compliance.py` (constants and two predicates nothing calls),
  `strategy/base.py` (abstract), `data/zerodha_provider.py` (stateless conversion of
  REST answers; its instrument cache is declared and never used), `scripts/`
  (skeletons), the container besides its restart policy.
* Of the adapter: the mapping of a request's fields, and the readers besides
  positions and margins.
* Square roots, natural logarithms and the annualization of the volatilities; the
  rounding of Decimal and float.
* Clocks that step back: `datetime.now` and `time.time` may, and the model's clock does
  not. The windows of T5 and of the router, the TTL of the cache and InFlightPredatesHalt
  are about a clock that goes forward.
* Of the ticker manager: a user's on_connect that itself subscribes, from KiteTicker's
  thread (`data/ticker.py:195`); subscriptions change on the caller's thread only.
* A MACD with a signal period of zero or less, which the code does not refuse
  (`ta/indicators.py:219`) and ViewAssumption leaves out.
* At the exchange: an OPEN order whose modification or cancellation is pending, in a
  status the adapter does not cancel (`Received` has such statuses before OPEN only).
* Latencies, messages, ids other than the order id; set_mode and ticks of the
  ticker; more than one symbol in the tracker's run (the code never relates two).

## 7. Plan

Order: what decides whether an order may go out first, then what follows it, then
the broker, then market data and analysis. Everything that keeps state is modelled.
What could follow:

1. The router in front of the bot, once something in the repository composes the
   two.
2. A persistent trail or switch, should the code get one: the restart actions then
   have a promise to keep.
