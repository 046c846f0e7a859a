# A TLA+ development of the trading-signal backend

This directory holds TLA+ models of the Python backend under
`src/backend/app`, the TLC configurations that check them on small instances,
and theorems about them whose proofs TLAPS checks. Paths below are relative to
`src/backend/app` unless they begin with `src/`.

## 1. The system

Two processes share a PostgreSQL database and a Redis server.

```
            OANDA (exchange)
        candles |        | price stream
                v        v
  worker   candle poller   price stream        API      GET /candles (backfill)
  process       |   |         |             process     GET /signals, POST /backtest
                |   |         |                         WS /ws/market/{symbol}
     market_data|   |candles: |prices:                     ^        ^
                v   v         v                            |        |
             Postgres      Redis pub/sub ------------------+--------+--> mobile app
                |               |  ^
                +-> signal worker -+ signals:{symbol}
```

| component | source | state it keeps | operations | depends on |
|---|---|---|---|---|
| candle poller | `workers/candle_poller.py` | position in a round, fetched candles | poll round over six timeframes every 30 s | exchange, database, Redis |
| market data repository | `repositories/market_data.py` | tables `symbols`, `market_data` | list, get-or-create symbol, insert ignoring conflicts | database |
| REST market data | `api/v1/market.py` | none beyond the request | `GET /candles` with backfill, `GET /price` | repository, exchange |
| signal worker | `workers/signal_worker.py` | Redis subscription, table `signals` | initial analysis, analysis per 15m candle | repository, Redis |
| price stream | `workers/price_stream.py` | backoff, watchdog clock, cached price | connect, publish tick, reconnect | exchange, Redis |
| worker runtime | `workers/main.py` | three tasks | start, stop all when one ends | the tasks |
| WebSocket gateway | `api/v1/ws.py` | subscription and forward task per connection | forward messages, detect disconnect | Redis |
| signal rules | `services/signals` | none | gates, pullback fallback, risk levels | analysis |
| analysis, indicators | `services/analysis`, `services/indicators` | none | EMA, RSI, MACD, ATR, swings, buckets | candles |
| backtest alignment | `backtesting/alignment.py` | none | which candles have closed at an instant | sorted candles |
| backtest engine | `backtesting/{engine,execution,portfolio,stats}.py` | open trade, trades, equity curve | walk over the 15m bars | alignment, analysis, rules |
| backtest service | `services/backtesting`, `api/v1/backtest.py`, `repositories/backtests.py` | table `backtest_runs` | load, run, save, list | engine, repository |
| diagnostics | `api/v1/diagnostics.py` | none | verdicts, gate, pullback and signal side by side | analysis, rules |
| mobile app | `src/mobile/lib` | one WebSocket, REST caches | reconnect, display | gateway, REST |

What is hard in it:

* **Concurrency.** Poller, signal worker and price stream interleave at every
  `await` of one event loop; REST handlers run in another process. Poller and
  backfill race to create the symbol and to insert the same candles.
* **Ordering.** Rows are committed, then announced; the worker subscribes, then
  analyses; its queries of several timeframes are not one snapshot.
* **Failure.** Fetches, queries and publishes raise; some exceptions skip one
  timeframe, others the rest of the round, others the event. The process dies
  with the subscription, and Redis pub/sub keeps nothing for an absent
  subscriber. Connections break on either side of a gateway whose handler has
  two tasks, one of which nobody watches.
* **Long sequences.** A backtest is a few thousand steps of bookkeeping in
  which a trade may be lost, doubled or sized on a stale amount.
* **Boundaries.** The candle that closes at the very instant of a decision, the
  last bar of the data, an account at zero, a list without losing trades; levels
  at exactly the tolerance, averages exactly equal, a market without ranges.

`PROJECT.json` lists each such hazard at its line, with the properties that
would catch it.

## 2. Plan

| order | module | models | status |
|---|---|---|---|
| 1 | `CandleFeed` | exchange, poller, repository, backfill | checked and proved |
| 2 | `SignalPipeline` (extends 1) | signal worker composed with the feed, loss of its subscription | checked and proved |
| 3 | `VisibleCandles` | binary search of the backtest's alignment | checked and proved |
| 4 | `Backtest` | engine, execution, portfolio, statistics | checked and proved |
| 5 | `BacktestRequest` (extends 4) | the request around the engine, the stored runs | checked and proved |
| 6 | `PriceStream` | reconnect loop, consumer, watchdog, backoff | checked and proved |
| 7 | `WorkerRuntime` | supervision of the three tasks | checked and proved |
| 8 | `FeedLog` | abstract specification that 1 implements | checked and proved |
| 9 | `Indicators`, `Analysis`, `SignalEngine` | each extends the one before: averages, verdict on a timeframe, signal and diagnostics | checked and proved |
| 10 | `MarketSocket` | WebSocket gateway and the app's socket | checked and proved |
| 11 | `Recursion` | nothing of the code: induction over intervals and recursive functions, for the proofs | proved |
| 12 | an abstract ledger of trades | what 4 promises, as a specification of its own | planned |
| 13 | a larger composition | 2 with 10: from the close of a candle to the phone | planned |

`SignalPipeline` composes the poller, the clients and the signal worker,
`MarketSocket` the gateway and the app, and `BacktestRequest` the request and
the engine. The other modules stand alone, joined by what they assume of each
other: `WorkerRuntime` abstracts the tasks that 1, 2 and 6 describe; a step of
`SignalPipeline` that stores a signal computes it as `SignalEngine` does; the
direction and stop distance that `Backtest` leaves open are what `SignalEngine`
yields; and `MarketSocket` begins with the messages that 1, 2 and 6 publish.

## 3. `CandleFeed`

The k-th candle of a timeframe is the number k. `market_data` is
`stored[tf]`, a set of such numbers; a Redis channel is the sequence `feed[tf]`
of everything ever published on it. `closed`, `age` and `ticking` are the
exchange (external): a candle is listed from its first price on and becomes
complete when its period ends, and a period without a price has no candle.

| code | model |
|---|---|
| `fetch_candles(count)`, which drops the candle in flight | `Fetched` |
| `list_candles`, `upsert_candles`, `rowcount` | `ListCandles`, `UpsertCandles`, `Inserted` |
| `get_or_create_symbol`: `SELECT`, then `INSERT` at the flush | `PollFindSymbol`/`RestFindSymbol` note what was seen (`saw`); `SymbolConflict` is the `IntegrityError` |
| body of `_poll_symbol` | `PollFetch`, `PollFetchFails` (`continue`), `PollFindSymbol`, `PollUpsert`, `PollPublish` |
| `except Exception` of `run_candle_poller` | `PollSymbolConflict`, `PollFails`: the rest of the round is dropped |
| `asyncio.sleep` | `PollWake` |
| death and restart of the worker process | `PollerCrash`, `PollerRestart` |
| `get_candles` | `RestList`, `RestFetch`, `RestFindSymbol`, `RestUpsert`, `RestReply`, `RestFails` |

A transaction is one step: nothing of it is visible before the commit, and
two of them that insert the same symbol conflict.

Invariants: `StoredAreClosed`, `AnnouncedAreStored`, `FeedInOrder`. The last is
not inductive. That a poll never announces twice or backwards depends on the
row count of an insert whose candles were fetched some steps ago, while a
backfill writes the same rows and the exchange goes on. `FeedInv` therefore adds
`FetchedAreClosed`, `PollReachesBack` (a fetch under way reaches as far back
as any later fetch), `NoHoleNearAnnounced` (below an announced candle nothing
within reach of a fetch is missing) and `PollIsNews` (what is fetched is newer
than every announcement, or is already stored completely).

Liveness: `NewestIsStored`; `StoredIsAnnounced` is the one that does not hold.

`FeedLog` says what the rest of the system relies on, in three actions: candles
close, a writer stores rows of closed candles and never removes one, and a
row is announced if it is newer than all announced before. `ImplementsLog` maps
`closed`, `stored` and `feed` to it: every step of the poller, of the requests,
and of their failures is one of these three or changes nothing visible. The
mapping is the identity, so the content of the refinement is that 15 actions
with their fetched, possibly outdated intermediate results are as good as three
that look at the database at once.

## 4. `SignalPipeline`

Extends `CandleFeed` by the signal worker. A message on the channel says
"analyse now"; the worker never reads its content, so the queue of its
subscription is the number `waiting`. A signal is `Basis`, the newest candle of
each timeframe it was computed from.

| code | model |
|---|---|
| `pubsub.subscribe`, then the initial analysis | `WorkerSubscribe` |
| `get_message` | `WorkerReceive` |
| one `list_candles` of `_load_recent_candles` | `WorkerLoad` (one query per step, in the order of the code) |
| "at least 210 candles" | `EnoughHistory` with `MinHistory` |
| `SignalRepository.insert`, or the warning if the symbol is unknown | `WorkerPersist` |
| `redis.publish` | `WorkerPush` |
| `except Exception` around the handler | `WorkerFails` |
| the Redis connection breaks; the next `get_message` subscribes again | `ConnectionBreaks`, `Resubscribe` |
| death of the process: poller and worker together | `Crash`, `Restart` |

Invariants: `Covered` (no announced trigger candle is lost on its way into an
analysis, unless the worker's last event failed or it had to subscribe again, which `missed` notes), `CoveredBySignal`, `PushedArePersisted`, `PushedInOrder`; liveness:
`CloseIsAnalysed`. `PipelineInv` strengthens the first three: it follows the
candles that the analysis under way has already read (`TriggerRead`), and
`OrderInv` strengthens `PushedInOrder`: what was pushed is stored, and what the
analysis has read again is at least as new.
`RowsHaveSymbol` and `EnoughHistory` together show why the branch "symbol not
found, cannot persist" is never taken.

## 5. `VisibleCandles`

`visible_candles` as the loop it is: `lo`, `hi`, one step per iteration, on any
ascending list of opening times. `ExactlyTheClosed` is the absence of
look-ahead, and of withheld candles. `VisibleInv` adds the loop invariant
`Partition`.

## 6. `Backtest`

One iteration of `run_backtest` is two steps: what the bar does to the open
trade (`HitsStop`, `HitsTarget`, `Holds`, `Flat`), then the decision at its
close (`Enter`, `Skip`); after the last bar `ForceClose` and `Report`. The close
of a bar draws the open of the next one (`nextOpen`, `primary[i + 1].open`),
at the close or with a gap; the decision then fills a trade at it, the signal
refers to the close, and the levels move by the difference (`Shifted`). A bar
that opens beyond a stop is still filled at the stop less the slippage, which is
what `apply_sl_fill` does.

Abstractions:

* Prices and money are integers. A position's size is rounded up to a unit:
  the code's size is a float of the same sign, and the sign is all that the
  guards look at.
* The analysis is a free choice: at each close any direction and any stop
  distance in `Risks` may come out, or nothing. Targets are twice the stop
  distance as in `services/signals/risk.py`. So the properties hold for every
  strategy, not only for the present rules.
* `BacktestAssumption` says that prices exceed twice the stop distance, hence
  no level of a signal is 0; the code treats a level 0 as absent
  (`if signal.stop_loss`), and so does `Shifted`.
* `pnl_r`, averages and percentages are left out.

`BacktestInv` collects the invariants and adds what makes them inductive:
`PositionIsSound` (an open trade was sized on a positive equity, its levels lie on
either side of its fill, and its fill is the open of the very bar that will first
try them) and `HistoryIsPast` (no trade and no point of
the curve lies after the current bar).

### `BacktestRequest`

`POST /backtest` around the walk: one query per timeframe (`LoadTimeframe`; how
many candles a timeframe has is a choice of none, too few for the primary
timeframe, or enough), `Walk` in its thread, `Insert` with its commit, `Refresh`,
the answer. `InsertFails` includes the infinite profit factor, which the JSON
column refuses, and `DatabaseFails` every other failure of a query. The two
GETs are the operators `GetBacktest` and `ListBacktests` on the stored rows.
`RequestInv` relates what a client is told to what the table holds and to the
books of the engine. It speaks of the row whatever the answer was: a run that is
stored and answered with 500, because the refresh failed after the commit, is
listed and served whole.

## 7. `PriceStream`

`run_price_stream` as a loop over `Connect`, `Leave`, `CleanUp`, `SleepEnds`. An
attempt runs a consumer (`ConsumerOpens`, `ConsumerRefused`, `ConsumerReads`,
`ConsumerCaches`, `ConsumerPublishes`, `ConsumerFails`, `ConsumerEnds`,
`ConsumerStops`) and a watchdog (`WatchdogFires`). Prices are numbered; `line`
is what a connection has sent and its consumer has not read. `idle`, `uptime`
and `remaining` are clocks; time may pass between any two steps, so that the
watchdog may fire late, while the consumer waits for Redis, or together with the
end of the stream (`Outcomes`: the order of `asyncio.wait`'s set is arbitrary).

`CacheKeepsUp` and `PricesInOrder` rest on `OneConsumer`, the purpose of the
`finally` clause in `_stream_once`, and on `LineInOrder`; both are parts of
`StreamInv`. A consumer has a slot of its own, and a slot is free as soon as its
consumer ended, so a consumer left behind would appear beside its successor. `OneConsumer`
also forbids it to outlive its attempt at all, which one slot is enough to see;
the theorems hold for any number of slots.

## 8. `WorkerRuntime`

`_amain` as `Boot`, `WaitReturns`, `Gather`, `Close`; tasks are abstract:
they alternate between idling and calling the exchange, some may fail
(`Fragile`), and a cancelled one ends after its `finally` clauses. `Crash` is
every end of the process that `_amain` does not see, `Restart` the platform.

## 9. `Indicators`, `Analysis`, `SignalEngine`

Pure functions, written as operators over a sequence of candles. A series is a
function on the positions where the code's list has a number, so the leading
NaNs of the code are positions outside its domain, and an index error or a NaN
that slips into an average would be an evaluation error of TLC.

| code | model |
|---|---|
| `ema`, `rsi`, `macd`, `atr` | `Ema`, `Rsi`, `MacdHistogram`, `Atr`, as recursive functions |
| `analyze_trend`, `_momentum`, `_structure`, `_support_resistance`, `_volatility` | `AnalyzeTrend`, ..., each with its own minimum of history |
| `_majority_direction`, `analyze` | `MajorityDirection`, `Analyze` |
| `multi_timeframe_gate`, `check_pullback`, `blended_analysis_score` | `MultiTimeframeGate`, `CheckPullback`, `BlendedScore` |
| `compute_risk_reward`, `generate_signal` | `LevelsOf`, `RiskRewardScore`, `GenerateSignal` |
| `diagnostics` | `Diagnostics` |

Floats become integers in a unit that every division of the model divides
exactly, so that the arithmetic is that of the rationals; rounding errors
are left out. Periods and thresholds are constants: the code's 200-candle
average and 210-candle minimum become 5 and 5, in the same order. Reasons and
warnings are left out.

Clustering compares each level, in ascending order, with the one before.
`Sorted` chooses the order instead of calling a sorting operator: the provers
know the definition, and which of two swings of one level comes first makes no
difference.

The state machine around them lets 15m candles close one by one under fixed
charts of the other timeframes, whose verdicts are `others`. Its properties are relations between results:
`MirrorImage` (a chart turned upside down gets the opposite verdict; the two
directions are separate branches in the code), `NoRepaint` (a new candle
changes nothing computed for earlier ones), `ZonesAreComponents` (the sorted
one-pass clustering finds the connected components), `LevelsInOrder`,
`FlipNeedsSplit` (the gate looks at the 4h verdict, the pullback at the 4h
trend) and `SignalInv` (scores, the diagnostics page, the fallback).

## 10. `MarketSocket`

| code | model |
|---|---|
| `market_ws` up to `accept` or `close(1008)` | `Handshake` |
| `pubsub.subscribe`, or its exception | `Subscribe`, `SubscribeFails` |
| `forward`: `get_message`, `send_json`, their exceptions | `GetMessage`, `SendJson`, `ForwarderDies` |
| `get_message` on a broken Redis connection, which connects and subscribes again | `Resubscribe` |
| `receive_text` ends, `finally` | `Disconnected`, `Unsubscribe` |
| `MarketWebSocket._connect`, from `start` or a timer | `Start`, `TimerFires` |
| `_onMessage`; `onError`, `onDone` and `_scheduleReconnect` | `Frame`; `Ends` with `ReconnectAfter` |
| `dispose` | `Dispose` |
| broken network, death of the API process (external) | `NetworkFails`, `ApiRestarts` |

The k-th message published on the channels of the symbol is the number k.
Every connection has its own handler, so that handlers that outlive their
connection exist beside their successors. A broken connection may deliver any
prefix of what was sent, then an end, or an error and an end (`cancelOnError`
and the cancelled subscription make one event of the two).

`OneConnection` says that the app never has two sockets or two timers, though no
timer is ever cancelled; `FramesInOrder` that frames come in order without
repeats over all connections and that, while one is open, every message since
the gateway's latest subscription has been received or is on its way (what is
published while `get_message` reconnects is lost, and nobody is told); `BackoffGrows`
that the delay doubles per loss and only a frame resets it; `Recovers` and
`SessionsEnd` are the liveness of the app and of the gateway's handlers.

## 11. Runs

| run | bounds | shows |
|---|---|---|
| `Feed` | 2 timeframes (one twice as long), 1 client with limit 2, fetches of 2, 3 base periods, faults and crashes | `FeedInv` and its parts, `ImplementsLog`, `NewestIsStored` |
| `FeedBackfillSilent` | 1 client, no faults | **violated** `StoredIsAnnounced` |
| `PipelineSafety` | 2 timeframes, 1 client, 2 base periods, limits 1 and 2, history 2, minimum 1, faults, crashes, broken subscriptions | `PipelineInv` and its parts, `PushedInOrder` |
| `PipelineLiveness` | no client, no faults, 3 base periods | `CloseIsAnalysed` |
| `VisibleSearch` | lists of up to 5 of 8 instants, durations 1 and 2 | `VisibleInv`, `ExactlyTheClosed`, `SearchEnds` |
| `BacktestWalk` | 5 bars of the prices 9, 10, 14, 15, stop distances 0 and 2, costs 1 and 1, equity 4, risk 25 %, 2 timeframes to load, faults | the invariants and action properties of section 6, `RequestInv` |
| `BacktestJson` | 3 bars | **violated** `ReportIsJson` |
| `Stream` | 1 slot, watchdog 1, stable 2, backoff 1 to 4, 3 prices | `StreamInv`, `CacheKeepsUp`, `PricesInOrder`, `QuoteIsPublished`, `SilenceEnds` |
| `RuntimeShutdown` | the three tasks, 5 restarts | `RuntimeInv`, `DeathIsNoticed`, `ShutdownEnds` |
| `RuntimeIndependence` | the same | **violated** `WorkersAreIndependent` |
| `Signals` | charts of up to 7 candles of 5 shapes from 3 beginnings, 5 sets of charts of the other timeframes, periods 1 to 5 | the properties of section 9 |
| `Socket` | 3 connections, 2 messages, backoff 1 to 3, faults | `SocketInv`, `FramesInOrder`, `Recovers`, `SessionsEnd` |

Why the bounds are enough. The poller treats timeframes alike, one after the
other, so two of them show every effect of their order; a second one twice as
long makes candles of different timeframes close at different times. Fetches of
two candles against three periods exercise the window in which a candle
leaves the reach of a fetch. One client suffices for the race with the poller,
and two writers are the most the transactions can distinguish: a second client
behaves towards the first as the poller does. The initial equity of 4 with a
risk of a quarter sizes positions so that one loss may use up the account, five
bars allow two trades after each other and a forced end. With a stop 2 and a
target 4 from the fill, the prices 9, 10, 14 and 15 (two close to each other at
either end) allow bars that hit the stop, the target, both or neither, and
opening gaps in either direction, before the entry and across the stop; a stop
distance of 0 sizes nothing and must not enter. For the price stream what
matters is the order of the time limits (the watchdog before the stable time,
several doublings before the maximal backoff), not their size; three prices
put one into each of the cache, the channel and the buffer of a connection. Three connections of an app let a lost one
be followed by another lost one while the handler of the first still runs, and
the last one stays, so that `Recovers` has something to reach; two messages
suffice for an order, a gap and a repeat. The five shapes of candle include one
that overlaps all others, a rise to and a fall from the edge of the range, and
seven of them carry three swing highs, two swings on each side, breaks of
structure and changes of character, ranging and fully stacked trends, every
grade of volatility and every score of the levels (only the bonus for three
swings on both sides is out of reach); the beginnings and other charts were
chosen so that BUY, SELL and WAIT, a pullback, an opposed gate and pullback, and
a flip all occur.

`CHECK_DEADLOCK FALSE` appears where the program ends: the search, a backtest,
a price stream whose credentials are refused, the worker process, a chart at
`MaxCandles`, and an app that was disposed of.

**Bounds named in the models:** `MaxBars` (base periods), `Times` and
`MaxCandles`, `Length`; `MaxTicks` (prices quoted); `MaxPublished` and `MaxConns`;
`MaxCandles` of the 15m chart. The unbounded counters `waiting` and
`feed` are bounded by `MaxBars`.

## 12. Fairness

* `WF(PollerStep)`, `WF(WorkerStep)`: an event loop that is alive runs its ready
  tasks, and every `await` of these tasks has a timeout or an interval.
* `SF` on each call of the poller (fetch, query, insert, publish) per timeframe:
  the code retries it every 30 s for ever, and an outage that never ends is no
  counterexample to the code.
* `WF(PollerRestart)`: `src/backend/railway.toml` restarts a process that fails,
  at most five times in a row. It holds for a process that dies; a process
  that ends regularly because one of its tasks ended is not restarted
  (`workers/main.py`, which exits with status 0), see section 13. So the liveness of the
  feed is that of a process whose tasks keep running.
* `WF` on the steps of a request once it was received. Clients owe no request.
* For the price stream: `WF` on time, on the loop and on the end of a cancelled
  task; `SF` on opening a connection, reading, caching and publishing, which
  every attempt tries again.
* For the runtime: `WF` on its own steps and on the end of cancelled tasks, whose
  `finally` clauses only close connections. No fairness on failures or restarts.
* For the socket: `WF` on the steps of each handler, of each forwarder and of the
  app, that is, both event loops run their tasks, timers and callbacks, and the
  server's pings notice a dead connection. None on publishing, on starting or
  disposing of the app, nor on any failure; that connections fail only finitely
  often is the bound `MaxConns`.
* `WF(Next)` for the binary search, a sequential loop.

## 13. What the violations say

* `FeedBackfillSilent`: `api/v1/market.py:68` inserts without publishing. If a
  request inserts a candle first, the poller's row count is 0 and the candle is
  never announced, contrary to the docstring of `workers/signal_worker.py`.
* `BacktestJson`: `backtesting/stats.py:39` yields infinity.
* `RuntimeIndependence`: `workers/main.py:71-86` stops all tasks when one ends,
  where its docstring says "if one crashes, the other keeps running".

More divergences were met while modelling and have no run of their own:

* `workers/main.py:75` says "Propagate any exception from a worker that died"; the
  exception is logged, and the process exits with status 0, which
  `restartPolicyType = "ON_FAILURE"` does not restart.
* `workers/candle_poller.py:69` announces only the newest of several candles a
  poll inserts; its docstring speaks of "newly-inserted candles". `PollPublish`
  models what the code does.
* `api/v1/market.py:63` asks for `limit` candles and gets `limit - 1` closed ones
  while one is in flight, so "backfills from OANDA the first time, then serves
  from Postgres" (`src/backend/README.md:57`) need not hold: the next request of
  the same limit goes to the exchange again. `RestFetch` models it.
* `workers/price_stream.py:133` resets the backoff after a clean end or after
  30 s of connection, not "after any successful message" (line 6).
  `ResetBackoff` models it.
* `backtesting/engine.py:200`: with `allow_pyramiding=True` a new trade replaces
  one that is still open, which gets no exit and no entry in `result.trades`,
  the "full audit trail" of `src/backend/README.md:377`. With
  `AllowPyramiding = TRUE` TLC refutes `EveryTradeIsReported` in three bars; all
  other properties of `BacktestWalk` hold either way.
* `services/signals/engine.py:30` says "4h/1h/15m are required for a firing signal"
  and `services/signals/rules.py:9` lists reasons for WAIT; the pullback fallback
  fires without a 1h verdict and under a neutral or opposite 4h verdict, as it
  looks at the 4h trend only.
* `services/signals/types.py:35` gives the confidence as 0..100; the levels fix the
  reward at two risks, so it ends at 96.67 (`SignalInv`).
* The three points for the slope of EMA20 go to a downtrend when the slope is flat,
  and not to an uptrend (`services/analysis/trend.py:83`); `MirrorImage` excepts it.
* The live worker analyses the last 500 candles (`workers/signal_worker.py:38`), the
  backtester all of them, and only the former loads 5m candles. The averages
  depend on the first candle, so "the exact same engine runs live and inside the
  backtester" (`services/signals/__init__.py:10`) holds of the engine, not of
  its inputs.
* `api/v1/ws.py:68`: a forwarder that dies is not noticed; the client stays
  connected and hears nothing. `Recovers` excepts it. An `unsubscribe` that raises
  skips the two `aclose()` after it.
* `src/mobile/lib/core/network/market_websocket.dart` calls again for ever when the
  symbol is unsupported; `Recovers` claims nothing then.
* `repositories/backtests.py:40`: a refresh that fails answers 500 for a run that is
  stored.
* `repositories/market_data.py:46`: an insert of a backfill of 5000 candles binds
  40000 parameters, more than a PostgreSQL statement takes.

## 14. Proofs

All theorems hold for every value of the constants that satisfies the named
assumptions `FeedAssumption`, `PipelineAssumption`, `VisibleAssumption`,
`BacktestAssumption`, `RequestAssumption`, `StreamAssumption`,
`RuntimeAssumption`, `IndicatorsAssumption`, `AnalysisAssumption`,
`EngineAssumption` and `SocketAssumption`, which TLC evaluates in the runs.

| module | theorems | argument |
|---|---|---|
| `Recursion` | `IntervalInduction`, `RecursiveFunctionExists`, `RecursiveFunctionTyped` | see below |
| `SignalPipelineProofs` | `FeedInvariant`, `CandlesInOrder`, `AnnouncedCandlesStored`, `ClosedCandlesOnly`, `FeedRefinesLog` | of the feed: one lemma per group of actions shows `FeedInv /\ [Next]_feedVars => FeedInv'`; the refinement maps each action with the help of that invariant (`PollIsNews` makes the publication an announcement of something newer) |
| | `PipelineIsFeed`, `PipelineInvariant`, `NoTriggerLost`, `AnalysesArePushed`, `PushedSignalsPersisted`, `SignalsInOrder` | of the composition: it implements the feed, so `FeedInv` carries over; then `PipelineInv` step by step, and `OrderInv` on top of both |
| `VisibleCandlesProofs` | `SearchInvariant`, `NoLookAhead`, `SearchHalves` | the loop invariant, and the ascending order; the interval halves, which bounds the steps |
| `BacktestProofs` | `BacktestInvariant`, `BooksBalance`, `DrawdownIsThatOfTheCurve`, `OneTradeAtATime`, `StopsCostTargetsEarn`, `CurveOverTime`, `NoTradeVanishes`, `BustStays` | `BacktestInv` step by step; `NoTradeVanishes` assumes `~AllowPyramiding`, without which it does not hold |
| | `StatisticsAreRight` | by induction over the trades: after k of them the two sums differ by what the equity has changed (`GrossNets`), and the streak is the run of losses that ends there, its best the longest of all (`StreakCounts`) |
| | `RequestIsBacktest`, `RequestKeepsBooks`, `AnswersAreTrue` | a request's steps are steps of the engine or leave it alone; `RequestIInv` adds to `BacktestInv` that the curve ends with the equity and where the handler is meanwhile |
| `PriceStreamProofs` | `StreamInvariant`, `CacheIsNewest`, `ChannelInOrder` | `Moves` shows that a consumer's step moves its slot only and stays within its attempt; then `StreamInv` step by step |
| `WorkerRuntimeProofs` | `RuntimeInvariant` | step by step |
| | `EndsHaveCauses`, `CleanEndIsFinal` | what is true where `WorkersAreIndependent` is violated: workers stop for a signal or because one of them failed, and as both end with status 0 the platform restarts neither (`EndsForACause` is inductive on top of `RuntimeInv`) |
| `SignalEngineProofs` | `CurrentAlways`, `SidesAreStable`, `LevelsAreInOrder`, `AnalyzeGivesVerdict`, `SignalIsConsistent` | the signal is a function of the present verdicts (`Current`), and each part of a verdict has its type and range; the rest is about the two decisions and the arithmetic of scores |
| | `NeverRepaints` | an average is an initial sum and a recursion; on a chart that continues another the two agree, by induction from the first candle (`EmaKeeps`, `WilderKeeps`), and with them RSI, MACD and ATR; a swing looks at its neighbours only |
| | `ZonesAreClusters` | the order exists (one more first element at a time, `SelectsMore`) and lists every swing (a strictly increasing list has no repeats, so it is onto); then the zones of the first k swings are right for every k (`JoinedIsZoned`) |
| | `BullsAndBearsAlike`, `ShapesAreReflected` | `MirrorImage`, analysis by analysis; see below |
| `MarketSocketProofs` | `MarketInvariant`, `OneConnectionAlways`, `FramesComeInOrder` | `FramesInOrder` is not inductive: `ConnInv` adds for every connection where its messages are (`Consecutive`), and for a broken one the app still listens to that what it may report is newer than all the app has (`Fresh`); `Consecutive` says that the queue holds the latest messages, that the forwarder's one comes before them and after all the app may hear, and that none since the subscription is missing; pure lemmas about the sequences (`CarriesSent`, `NewsBroken`, ...), then one lemma per group of actions |
| | `OneConnectionAndBackoff` | the delay is the shortest one doubled `failures` times, and cut at the longest: doubling and cutting may be exchanged (`BackoffKept`) |

**Recursive functions.** The provers know nothing of `s[k] == ... s[k - 1] ...`
but that it is some function that satisfies the equation, if there is one, and
the library's induction theorems take a predicate as a parameter, which they
cannot instantiate. `Recursion` replaces the predicate by a set.
`LeastElement` comes from the well-foundedness of strict inclusion on the
subsets of an interval, and gives `IntervalInduction`: a set that has the first
integer of an interval, and with each the next, has all.
`RecursiveFunctionExists` builds the function that follows a given step at every
position; hence the equation of a definition is satisfiable, the definition
obeys it, and `RecursiveFunctionTyped` gives its range. A module that needs a
recursive definition states it once as equations (`EmaEquations`,
`GrossSums`, `StreaksOfTrades`, `Doublings`, `ZonesOfSwings`) and works with
those.

**Upside down.** The two directions are separate branches of the code, so that
`MirrorImage` compares different computations. The sums of a reflected series
are reflected (`SumLinear`), and so is a weighted mean if its division leaves no
remainder, which carries over from the seed to every average (`EmaMirrored`),
MACD and histogram; the RSI exchanges gains and losses and the true range is
the same whatever the divisions leave (`RsiReflected`, `AtrReflected`). Votes,
agreement and swings change sides by their definitions. For support and
resistance the one-pass clustering begins at the other end. It still finds the
same zones because there is only one clustering: zones that are chained by gaps
of half an ATR and lie further apart than that (`AreComponents`, which
`ZonesAreClusters` proves of the algorithm) are determined by the swings
(`OneClustering`: a chain cannot leave a separated zone, `ChainStays`). Their
means are distinct, hence the nearest level is unique and becomes the nearest
on the other side (`LevelsAreLevels`, `NearestUpturned`). The signal follows
from the gate and the pullback of opposite verdicts (`SignalReflected`).

`BullsAndBearsAlike` says this of every chart for which the averages and levels
are exact quotients (`ExactQuotients`) and whose mirror image has no negative
price. These are the charts for which the model is the code's arithmetic: where
a division leaves a remainder the model rounds down, on both sides of the mirror,
while the code keeps the fraction. The hypotheses are met: added to
`Signals.cfg` as invariants, both hold in all 23590 states of that run.
`ShapesAreReflected` needs no exact quotient.

Not proved is liveness, which needs fairness and ENABLED: `NewestIsStored`,
`CloseIsAnalysed`, `SearchEnds`, `QuoteIsPublished`, `SilenceEnds`,
`DeathIsNoticed`, `ShutdownEnds`, `Recovers` and `SessionsEnd` are checked by TLC
only (`SearchHalves` is what can be said of the search without fairness). The
violated properties of section 13 are no theorems. All other properties of the
runs are, for every value of the constants; `MirrorImage` under the two
hypotheses above, `NoTradeVanishes` under `~AllowPyramiding`.

## 15. Not modelled

The components with status `not_modelled` in `PROJECT.json`, with their reasons:
the two reads of `api/v1/signals.py`, JSON layouts, settings and routing, screens
of the mobile app, migrations; and of the modelled ones, floating-point rounding,
reasons and warnings, the conversions of the exchange's JSON, fetches over a
time range, and `IncrementalEMA`, which nothing calls. Known hazards no property
covers carry a note there, among them: a publish that fails after the commit silences that candle; an
outage longer than `FETCH_COUNT_PER_POLL` candles leaves a hole; the 15m trigger
fires before the same round has polled 1h and 4h; live and backtested analyses
begin with different candles.
