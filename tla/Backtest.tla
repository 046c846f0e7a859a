------------------------------ MODULE Backtest ------------------------------
(***************************************************************************)
(* The walk-forward loop of a backtest: run_backtest with its execution    *)
(* rules, its portfolio and its statistics.  One iteration over a 15m bar  *)
(* is two steps: what the bar does to the open trade, then the decision at *)
(* its close.                                                              *)
(*                                                                         *)
(* Prices and money are integers.  The analysis is abstract: at a close it *)
(* may yield any direction and stop distance, or nothing (not enough       *)
(* history, WAIT, confidence too low).  The size of a position is rounded  *)
(* up to a unit, which keeps its sign.  Bars are numbered from 1; a bar    *)
(* opens when its predecessor closes.                                      *)
(***************************************************************************)
EXTENDS Integers, Sequences

CONSTANTS
    Length,           \* number of primary candles
    Prices,           \* mid prices
    Risks,            \* stop distances of the signals (1.5 ATR), 0: no ATR
    InitialEquity,
    RiskPct,          \* risk_per_trade_pct
    Adverse,          \* spread / 2 + slippage_entry
    SlippageSL,
    AllowPyramiding

(* Prices are large against the ATR, as those of the traded symbols are. *)
ASSUME BacktestAssumption ==
    /\ Length \in Nat \ {0}
    /\ Prices \subseteq Nat
    /\ Risks \subseteq Nat
    /\ \A p \in Prices, r \in Risks : p > 2 * r
    /\ InitialEquity \in Nat \ {0}
    /\ RiskPct \in 1..100
    /\ Adverse \in Nat
    /\ SlippageSL \in Nat
    /\ AllowPyramiding \in BOOLEAN

VARIABLES
    pc,           \* "bar", "decide", "report" or "done"
    bar,          \* candles whose close has been reached
    close,        \* close of the last of them
    nextOpen,     \* open of the candle after it, if there is one
    position,     \* open_trade
    trades,       \* the closed trades
    equity,       \* the portfolio
    peak,
    maxDrawdown,
    curve,        \* equity_curve
    stats         \* the BacktestStats, NoStats before the end

portfolio == <<equity, peak, maxDrawdown, curve>>
vars == <<pc, bar, close, nextOpen, position, trades, portfolio, stats>>

-----------------------------------------------------------------------------
Directions == {"BUY", "SELL"}

Sign(dir) == IF dir = "BUY" THEN 1 ELSE -1

Larger(a, b) == IF a > b THEN a ELSE b

NoTrade == [dir |-> "none"]

NoStats == [total |-> 0]

Candles == {c \in [open : Prices, high : Prices, low : Prices, close : Prices] :
               /\ c.low <= c.open /\ c.open <= c.high
               /\ c.low <= c.close /\ c.close <= c.high}

(* The extremes of a bar, as the holder of a trade sees them. *)
Worst(c, dir) == IF dir = "BUY" THEN c.low ELSE c.high
Best(c, dir) == IF dir = "BUY" THEN c.high ELSE c.low

HitStop(c, t) == Sign(t.dir) * Worst(c, t.dir) <= Sign(t.dir) * t.stop
HitTarget(c, t) == Sign(t.dir) * Best(c, t.dir) >= Sign(t.dir) * t.target

EntryFill(price, dir) == price + Sign(dir) * Adverse

StopFill(t) == t.stop - Sign(t.dir) * SlippageSL

(* Mutant: the levels of the signal are kept as they are. *)
ShiftedNot(level, entry) == level

(* A level of the signal moves with the entry; a level 0 counts as absent. *)
Shifted(level, entry) == IF level = 0 THEN nextOpen ELSE level + (entry - close)

PositionSize(stopDistance) ==
    IF stopDistance <= 0 THEN 0
    ELSE -((-(equity * RiskPct)) \div (100 * stopDistance))

Distance(a, b) == IF a > b THEN a - b ELSE b - a

Pnl(t, exit) == Sign(t.dir) * (exit - t.entry) * t.size

(* _close_trade, with the time of the bar the trade ended on. *)
Closed(t, time, exit, reason) ==
    [dir |-> t.dir, entryTime |-> t.entryTime, entry |-> t.entry,
     stop |-> t.stop, target |-> t.target, size |-> t.size,
     equityBefore |-> t.equityBefore,
     exitTime |-> time, exit |-> exit, reason |-> reason,
     pnl |-> Pnl(t, exit), equityAfter |-> equity + Pnl(t, exit)]

(* Mutant: forgets the peak of the point it records. *)
RecordLatePeak(time, value, times) ==
    /\ equity' = value
    /\ peak' = Larger(peak, equity)
    /\ maxDrawdown' = Larger(maxDrawdown, peak' - value)
    /\ curve' = curve \o [k \in 1..times |-> [time |-> time, equity |-> value]]

(* Portfolio.record, once or twice with the same point. *)
Record(time, value, times) ==
    /\ equity' = value
    /\ peak' = Larger(peak, value)
    /\ maxDrawdown' = Larger(maxDrawdown, peak' - value)
    /\ curve' = curve \o [k \in 1..times |-> [time |-> time, equity |-> value]]

-----------------------------------------------------------------------------
Init ==
    /\ pc = "bar"
    /\ bar = 0
    /\ close = 0
    /\ nextOpen \in Prices
    /\ position = NoTrade
    /\ trades = <<>>
    /\ equity = InitialEquity
    /\ peak = InitialEquity
    /\ maxDrawdown = 0
    /\ curve = <<>>
    /\ stats = NoStats

(* The bar c, which opened at nextOpen, closes; and the next one, if there *)
(* is one, opens: at its close or with a gap.                              *)
BarCloses(c) ==
    /\ pc = "bar"
    /\ c.open = nextOpen
    /\ bar' = bar + 1
    /\ close' = c.close
    /\ nextOpen' \in IF bar' < Length THEN Prices ELSE {nextOpen}
    /\ pc' = "decide"
    /\ stats' = stats

(* The open trade ends on the bar: its equity is recorded, and recorded    *)
(* again by the branch for bars without a trade.                           *)
CloseTrade(exit, reason) ==
    /\ trades' = Append(trades, Closed(position, bar', exit, reason))
    /\ Record(bar', equity + Pnl(position, exit), 2)
    /\ position' = NoTrade

HitsStop(c) ==
    /\ position # NoTrade
    /\ BarCloses(c)
    /\ HitStop(c, position)
    /\ CloseTrade(StopFill(position), "SL")

HitsTarget(c) ==
    /\ position # NoTrade
    /\ BarCloses(c)
    /\ HitTarget(c, position)
    /\ ~HitStop(c, position)
    /\ CloseTrade(position.target, "TP1")

Holds(c) ==
    /\ position # NoTrade
    /\ BarCloses(c)
    /\ ~HitStop(c, position)
    /\ ~HitTarget(c, position)
    /\ UNCHANGED <<position, trades, portfolio>>

Flat(c) ==
    /\ position = NoTrade
    /\ BarCloses(c)
    /\ Record(bar', equity, 1)
    /\ UNCHANGED <<position, trades>>

-----------------------------------------------------------------------------
(* Go on to the next bar, if there is one. *)
NextBar ==
    /\ pc' = IF bar = Length THEN "report" ELSE "bar"
    /\ nextOpen' = nextOpen

(* Mutants of MayEnter: ignores allow_pyramiding; does not look whether    *)
(* there is a next bar.                                                    *)
MayEnterAlways == bar < Length

MayEnterLast == position = NoTrade \/ AllowPyramiding

MayEnter ==
    /\ bar < Length
    /\ position = NoTrade \/ AllowPyramiding

(* Mutant: fills at the price of the signal. *)
EnteredAtClose(dir, risk) ==
    LET entry == EntryFill(close, dir)
        stop == Shifted(close - Sign(dir) * risk, entry)
        target == Shifted(close + 2 * Sign(dir) * risk, entry)
    IN  [dir |-> dir, entryTime |-> bar + 1, entry |-> entry,
         stop |-> stop, target |-> target,
         size |-> PositionSize(Distance(entry, stop)), equityBefore |-> equity]

(* The trade that a signal opens on the next bar, filled at its open. *)
Entered(dir, risk) ==
    LET entry == EntryFill(nextOpen, dir)
        stop == Shifted(close - Sign(dir) * risk, entry)
        target == Shifted(close + 2 * Sign(dir) * risk, entry)
    IN  [dir |-> dir, entryTime |-> bar + 1, entry |-> entry,
         stop |-> stop, target |-> target,
         size |-> PositionSize(Distance(entry, stop)), equityBefore |-> equity]

(* Mutant: opens a trade of any size. *)
EnterAnySize(dir, risk) ==
    /\ pc = "decide"
    /\ MayEnter
    /\ position' = Entered(dir, risk)
    /\ NextBar
    /\ UNCHANGED <<bar, close, trades, portfolio, stats>>

(* Mutant: enters on the bar that has just closed. *)
EnterAtOnce(dir, risk) ==
    /\ pc = "decide"
    /\ MayEnter
    /\ Entered(dir, risk).size > 0
    /\ position' = [Entered(dir, risk) EXCEPT !.entryTime = bar]
    /\ NextBar
    /\ UNCHANGED <<bar, close, trades, portfolio, stats>>

(* An open trade that pyramiding replaces is gone. *)
Enter(dir, risk) ==
    /\ pc = "decide"
    /\ MayEnter
    /\ Entered(dir, risk).size > 0
    /\ position' = Entered(dir, risk)
    /\ NextBar
    /\ UNCHANGED <<bar, close, trades, portfolio, stats>>

(* No signal, or none that may be or can be acted on. *)
Skip ==
    /\ pc = "decide"
    /\ NextBar
    /\ UNCHANGED <<bar, close, position, trades, portfolio, stats>>

(* Mutant: the last trade is listed but not recorded in the portfolio. *)
ForceCloseUnrecorded ==
    /\ pc = "report"
    /\ position # NoTrade
    /\ trades' = Append(trades, Closed(position, bar, close, "END"))
    /\ position' = NoTrade
    /\ UNCHANGED <<pc, bar, close, nextOpen, portfolio, stats>>

(* The data end with an open trade. *)
ForceClose ==
    /\ pc = "report"
    /\ position # NoTrade
    /\ trades' = Append(trades, Closed(position, bar, close, "END"))
    /\ Record(bar, equity + Pnl(position, close), 1)
    /\ position' = NoTrade
    /\ UNCHANGED <<pc, bar, close, nextOpen, stats>>

-----------------------------------------------------------------------------
(* compute_stats.  The ratios are left out, but for their exceptions.      *)

Lost(t) == t.pnl <= 0

NoStreak == [current |-> 0, best |-> 0]

(* Mutant: a win does not end a run of losses. *)
StreakKept(streak, t) ==
    LET current == streak.current + IF Lost(t) THEN 1 ELSE 0
    IN  [current |-> current, best |-> Larger(streak.best, current)]

Streak(streak, t) ==
    LET current == IF Lost(t) THEN streak.current + 1 ELSE 0
    IN  [current |-> current, best |-> Larger(streak.best, current)]

(* The best of the streaks after 0, 1, ... trades. *)
MaxConsecutiveLosses ==
    LET streak[k \in 0..Len(trades)] ==
            IF k = 0 THEN NoStreak ELSE Streak(streak[k - 1], trades[k])
    IN  streak[Len(trades)].best

Gross(amounts) ==
    LET sum[k \in 0..Len(amounts)] == IF k = 0 THEN 0 ELSE sum[k - 1] + amounts[k]
    IN  sum[Len(amounts)]

GrossProfit == Gross([k \in 1..Len(trades) |-> IF Lost(trades[k]) THEN 0 ELSE trades[k].pnl])

GrossLoss == Gross([k \in 1..Len(trades) |-> IF Lost(trades[k]) THEN -trades[k].pnl ELSE 0])

ProfitFactor ==
    CASE trades = <<>> -> "zero"
      [] trades # <<>> /\ GrossLoss > 0 -> "ratio"
      [] OTHER -> "inf"

Report ==
    /\ pc = "report"
    /\ position = NoTrade
    /\ pc' = "done"
    /\ stats' = [total |-> Len(trades),
                 grossProfit |-> GrossProfit, grossLoss |-> GrossLoss,
                 profitFactor |-> ProfitFactor,
                 netProfit |-> equity - InitialEquity,
                 maxConsecutiveLosses |-> MaxConsecutiveLosses]
    /\ UNCHANGED <<bar, close, nextOpen, position, trades, portfolio>>

Next ==
    \/ \E c \in Candles : HitsStop(c) \/ HitsTarget(c) \/ Holds(c) \/ Flat(c)
    \/ \E dir \in Directions, risk \in Risks : Enter(dir, risk)
    \/ Skip
    \/ ForceClose
    \/ Report

Spec == Init /\ [][Next]_vars

-----------------------------------------------------------------------------
OpenTrades ==
    [dir : Directions, entryTime : 1..Length, entry : Int, stop : Int, target : Int,
     size : Nat \ {0}, equityBefore : Int]

ClosedTrades ==
    [dir : Directions, entryTime : 1..Length, entry : Int, stop : Int, target : Int,
     size : Nat \ {0}, equityBefore : Int, exitTime : 1..Length, exit : Int,
     reason : {"SL", "TP1", "END"}, pnl : Int, equityAfter : Int]

(* Every variable stays in the set its declaration describes; "bar" stops  *)
(* at the last candle.                                                     *)
TypeOK ==
    /\ pc \in {"bar", "decide", "report", "done"}
    /\ bar \in 0..Length
    /\ pc = "bar" => bar < Length
    /\ pc \in {"report", "done"} => bar = Length
    /\ bar > 0 => close \in Prices
    /\ pc = "decide" => bar > 0
    /\ nextOpen \in Prices
    /\ position \in OpenTrades \cup {NoTrade}
    /\ trades \in Seq(ClosedTrades)
    /\ equity \in Int
    /\ peak \in Int
    /\ maxDrawdown \in Nat
    /\ curve \in Seq([time : 1..Length, equity : Int])

(* The equity of the portfolio is what the listed trades made of the       *)
(* initial equity: each begins with what the previous one left.  A trade   *)
(* that vanished, was counted twice or was sized on stale equity would     *)
(* break the chain.                                                        *)
EquityAfter(k) == IF k = 0 THEN InitialEquity ELSE trades[k].equityAfter

AccountsBalance ==
    /\ equity = EquityAfter(Len(trades))
    /\ position # NoTrade => position.equityBefore = equity
    /\ \A k \in 1..Len(trades) :
          /\ trades[k].equityBefore = EquityAfter(k - 1)
          /\ trades[k].equityAfter = trades[k].equityBefore + trades[k].pnl

(* The incremental peak and drawdown are those of the whole curve, with    *)
(* the initial equity as its first point.                                  *)
Point(k) == IF k = 0 THEN InitialEquity ELSE curve[k].equity

DrawdownIsExact ==
    LET points == 0..Len(curve)
    IN  /\ \A k \in points : Point(k) <= peak
        /\ \E k \in points : Point(k) = peak
        /\ \A j, k \in points : j <= k => Point(j) - Point(k) <= maxDrawdown
        /\ \E j, k \in points : j <= k /\ Point(j) - Point(k) = maxDrawdown

(* One trade at a time: a trade begins after the bar on which the previous *)
(* one ended, and never ends before it began.                              *)
TradesInOrder ==
    /\ \A k \in 1..Len(trades) : trades[k].entryTime <= trades[k].exitTime
    /\ \A j, k \in 1..Len(trades) : j < k => trades[j].exitTime < trades[k].entryTime
    /\ position # NoTrade =>
          \A k \in 1..Len(trades) : trades[k].exitTime < position.entryTime

(* A stop costs at least the distance that sized the trade, and a target   *)
(* earns, wherever the entry was filled relative to the signal's price.    *)
ExitsPay ==
    \A k \in 1..Len(trades) : LET t == trades[k] IN
        /\ t.reason = "SL" => t.pnl <= -(t.size * Distance(t.entry, t.stop)) /\ t.pnl < 0
        /\ t.reason = "TP1" => t.pnl > 0

(* Points of the curve come in order of time, and two of the same time     *)
(* agree, so a chart over time is well defined although the bar on which a *)
(* trade ends is recorded twice and the end of the data once more.         *)
CurveIsAFunction ==
    \A j, k \in 1..Len(curve) :
        /\ j < k => curve[j].time <= curve[k].time
        /\ curve[j].time = curve[k].time => curve[j].equity = curve[k].equity

(* What an open trade owes to its entry: it was sized on a positive        *)
(* equity, its levels lie on either side of the fill, and the fill is the  *)
(* open of the very bar that will first try them, not a price the engine   *)
(* knew when it decided.                                                   *)
PositionIsSound ==
    position # NoTrade =>
        /\ equity > 0
        /\ position.entryTime <= IF pc = "bar" THEN bar + 1 ELSE bar
        /\ pc = "bar" /\ position.entryTime = bar + 1 =>
              position.entry = EntryFill(nextOpen, position.dir)
        /\ Sign(position.dir) * (position.entry - position.stop) > 0
        /\ Sign(position.dir) * (position.target - position.entry) > 0

(* Nothing happened after the current bar, and a bar that ends with an     *)
(* open trade has no point yet.                                            *)
HistoryIsPast ==
    /\ \A k \in 1..Len(trades) : trades[k].exitTime <= bar
    /\ \A k \in 1..Len(curve) : curve[k].time <= bar
    /\ pc # "bar" /\ position # NoTrade => \A k \in 1..Len(curve) : curve[k].time < bar

(* The strengthening of these invariants that every step preserves.        *)
BacktestInv ==
    /\ TypeOK
    /\ AccountsBalance
    /\ DrawdownIsExact
    /\ TradesInOrder
    /\ ExitsPay
    /\ CurveIsAFunction
    /\ PositionIsSound
    /\ HistoryIsPast

(* The streak of the statistics is the longest run of losses, and the      *)
(* gross amounts net to the change of the equity.                          *)
StatsAreRight ==
    pc = "done" =>
        /\ stats.grossProfit - stats.grossLoss = stats.netProfit
        /\ LET runs == {r \in (1..Len(trades)) \X (1..Len(trades)) :
                           \A i \in r[1]..r[2] : Lost(trades[i])}
           IN  /\ \A r \in runs : r[2] - r[1] + 1 <= stats.maxConsecutiveLosses
               /\ \/ stats.maxConsecutiveLosses = 0
                  \/ \E r \in runs : r[2] - r[1] + 1 = stats.maxConsecutiveLosses

(* An account that is used up stays as it is: no trade is opened on it.    *)
BustIsFinal == [][equity <= 0 => equity' = equity /\ position' = NoTrade]_vars

(* An open trade leaves the engine only through the list of trades, which  *)
(* the README calls the "full audit trail".                                *)
EveryTradeIsReported ==
    [][position # NoTrade /\ position' # position =>
          /\ Len(trades') = Len(trades) + 1
          /\ trades'[Len(trades')].entryTime = position.entryTime]_vars

(* serialize_result turns the result "into JSON-safe dicts for             *)
(* persistence": JSON has no infinity.                                     *)
ReportIsJson == pc = "done" => stats.profitFactor # "inf"
=============================================================================
