------------------------------ MODULE Analysis ------------------------------
(***************************************************************************)
(* analyze(): the verdict on the candles of one timeframe.  Five analyses  *)
(* give points, three of them a direction; each stays neutral below its    *)
(* own minimum of history.  Their "reasons" and warnings are wording and   *)
(* left out.                                                               *)
(***************************************************************************)
EXTENDS Indicators, FiniteSets, SequencesExt

CONSTANTS
    EmaFast,         \* periods of the trend's EMAs (20,
    EmaMiddle,       \* 50
    EmaSlow,         \* and 200)
    TrendHistory,    \* candles below which the trend is not judged (210),
    MomentumHistory, \* nor the momentum (40),
    StructureHistory,\* the structure (30),
    LevelsHistory,   \* support and resistance (40),
    VolatilityHistory, \* volatility (20)
    FractalHalf,     \* candles a swing exceeds on each side (2)
    LookbackSwings,  \* the swings that structure considers (4)
    VolatilityBounds \* ATR, in 1/10000 of the price, up to which volatility
                     \* is low, normal, high (15, 60, 120)

ASSUME AnalysisAssumption ==
    /\ {EmaFast, EmaMiddle, EmaSlow, FractalHalf, LookbackSwings} \subseteq Nat \ {0}
    /\ {EmaFast + 2, EmaMiddle, EmaSlow} \subseteq 1..TrendHistory
    /\ {RsiLength + 1, MacdSlow + MacdSignal - 1} \subseteq 1..MomentumHistory
    /\ AtrLength + 1 \in 1..LevelsHistory /\ AtrLength + 1 \in 1..VolatilityHistory
    /\ {TrendHistory, MomentumHistory, StructureHistory, LevelsHistory,
        VolatilityHistory} \subseteq Nat
    /\ VolatilityBounds \in [1..3 -> Nat]

Bullish == 1
Neutral == 0
Bearish == -1
Directions == {Bullish, Neutral, Bearish}

(* An average that is not a number; real ones are positive. *)
NaN == 0

Count(f) == Cardinality({i \in DOMAIN f : f[i]})

-----------------------------------------------------------------------------
(* Trend: votes of the price and three EMAs.                               *)

NoTrend == [direction |-> Neutral, score |-> 0, ema20 |-> NaN, ranging |-> FALSE]

RangingBp == 10  \* 0.1%

(* Mutant: bearish needs the full stack. *)
TrendDirectionStrict(bulls, bears) ==
    IF bulls >= 2 THEN Bullish ELSE IF bears >= 3 THEN Bearish ELSE Neutral

TrendDirection(bulls, bears) ==
    IF bulls >= 2 THEN Bullish ELSE IF bears >= 2 THEN Bearish ELSE Neutral

Votes(price, ema20, ema50, ema200, slopeUp) ==
    LET span == Larger(ema20, Larger(ema50, ema200)) - Smaller(ema20, Smaller(ema50, ema200))
        bulls == Count(<<price > ema200, ema20 > ema50, ema50 > ema200>>)
        bears == Count(<<price < ema200, ema20 < ema50, ema50 < ema200>>)
        direction == TrendDirection(bulls, bears)
        full == 3 \in {bulls, bears}
        sloped == slopeUp = (direction = Bullish)
    IN  IF BelowBp(span, RangingBp, ema200)
        THEN [NoTrend EXCEPT !.ema20 = ema20, !.ranging = TRUE]
        ELSE [direction |-> direction,
              score |-> IF direction = Neutral THEN 0
                        ELSE (IF full THEN 22 ELSE 8) + (IF sloped THEN 3 ELSE 0),
              ema20 |-> ema20, ranging |-> FALSE]

SlopeUp(series, n) == series[n] > series[n - 2]

AnalyzeTrend(close) ==
    LET n == Len(close)
    IN  IF n < TrendHistory THEN NoTrend
        ELSE Votes(close[n], Ema(close, EmaFast)[n], Ema(close, EmaMiddle)[n],
                   Ema(close, EmaSlow)[n], SlopeUp(Ema(close, EmaFast), n))

-----------------------------------------------------------------------------
(* Momentum: RSI and the MACD line must agree.                             *)

NoRsi == [num |-> 0, den |-> 0]

Agreement(rsi, macd, hist) ==
    LET direction == IF RsiAbove(rsi, 50) /\ macd > 0 THEN Bullish
                     ELSE IF RsiBelow(rsi, 50) /\ macd < 0 THEN Bearish
                     ELSE Neutral
        accelerates == IF direction = Bullish THEN hist > 0 ELSE hist < 0
        exhausted == IF direction = Bullish THEN ~RsiBelow(rsi, 70) ELSE ~RsiAbove(rsi, 30)
    IN  [direction |-> direction,
         score |-> IF direction = Neutral THEN 0
                   ELSE 12 + (IF accelerates THEN 4 ELSE 0) + (IF exhausted THEN 0 ELSE 4),
         rsi |-> rsi]

AnalyzeMomentum(close) ==
    LET n == Len(close)
    IN  IF n < MomentumHistory
        THEN [direction |-> Neutral, score |-> 0, rsi |-> NoRsi]
        ELSE Agreement(Rsi(close)[n], MacdLine(close)[n], MacdHistogram(close)[n])

-----------------------------------------------------------------------------
(* Structure: fractal swings.  A swing is the position of its candle.      *)

SwingHighs(high) ==
    {i \in (FractalHalf + 1)..(Len(high) - FractalHalf) :
        \A k \in 1..FractalHalf : high[i - k] < high[i] /\ high[i + k] < high[i]}

SwingLows(low) ==
    {i \in (FractalHalf + 1)..(Len(low) - FractalHalf) :
        \A k \in 1..FractalHalf : low[i - k] > low[i] /\ low[i + k] > low[i]}

Recent(swings) ==
    {i \in swings : Cardinality({j \in swings : j > i}) < LookbackSwings}

Ascending(swings, v) ==
    Cardinality(swings) >= 2 /\ \A i, j \in swings : i < j => v[i] < v[j]

Descending(swings, v) ==
    Cardinality(swings) >= 2 /\ \A i, j \in swings : i < j => v[i] > v[j]

(* sh and sl are the recent swing highs and lows. *)
Swings(sh, sl, high, low, price) ==
    LET direction ==
            IF Ascending(sh, high) /\ Ascending(sl, low) THEN Bullish
            ELSE IF Descending(sh, high) /\ Descending(sl, low) THEN Bearish
            ELSE Neutral
        bos == \/ direction = Bullish /\ price > high[Max(sh)]
               \/ direction = Bearish /\ price < low[Max(sl)]
        choch == /\ direction = Neutral
                 /\ \/ sh # {} /\ \A i \in sh : price > high[i]
                    \/ sl # {} /\ \A i \in sl : price < low[i]
        many == Cardinality(sh) >= 3 /\ Cardinality(sl) >= 3
    IN  [direction |-> direction,
         score |-> IF direction = Neutral THEN 0
                   ELSE 12 + (IF bos THEN 5 ELSE 0) + (IF many THEN 3 ELSE 0),
         bos |-> bos, choch |-> choch]

AnalyzeStructure(high, low, close) ==
    LET n == Len(close)
    IN  IF n < StructureHistory
        THEN [direction |-> Neutral, score |-> 0, bos |-> FALSE, choch |-> FALSE]
        ELSE Swings(Recent(SwingHighs(high)), Recent(SwingLows(low)), high, low, close[n])

-----------------------------------------------------------------------------
(* Support and resistance: swings whose levels are chained by gaps of at   *)
(* most half an ATR form one zone, at their mean level.                    *)

(* By level; which of two swings of one level comes first makes no odds. *)
Precedes(v, i, j) == v[i] < v[j] \/ (v[i] = v[j] /\ i < j)

Sorted(swings, v) ==
    CHOOSE order \in [1..Cardinality(swings) -> swings] :
        \A a, b \in DOMAIN order : a < b => Precedes(v, order[a], order[b])

(* The swings from the lowest to the highest level, into zones from the    *)
(* lowest to the highest, each the set of its swings.                      *)

(* Mutant of Cluster: compares with the first level of the zone. *)
ClusterFromFirst(order, v, atr) ==
    LET zones[k \in 0..Len(order)] ==
            IF k = 0 THEN <<>>
            ELSE LET zs == zones[k - 1]
                     near == IF k = 1 THEN FALSE
                             ELSE \A i \in zs[Len(zs)] : 2 * (v[order[k]] - v[i]) <= atr
                 IN  IF near THEN [zs EXCEPT ![Len(zs)] = @ \cup {order[k]}]
                     ELSE Append(zs, {order[k]})
    IN  zones[Len(order)]

Cluster(order, v, atr) ==
    LET zones[k \in 0..Len(order)] ==
            IF k = 0 THEN <<>>
            ELSE LET zs == zones[k - 1]
                     near == k > 1 /\ 2 * (v[order[k]] - v[order[k - 1]]) <= atr
                 IN  IF near THEN [zs EXCEPT ![Len(zs)] = @ \cup {order[k]}]
                     ELSE Append(zs, {order[k]})
    IN  zones[Len(order)]

Zones(swings, v, atr) == Cluster(Sorted(swings, v), v, atr)

NoLevel == [level |-> NaN, touches |-> 0]

(* The mean level of a zone, with the number of its swings. *)
InZone(zone, v) == [i \in 1..Len(v) |-> IF i \in zone THEN v[i] ELSE 0]

LevelOf(zone, v) == [level |-> SumOver(InZone(zone, v), 1, Len(v)) \div Cardinality(zone),
                     touches |-> Cardinality(zone)]

Levels(swings, v, atr) == {LevelOf(zone, v) : zone \in ToSet(Zones(swings, v, atr))}

Highest(ls) == IF ls = {} THEN NoLevel
               ELSE CHOOSE l \in ls : \A m \in ls : m.level <= l.level
Lowest(ls) == IF ls = {} THEN NoLevel
              ELSE CHOOSE l \in ls : \A m \in ls : m.level >= l.level

SupportBelow(ls, price) == Highest({l \in ls : l.level < price})
ResistanceAbove(ls, price) == Lowest({l \in ls : l.level > price})

(* Points for the level the trade leans on, and for room ahead of it. *)
LevelScore(behind, ahead, price, atr) ==
    LET near(l) == l # NoLevel /\ 2 * Abs(price - l.level) <= 3 * atr
    IN  (IF near(behind) THEN 8 + (IF behind.touches >= 2 THEN 3 ELSE 0) ELSE 0)
          + (IF near(ahead) THEN 0 ELSE 4)

NoSupportResistance == [score |-> 0, support |-> NoLevel, resistance |-> NoLevel]

Nearest(support, resistance, price, atr, direction) ==
    [score |-> CASE direction = Bullish -> LevelScore(support, resistance, price, atr)
                 [] direction = Bearish -> LevelScore(resistance, support, price, atr)
                 [] direction = Neutral -> 0,
     support |-> support, resistance |-> resistance]

SupportResistance(high, low, price, atr, direction) ==
    IF atr <= 0 THEN NoSupportResistance
    ELSE Nearest(SupportBelow(Levels(SwingLows(low), low, atr), price),
                 ResistanceAbove(Levels(SwingHighs(high), high, atr), price),
                 price, atr, direction)

AnalyzeSupportResistance(high, low, close, direction) ==
    LET n == Len(close)
    IN  IF n < LevelsHistory THEN NoSupportResistance
        ELSE SupportResistance(high, low, close[n], Atr(high, low, close)[n], direction)

-----------------------------------------------------------------------------
(* Volatility: the ATR relative to the price.                              *)

VolatilityOf(atr, price) ==
    LET below(k) == BelowBp(atr, VolatilityBounds[k], price)
    IN  IF below(1) THEN [level |-> "LOW", score |-> 6, atr |-> atr]
        ELSE IF below(2) THEN [level |-> "NORMAL", score |-> 10, atr |-> atr]
        ELSE IF below(3) THEN [level |-> "HIGH", score |-> 5, atr |-> atr]
        ELSE [level |-> "EXTREME", score |-> 2, atr |-> atr]

AnalyzeVolatility(high, low, close) ==
    LET n == Len(close)
    IN  IF n < VolatilityHistory THEN [level |-> "UNKNOWN", score |-> 0, atr |-> NaN]
        ELSE VolatilityOf(Atr(high, low, close)[n], close[n])

-----------------------------------------------------------------------------
(* More votes for one side than for the other; neutral ones do not count.  *)
MajorityDirection(dirs) ==
    LET bulls == Count([i \in DOMAIN dirs |-> dirs[i] = Bullish])
        bears == Count([i \in DOMAIN dirs |-> dirs[i] = Bearish])
    IN  IF bulls > bears THEN Bullish ELSE IF bears > bulls THEN Bearish ELSE Neutral

(* The result, once its parts are known. *)
Total(price, trend, momentum, structure, volatility, direction, sr) ==
    [direction |-> direction,
     score |-> trend.score + momentum.score + structure.score + sr.score + volatility.score,
     price |-> price,
     trend |-> trend, momentum |-> momentum, structure |-> structure,
     volatility |-> volatility, sr |-> sr]

(* The direction of the first three decides which levels give points. *)
Combine(high, low, close, trend, momentum, structure) ==
    LET direction == MajorityDirection(
                         <<trend.direction, momentum.direction, structure.direction>>)
    IN  Total(close[Len(close)], trend, momentum, structure,
              AnalyzeVolatility(high, low, close), direction,
              AnalyzeSupportResistance(high, low, close, direction))

AnalyzeSeries(high, low, close) ==
    Combine(high, low, close, AnalyzeTrend(close), AnalyzeMomentum(close),
            AnalyzeStructure(high, low, close))

Analyze(chart) == AnalyzeSeries(Highs(chart), Lows(chart), Closes(chart))
=============================================================================
