---------------------------- MODULE SignalEngine ----------------------------
(***************************************************************************)
(* generate_signal(): the verdicts on four timeframes become BUY, SELL or  *)
(* WAIT with a confidence and price levels.  The engine is a pure function *)
(* that the signal worker, the backtester and the diagnostics page call    *)
(* with the candles they loaded; here the 15m candles close one by one     *)
(* under fixed candles of the other timeframes, and the engine is asked    *)
(* after each.                                                             *)
(***************************************************************************)
EXTENDS Analysis

CONSTANTS
    Candles,     \* the candles that may close
    Starts,      \* the charts a behaviour may begin with
    Others,      \* the candles of the other timeframes: functions from a
                 \* subset of {"4h", "1h", "5m"} to charts
    MaxCandles,  \* bound of the model: candles of the 15m chart
    Pivot        \* the price at which MirrorImage reflects a chart

Candle == [high : Nat, low : Nat, close : Nat]

Charts == Seq(Candle) \ {<<>>}

ASSUME EngineAssumption ==
    /\ Candles \subseteq Candle
    /\ Starts \subseteq Charts
    /\ \A o \in Others : /\ DOMAIN o \subseteq {"4h", "1h", "5m"}
                          /\ \A tf \in DOMAIN o : o[tf] \in Charts
    /\ MaxCandles \in Nat
    /\ Pivot \in Nat

VARIABLES
    chart,     \* the 15m candles
    others,    \* the verdicts on the other timeframes
    analysis,  \* the verdict on the 15m candles
    signal     \* the signal

vars == <<chart, others, analysis, signal>>

-----------------------------------------------------------------------------
Weight == [tf \in {"4h", "1h", "15m", "5m"} |->
             CASE tf = "4h" -> 40 [] tf = "1h" -> 30 [] tf = "15m" -> 20 [] tf = "5m" -> 10]

GateTimeframes == {"4h", "1h", "15m"}

Side(direction) == IF direction = Bullish THEN "BUY" ELSE "SELL"

MultiTimeframeGate(analyses) ==
    LET major == analyses["4h"].direction
    IN  IF \/ ~GateTimeframes \subseteq DOMAIN analyses
           \/ major = Neutral
           \/ \E tf \in {"1h", "15m"} : analyses[tf].direction \notin {Neutral, major}
        THEN "WAIT" ELSE Side(major)

(* Within 0.5% of EMA20, when it and the RSI are numbers. *)
NearEma20(setup) ==
    /\ setup.trend.ema20 # NaN
    /\ setup.momentum.rsi # NoRsi
    /\ 200 * Abs(setup.price - setup.trend.ema20) <= setup.trend.ema20

(* Mutant: the trend is that of the 1h candles. *)
CheckPullback1h(analyses) ==
    LET setup == analyses["15m"]
        near == NearEma20(setup)
        trend == analyses["1h"].trend.direction
    IN  IF ~{"1h", "15m"} \subseteq DOMAIN analyses THEN "none"
        ELSE IF near /\ trend = Bullish /\ RsiBelow(setup.momentum.rsi, 40) THEN "BUY"
        ELSE IF near /\ trend = Bearish /\ RsiAbove(setup.momentum.rsi, 60) THEN "SELL"
        ELSE "none"

(* A setup against the momentum of the 15m candles, with the 4h trend. *)
CheckPullback(analyses) ==
    LET setup == analyses["15m"]
        near == NearEma20(setup)
        trend == analyses["4h"].trend.direction
    IN  IF ~{"4h", "15m"} \subseteq DOMAIN analyses THEN "none"
        ELSE IF near /\ trend = Bullish /\ RsiBelow(setup.momentum.rsi, 40) THEN "BUY"
        ELSE IF near /\ trend = Bearish /\ RsiAbove(setup.momentum.rsi, 60) THEN "SELL"
        ELSE "none"

OverTimeframes(f) == f["4h"] + f["1h"] + f["15m"] + f["5m"]

(* The weighted mean of the scores there are, in hundredths. *)
BlendedScore(analyses) ==
    LET weight == [tf \in DOMAIN Weight |-> IF tf \in DOMAIN analyses THEN Weight[tf] ELSE 0]
        points == [tf \in DOMAIN Weight |->
                     IF weight[tf] = 0 THEN 0 ELSE weight[tf] * analyses[tf].score]
        weights == OverTimeframes(weight)
    IN  (200 * OverTimeframes(points) + weights) \div (2 * weights)

-----------------------------------------------------------------------------
(* Risk: levels in half price units, 1.5, 3 and 4.5 ATR from the entry; a  *)
(* score in hundredths, from 0 at a reward of one risk to 10 at 2.5.       *)

(* Mutant: stops and targets on the same side for both directions. *)
LevelsUnsigned(side, price, atr) ==
    [entry |-> 2 * price, stop |-> 2 * price - 3 * atr,
     target1 |-> 2 * price + 6 * atr, target2 |-> 2 * price + 9 * atr]

LevelsOf(side, price, atr) ==
    LET up == IF atr <= 0 THEN 0 ELSE IF side = "BUY" THEN atr ELSE -atr
    IN  [entry |-> 2 * price, stop |-> 2 * price - 3 * up,
         target1 |-> 2 * price + 6 * up, target2 |-> 2 * price + 9 * up]

RiskRewardScore(levels) ==
    LET risk == Abs(levels.entry - levels.stop)
        reward == Abs(levels.target1 - levels.entry)
        rr == (100 * reward) \div risk
    IN  IF risk = 0 \/ rr < 100 THEN 0
        ELSE IF rr >= 250 THEN 1000
        ELSE (2000 * (rr - 100) + 150) \div 300

NoLevels == [entry |-> NaN, stop |-> NaN, target1 |-> NaN, target2 |-> NaN]

(* Mutant: no signal without the gate. *)
GenerateSignalGateOnly(analyses) ==
    LET side == MultiTimeframeGate(analyses)
        setup == analyses["15m"]
        levels == LevelsOf(side, setup.price, setup.volatility.atr)
    IN  IF side = "WAIT"
        THEN [direction |-> "WAIT", confidence |-> 0, levels |-> NoLevels]
        ELSE [direction |-> side,
              confidence |-> BlendedScore(analyses) + RiskRewardScore(levels),
              levels |-> levels]

GenerateSignal(analyses) ==
    LET gate == MultiTimeframeGate(analyses)
        side == IF gate # "WAIT" THEN gate ELSE CheckPullback(analyses)
        setup == analyses["15m"]
        levels == LevelsOf(side, setup.price, setup.volatility.atr)
    IN  IF side = "none"
        THEN [direction |-> "WAIT", confidence |-> 0, levels |-> NoLevels]
        ELSE [direction |-> side,
              confidence |-> BlendedScore(analyses) + RiskRewardScore(levels),
              levels |-> levels]

(* What GET /diagnostics/{symbol} shows: a row per timeframe, in which what *)
(* is not a number reads 0, and the three decisions side by side.          *)
NoRow == [direction |-> Neutral, score |-> 0, trend |-> Neutral, momentum |-> Neutral,
          structure |-> Neutral, rsi |-> NoRsi, level |-> "UNKNOWN", atr |-> NaN]

Row(a) == [direction |-> a.direction, score |-> a.score, trend |-> a.trend.direction,
           momentum |-> a.momentum.direction, structure |-> a.structure.direction,
           rsi |-> a.momentum.rsi, level |-> a.volatility.level, atr |-> a.volatility.atr]

Diagnostics(analyses) ==
    [rows |-> [tf \in DOMAIN Weight |->
                 IF tf \in DOMAIN analyses THEN Row(analyses[tf]) ELSE NoRow],
     gate |-> MultiTimeframeGate(analyses),
     pullback |-> CheckPullback(analyses),
     signal |-> GenerateSignal(analyses).direction]

(* The timeframes without candles have no verdict. *)
AnalysesOf(verdict) ==
    [tf \in DOMAIN others \cup {"15m"} |-> IF tf = "15m" THEN verdict ELSE others[tf]]

-----------------------------------------------------------------------------
Init ==
    /\ chart \in Starts
    /\ \E o \in Others : others = [tf \in DOMAIN o |-> Analyze(o[tf])]
    /\ analysis = Analyze(chart)
    /\ signal = GenerateSignal(AnalysesOf(analysis))

CloseCandle(candle) ==
    /\ Len(chart) < MaxCandles
    /\ chart' = Append(chart, candle)
    /\ analysis' = Analyze(chart')
    /\ signal' = GenerateSignal(AnalysesOf(analysis'))
    /\ UNCHANGED others

Next == \E candle \in Candles : CloseCandle(candle)

Spec == Init /\ [][Next]_vars

-----------------------------------------------------------------------------
(* Hundredths of a point of confidence. *)
MaxConfidence == 9667
Confidences == 0..MaxConfidence

(* The variables describe one another: a score stays in 0..90 and a        *)
(* confidence in 0..96.67 (the levels fix the reward at two risks, so that *)
(* the last 3.33 points are out of reach), a signal fires exactly when the *)
(* diagnostics page shows a gate or a pullback, and the two disagree only  *)
(* if the 4h verdict and the 4h trend do.                                  *)
SignalInv ==
    LET d == Diagnostics(AnalysesOf(analysis))
    IN  /\ chart \in Charts /\ DOMAIN others \subseteq {"4h", "1h", "5m"}
        /\ analysis.direction \in Directions /\ analysis.score \in 0..90
        /\ analysis.price \in Nat /\ analysis.volatility.atr \in Nat
        /\ signal.direction \in {"BUY", "SELL", "WAIT"} /\ signal.confidence \in Confidences
        /\ signal.direction = "WAIT" => signal.confidence = 0
        /\ d.signal = signal.direction
        /\ d.signal = "WAIT" <=> d.gate = "WAIT" /\ d.pullback = "none"
        /\ {d.gate, d.pullback} = {"BUY", "SELL"} => d.rows["4h"].direction = -d.rows["4h"].trend

(* A signal can be traded: a WAIT has no levels, and the entry, the stop   *)
(* and the targets of the others come in the order of their side, or       *)
(* coincide when there is no ATR.                                          *)
LevelsInOrder ==
    LET l == signal.levels
        entry == 2 * analysis.price
        atr == analysis.volatility.atr
    IN  /\ signal.direction = "WAIT" => l = NoLevels
        /\ signal.direction = "BUY" /\ atr > 0 =>
              l.stop < entry /\ l.entry = entry /\ entry < l.target1 /\ l.target1 < l.target2
        /\ signal.direction = "SELL" /\ atr > 0 =>
              l.stop > entry /\ l.entry = entry /\ entry > l.target1 /\ l.target1 > l.target2
        /\ signal.direction # "WAIT" /\ atr <= 0 =>
              {l.stop, l.entry, l.target1, l.target2} = {entry}

(* A new candle never changes what was computed for the candles before it: *)
(* averages, RSI, MACD and ATR keep their earlier values, and the only     *)
(* swing that can appear is at the candle that now has FRACTAL_HALF        *)
(* neighbours on its right.  A backtest that walks the history therefore   *)
(* sees what the live worker saw, as long as both began with the same      *)
(* candle: the live worker keeps 500, and each it drops moves the seeds.   *)
Keeps(f, g) == DOMAIN f \subseteq DOMAIN g /\ \A i \in DOMAIN f : f[i] = g[i]

NoRepaint ==
    [][LET was == Closes(chart)
           is == Closes(chart')
           confirmed == {Len(chart') - FractalHalf}
       IN  /\ \A length \in {EmaFast, EmaMiddle, EmaSlow} :
                  Keeps(Ema(was, length), Ema(is, length))
           /\ Keeps(Rsi(was), Rsi(is))
           /\ Keeps(MacdHistogram(was), MacdHistogram(is))
           /\ Keeps(Atr(Highs(chart), Lows(chart), was), Atr(Highs(chart'), Lows(chart'), is))
           /\ SwingHighs(Highs(chart')) \ confirmed = SwingHighs(Highs(chart))
           /\ SwingLows(Lows(chart')) \ confirmed = SwingLows(Lows(chart))]_vars

(* Bulls and bears are judged alike: turned upside down, a chart gives the *)
(* opposite directions and the same points, the nearest support becomes    *)
(* the nearest resistance, and the signal changes side.  The exception is  *)
(* a flat EMA20, whose three points only a downtrend gets (the slope is    *)
(* "down" when it is not up).  Thresholds relative to the price can tell   *)
(* the two charts apart; then nothing is claimed.                          *)
Mirrored(c) == [i \in DOMAIN c |-> [high |-> Pivot - c[i].low, low |-> Pivot - c[i].high,
                                    close |-> Pivot - c[i].close]]

MirroredVerdict(a) == [a EXCEPT !.direction = -@, !.trend.direction = -@]

MirroredLevel(l) == IF l = NoLevel THEN NoLevel ELSE [l EXCEPT !.level = Pivot - @]

MirroredSide(side) == CASE side = "BUY" -> "SELL" [] side = "SELL" -> "BUY" [] OTHER -> side

FlatBonus ==
    LET e == Ema(Closes(chart), EmaFast)
    IN  IF analysis.trend.score > 0 /\ e[Len(chart)] = e[Len(chart) - 2]
        THEN 3 * analysis.trend.direction ELSE 0

Opposite(a, m) ==
    LET opposed == [tf \in DOMAIN others \cup {"15m"} |->
                      IF tf = "15m" THEN m ELSE MirroredVerdict(others[tf])]
        comparable == /\ m.trend.ranging = a.trend.ranging
                      /\ m.volatility.level = a.volatility.level
                      /\ NearEma20(m) = NearEma20(a)
    IN  comparable =>
            /\ m.direction = -a.direction
            /\ m.trend.direction = -a.trend.direction
            /\ m.momentum.direction = -a.momentum.direction
            /\ m.structure = [a.structure EXCEPT !.direction = -@]
            /\ m.sr = [score |-> a.sr.score, support |-> MirroredLevel(a.sr.resistance),
                       resistance |-> MirroredLevel(a.sr.support)]
            /\ m.score = a.score + FlatBonus
            /\ GenerateSignal(opposed).direction = MirroredSide(signal.direction)

MirrorImage == Opposite(analysis, Analyze(Mirrored(chart)))

(* The zones are the connected components of "within half an ATR" on the   *)
(* swings, from the lowest to the highest, so that every swing is a touch  *)
(* of exactly one of them.                                                 *)
AreComponents(zs, swings, v, atr) ==
    /\ UNION {zs[k] : k \in DOMAIN zs} = swings /\ \A k \in DOMAIN zs : zs[k] # {}
    /\ \A k, m \in DOMAIN zs : k < m =>
          \A i \in zs[k], j \in zs[m] : 2 * (v[j] - v[i]) > atr
    /\ \A k \in DOMAIN zs : \A i, j \in zs[k] : v[i] < v[j] =>
          \E h \in zs[k] : v[h] > v[i] /\ 2 * (v[h] - v[i]) <= atr

ZonesAreComponents ==
    LET atr == analysis.volatility.atr
    IN  /\ AreComponents(Zones(SwingHighs(Highs(chart)), Highs(chart), atr),
                         SwingHighs(Highs(chart)), Highs(chart), atr)
        /\ AreComponents(Zones(SwingLows(Lows(chart)), Lows(chart), atr),
                         SwingLows(Lows(chart)), Lows(chart), atr)

(* While the verdicts on the other timeframes stand, a 15m candle turns a  *)
(* BUY into a SELL, or back, only if the 4h candles are split: their       *)
(* verdict and their trend are opposite.  The gate follows the verdict and *)
(* the pullback the trend.                                                 *)
FlipNeedsSplit ==
    [][{signal.direction, signal'.direction} = {"BUY", "SELL"} =>
          others["4h"].direction = -others["4h"].trend.direction]_vars
=============================================================================
