----------------------------- MODULE Indicators -----------------------------
(***************************************************************************)
(* The technical indicators.  A series is a function whose domain is the   *)
(* interval of positions where the code's list has a number: its leading   *)
(* NaNs are the positions left out.  Prices are integers; a model chooses  *)
(* their unit so that the divisions below are exact for its bounds, which  *)
(* makes the arithmetic that of the reals (floating-point rounding is      *)
(* left out).                                                              *)
(***************************************************************************)
EXTENDS Integers, Sequences

CONSTANTS
    RsiLength,   \* periods of the RSI (14)
    AtrLength,   \* periods of the ATR (14)
    MacdFast,    \* periods of the MACD's fast EMA (12),
    MacdSlow,    \* of its slow EMA (26)
    MacdSignal   \* and of its signal line (9)

ASSUME IndicatorsAssumption ==
    /\ {RsiLength, AtrLength, MacdFast, MacdSlow, MacdSignal} \subseteq Nat \ {0}
    /\ MacdFast < MacdSlow

Larger(a, b) == IF a >= b THEN a ELSE b

Smaller(a, b) == IF a <= b THEN a ELSE b

Abs(a) == Larger(a, -a)

(* x is less than bp hundredths of a percent of y. *)
BelowBp(x, bp, y) == x <= (bp * y - 1) \div 10000

(* f[lo] + ... + f[hi] *)
SumOver(f, lo, hi) ==
    LET s[i \in (lo - 1)..hi] == IF i < lo THEN 0 ELSE s[i - 1] + f[i]
    IN  s[hi]

-----------------------------------------------------------------------------
Closes(chart) == [i \in 1..Len(chart) |-> chart[i].close]
Highs(chart) == [i \in 1..Len(chart) |-> chart[i].high]
Lows(chart) == [i \in 1..Len(chart) |-> chart[i].low]

-----------------------------------------------------------------------------
(* The moving averages of f over lo..hi: the mean of the first "length"    *)
(* values, then a weighted mean of each value and the last average.        *)

NextEma(length, prev, value) == (2 * value + (length - 1) * prev) \div (length + 1)

(* Mutant of EmaOver: the seed is the mean of all values, later ones too.  *)
EmaOverSeedAll(f, lo, hi, length) ==
    LET first == lo + length - 1
        e[i \in first..hi] ==
            IF i = first THEN SumOver(f, lo, hi) \div (hi - lo + 1)
            ELSE NextEma(length, e[i - 1], f[i])
    IN  e

EmaOver(f, lo, hi, length) ==
    LET first == lo + length - 1
        e[i \in first..hi] ==
            IF i = first THEN SumOver(f, lo, first) \div length
            ELSE NextEma(length, e[i - 1], f[i])
    IN  e

Ema(values, length) == EmaOver(values, 1, Len(values), length)

(* Wilder's smoothing, of the RSI and the ATR. *)
WilderOver(f, lo, hi, length) ==
    LET first == lo + length - 1
        w[i \in first..hi] ==
            IF i = first THEN SumOver(f, lo, first) \div length
            ELSE (w[i - 1] * (length - 1) + f[i]) \div length
    IN  w

-----------------------------------------------------------------------------
(* RSI is 100 * gain / (gain + loss), kept as that fraction of 100; a flat *)
(* market is 50 by convention.                                             *)
RsiFrom(gain, loss) ==
    IF gain = 0 /\ loss = 0 THEN [num |-> 1, den |-> 2]
    ELSE [num |-> gain, den |-> gain + loss]

Rsi(values) ==
    LET n == Len(values)
        change == [i \in 2..n |-> values[i] - values[i - 1]]
        gain == WilderOver([i \in 2..n |-> Larger(change[i], 0)], 2, n, RsiLength)
        loss == WilderOver([i \in 2..n |-> Larger(-change[i], 0)], 2, n, RsiLength)
    IN  [i \in (RsiLength + 1)..n |-> RsiFrom(gain[i], loss[i])]

RsiAbove(rsi, x) == 100 * rsi.num > x * rsi.den
RsiBelow(rsi, x) == 100 * rsi.num < x * rsi.den

(* The MACD line, and its histogram over the signal line, which is seeded  *)
(* from the part of the line that is not NaN.                              *)
MacdLine(values) ==
    LET fast == Ema(values, MacdFast)
        slow == Ema(values, MacdSlow)
    IN  [i \in MacdSlow..Len(values) |-> fast[i] - slow[i]]

MacdHistogram(values) ==
    LET line == MacdLine(values)
        signal == EmaOver(line, MacdSlow, Len(values), MacdSignal)
    IN  [i \in (MacdSlow + MacdSignal - 1)..Len(values) |-> line[i] - signal[i]]

TrueRange(high, low, close, i) ==
    Larger(high[i] - low[i],
           Larger(Abs(high[i] - close[i - 1]), Abs(low[i] - close[i - 1])))

Atr(high, low, close) ==
    LET n == Len(close)
    IN  WilderOver([i \in 2..n |-> TrueRange(high, low, close, i)], 2, n, AtrLength)
=============================================================================
