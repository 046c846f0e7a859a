--------------------------- MODULE VisibleCandles ---------------------------
(***************************************************************************)
(* What a backtest may know at an instant: visible_candles cuts a sorted   *)
(* list of candles with a binary search over their opening times.  A       *)
(* candle is known when it has closed.                                     *)
(***************************************************************************)
EXTENDS Integers, Sequences

CONSTANTS
    Durations,   \* the durations of the timeframes
    Times,       \* bound of the model: instants of candles and decisions
    MaxCandles   \* bound of the model: length of a list

ASSUME VisibleAssumption ==
    /\ Durations \subseteq Nat \ {0}
    /\ Times \subseteq Nat
    /\ MaxCandles \in Nat

VARIABLES
    candles,   \* the opening times, ascending
    duration,  \* of the timeframe
    at,        \* the instant of the decision
    lo, hi     \* the search interval

input == <<candles, duration, at>>
visibleVars == <<input, lo, hi>>

-----------------------------------------------------------------------------
Ascending(s) == \A i, j \in 1..Len(s) : i < j => s[i] < s[j]

(* list_candles_range returns distinct timestamps in ascending order. *)
Inputs == {s \in UNION {[1..n -> Times] : n \in 0..MaxCandles} : Ascending(s)}

Threshold == at - duration

Mid == (lo + hi) \div 2

(* Mutant: bisect_left, which hides the candle that closes just now. *)
BeforeStrictly(k) == candles[k + 1] < Threshold

(* Python's candles[k] is the element k + 1 of the sequence. *)
Before(k) == candles[k + 1] <= Threshold

Init ==
    /\ candles \in Inputs
    /\ duration \in Durations
    /\ at \in Times
    /\ lo = 0
    /\ hi = Len(candles)

(* Mutant: keeps the candle it has just judged. *)
RightStays ==
    /\ lo < hi
    /\ Before(Mid)
    /\ lo' = Mid
    /\ UNCHANGED <<input, hi>>

Right ==
    /\ lo < hi
    /\ Before(Mid)
    /\ lo' = Mid + 1
    /\ UNCHANGED <<input, hi>>

(* Mutant: gives away one candle too many. *)
LeftLess ==
    /\ lo < hi
    /\ ~Before(Mid)
    /\ hi' = IF Mid > lo THEN Mid - 1 ELSE Mid
    /\ UNCHANGED <<input, lo>>

Left ==
    /\ lo < hi
    /\ ~Before(Mid)
    /\ hi' = Mid
    /\ UNCHANGED <<input, lo>>

Next == Right \/ Left

Spec == Init /\ [][Next]_visibleVars

FairSpec == Spec /\ WF_visibleVars(Next)

Visible == SubSeq(candles, 1, lo)

-----------------------------------------------------------------------------
(* The search interval stays inside the list. *)
TypeOK ==
    /\ candles \in Inputs
    /\ duration \in Durations
    /\ at \in Times
    /\ lo \in 0..Len(candles)
    /\ hi \in lo..Len(candles)

(* Everything left of the interval has closed, nothing from its end on. *)
Partition ==
    /\ \A k \in 1..lo : candles[k] + duration <= at
    /\ \A k \in (hi + 1)..Len(candles) : candles[k] + duration > at

VisibleInv == TypeOK /\ Partition

(* No look-ahead, and nothing withheld: when the search ends, the returned *)
(* prefix holds exactly the candles that have closed at the instant,       *)
(* including the one that closes just then.                                *)
ExactlyTheClosed ==
    lo = hi => \A k \in 1..Len(candles) :
                   k \in DOMAIN Visible <=> candles[k] + duration <= at

(* The search ends. *)
SearchEnds == <>(lo = hi)
=============================================================================
