------------------------------ MODULE FeedLog ------------------------------
(***************************************************************************)
(* What the rest of the system relies on, of market_data and of the candle *)
(* channels of a symbol, without the tasks that write them: an append-only *)
(* set of rows of closed candles, and a log of announcements per timeframe *)
(* that only names rows, each newer than the ones before it.  It is not    *)
(* promised that every row is announced, nor that there is no gap.         *)
(***************************************************************************)
EXTENDS Integers, Sequences

CONSTANT Timeframes

VARIABLES
    available,  \* available[tf]: candles that have closed
    rows,       \* rows[tf]: candles that list_candles can return
    channel     \* channel[tf]: candles announced on candles:{symbol}:{tf}

logVars == <<available, rows, channel>>

(* Candles of some timeframes close together. *)
Close ==
    /\ \E S \in SUBSET Timeframes :
          available' = [tf \in Timeframes |-> available[tf] + IF tf \in S THEN 1 ELSE 0]
    /\ UNCHANGED <<rows, channel>>

(* A writer commits rows of one timeframe; none is ever removed.           *)
Store(tf) ==
    /\ \E S \in SUBSET (1..available[tf]) : rows' = [rows EXCEPT ![tf] = @ \cup S]
    /\ UNCHANGED <<available, channel>>

(* A row is announced, if it is newer than all announced before. *)
Announce(tf) ==
    /\ \E k \in rows[tf] :
          /\ \A i \in 1..Len(channel[tf]) : channel[tf][i] < k
          /\ channel' = [channel EXCEPT ![tf] = Append(@, k)]
    /\ UNCHANGED <<available, rows>>

LogInit ==
    /\ available = [tf \in Timeframes |-> 0]
    /\ rows = [tf \in Timeframes |-> {}]
    /\ channel = [tf \in Timeframes |-> <<>>]

LogNext == Close \/ \E tf \in Timeframes : Store(tf) \/ Announce(tf)

LogSpec == LogInit /\ [][LogNext]_logVars
=============================================================================
