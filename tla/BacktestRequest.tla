--------------------------- MODULE BacktestRequest ---------------------------
(***************************************************************************)
(* POST /backtest: load the candles, walk them (module Backtest) in a      *)
(* thread, store the run, answer; and the GETs that serve stored runs.     *)
(* What a client sees of a run is what its summary and detail relate.      *)
(***************************************************************************)
EXTENDS Backtest

CONSTANTS
    RequiredTfs,  \* REQUIRED_TFS, in the order they are loaded
    Primary,      \* PRIMARY_TF, whose history must not be short
    Faults        \* whether the database may fail

ASSUME RequestAssumption ==
    /\ RequiredTfs \in Seq(STRING)
    /\ \E i \in 1..Len(RequiredTfs) : RequiredTfs[i] = Primary
    /\ Faults \in BOOLEAN

VARIABLES
    handler,  \* "load", "walk", "insert", "refresh" or "answered"
    found,    \* the timeframes loaded so far: "none", "short" or "enough"
    status,   \* the HTTP status, 0 before the answer
    runs      \* the rows of backtest_runs

requestVars == <<handler, found, status, runs>>
allVars == <<vars, requestVars>>

-----------------------------------------------------------------------------
(* The rows, and the requests that read them. *)
Row == [tradeCount |-> Len(trades), initialEquity |-> InitialEquity,
        finalEquity |-> equity, stats |-> stats, trades |-> trades, curve |-> curve]

Summary(id) ==
    LET row == runs[id]
    IN  [id |-> id, tradeCount |-> row.tradeCount, initialEquity |-> row.initialEquity,
         finalEquity |-> row.finalEquity, profitFactor |-> row.stats.profitFactor]

NotFound == [id |-> 0]

GetBacktest(id) == IF id \in 1..Len(runs) THEN Summary(id) ELSE NotFound

(* The newest first. *)
ListBacktests(limit) ==
    [k \in 1..(IF limit < Len(runs) THEN limit ELSE Len(runs)) |-> Summary(Len(runs) + 1 - k)]

-----------------------------------------------------------------------------
RequestInit ==
    /\ Init
    /\ handler = "load"
    /\ found = <<>>
    /\ status = 0
    /\ runs = <<>>

Answer(code) == handler' = "answered" /\ status' = code

(* One query of load_candles.  After the last one a timeframe without      *)
(* candles is refused, and so is a short primary one; how many candles the *)
(* others have makes no difference.                                        *)
LoadTimeframe(size) ==
    /\ handler = "load"
    /\ size = "short" => RequiredTfs[Len(found) + 1] = Primary
    /\ found' = Append(found, size)
    /\ IF Len(found') < Len(RequiredTfs) THEN UNCHANGED <<handler, status>>
       ELSE IF \E i \in 1..Len(RequiredTfs) : found'[i] # "enough"
       THEN Answer(400)
       ELSE handler' = "walk" /\ status' = status
    /\ UNCHANGED <<vars, runs>>

(* run_backtest, in its thread. *)
Walk ==
    /\ handler = "walk"
    /\ Next
    /\ handler' = IF pc' = "done" THEN "insert" ELSE "walk"
    /\ UNCHANGED <<found, status, runs>>

(* Insert and commit; the JSON column takes no infinity. *)
Insert ==
    /\ handler = "insert"
    /\ stats.profitFactor # "inf"
    /\ runs' = Append(runs, Row)
    /\ handler' = "refresh"
    /\ UNCHANGED <<vars, found, status>>

(* Mutant: the failure is caught and the request answered as usual. *)
InsertFailsSilently ==
    /\ handler = "insert"
    /\ Faults \/ stats.profitFactor = "inf"
    /\ Answer(200)
    /\ UNCHANGED <<vars, found, runs>>

InsertFails ==
    /\ handler = "insert"
    /\ Faults \/ stats.profitFactor = "inf"
    /\ Answer(500)
    /\ UNCHANGED <<vars, found, runs>>

Refresh ==
    /\ handler = "refresh"
    /\ Answer(200)
    /\ UNCHANGED <<vars, found, runs>>

(* A query or the refresh of the committed row raises. *)
DatabaseFails ==
    /\ Faults
    /\ handler \in {"load", "refresh"}
    /\ Answer(500)
    /\ UNCHANGED <<vars, found, runs>>

RequestNext ==
    \/ \E size \in {"none", "short", "enough"} : LoadTimeframe(size)
    \/ Walk
    \/ Insert
    \/ InsertFails
    \/ Refresh
    \/ DatabaseFails

RequestSpec == RequestInit /\ [][RequestNext]_allVars

-----------------------------------------------------------------------------
(* What the client is told is what the table holds: a run that was         *)
(* answered is stored; a run that is stored, even when a refresh that      *)
(* raised made a 500 of its answer, is whole: served by its id and listed, *)
(* with a summary that agrees with its trades and its curve.  A refused    *)
(* request, or one whose insert failed, leaves nothing and has walked all  *)
(* of its candles or none.                                                 *)
RequestInv ==
    /\ handler \in {"load", "walk", "insert", "refresh", "answered"}
    /\ status \in {0, 200, 400, 500} /\ (status # 0) = (handler = "answered")
    /\ Len(runs) <= 1
    /\ pc \in {"bar", "decide", "report"} /\ bar + Len(curve) > 0 => handler = "walk"
    /\ status = 200 => runs # <<>>
    /\ runs # <<>> =>
          /\ ListBacktests(1) = <<GetBacktest(1)>>
          /\ GetBacktest(1).tradeCount = stats.total
          /\ GetBacktest(1).finalEquity = InitialEquity + stats.netProfit
          /\ GetBacktest(1).finalEquity =
                IF runs[1].trades = <<>> THEN InitialEquity
                ELSE runs[1].trades[Len(runs[1].trades)].equityAfter
          /\ GetBacktest(1).finalEquity = runs[1].curve[Len(runs[1].curve)].equity
    /\ status = 400 \/ handler \in {"load", "walk", "insert"} => runs = <<>>
    /\ status = 400 => bar = 0
=============================================================================
