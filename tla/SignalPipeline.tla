--------------------------- MODULE SignalPipeline ---------------------------
(***************************************************************************)
(* The live loop of one symbol: the candle feed composed with the signal   *)
(* worker.  The worker listens on candles:{symbol}:15m, loads the newest   *)
(* rows of each timeframe, stores a signal and publishes it on             *)
(* signals:{symbol}.  The poller and the signal worker are tasks of one    *)
(* process: they crash and restart together.                               *)
(*                                                                         *)
(* Redis pub/sub delivers to the current subscribers only; a message says  *)
(* "analyse now", its content is not read, so the messages waiting for the *)
(* worker are a number.                                                    *)
(***************************************************************************)
EXTENDS CandleFeed

CONSTANTS
    Trigger,     \* the timeframe whose channel the worker subscribes to
    LoadOrder,   \* the timeframes a handler loads, in order
    Required,    \* the timeframes without which it gives up
    MinHistory,  \* the candles it needs of each of them
    History      \* the candles it loads at most

ASSUME PipelineAssumption ==
    /\ Trigger \in Timeframes
    /\ LoadOrder \in Seq(Timeframes)
    /\ \E i \in 1..Len(LoadOrder) : LoadOrder[i] = Trigger
    /\ Required \subseteq Timeframes
    /\ Required # {}
    /\ MinHistory \in Nat \ {0}
    /\ History \in Nat \ {0}

VARIABLES
    worker,   \* the signal worker's control state
    loaded,   \* loaded[tf]: the candles its last query returned
    waiting,  \* messages its subscription holds
    connected,\* its subscription is in force
    missed,   \* the last event it took ended in an exception, or it has
              \* subscribed again since
    signals,  \* rows of the signals table
    pushed    \* signals published on signals:{symbol}

workerVars == <<worker, loaded, waiting, connected, missed, signals, pushed>>
vars == <<feedVars, workerVars>>

-----------------------------------------------------------------------------
(* Mutant: what is published during an analysis is not received. *)
SubscribedLate == worker.pc = "listen"

Subscribed == worker.pc \notin {"down", "subscribe"}

(* What a published trigger candle does to the worker's subscription. *)
Deliver ==
    waiting' = IF Subscribed /\ connected /\ feed'[Trigger] # feed[Trigger]
               THEN waiting + 1 ELSE waiting

FeedStep ==
    /\ ExchangeStep \/ PollerStep \/ \E c \in Clients : RestStep(c)
    /\ Deliver
    /\ UNCHANGED <<worker, loaded, missed, signals, pushed, connected>>

-----------------------------------------------------------------------------
(* The signal worker.                                                      *)

WorkerAt(pc) == [pc |-> pc, at |-> 1]

(* Mutant: takes the first row of an ascending list for the last. *)
NewestFirst(S) == IF S = {} THEN 0 ELSE CHOOSE k \in S : \A j \in S : j >= k

(* The newest candle of each loaded timeframe: what a signal stands on. *)
Newest(S) == IF S = {} THEN 0 ELSE CHOOSE k \in S : \A j \in S : j <= k

Basis == [tf \in Timeframes |-> Newest(loaded[tf])]

(* Mutant: off by one. *)
EnoughHistoryLess(rows) == \A tf \in Required : Cardinality(rows[tf]) >= MinHistory - 1

EnoughHistory(rows) == \A tf \in Required : Cardinality(rows[tf]) >= MinHistory

(* Subscribe, then run the handler once without waiting for a message. *)
WorkerSubscribe ==
    /\ worker.pc = "subscribe"
    /\ worker' = WorkerAt("load")
    /\ UNCHANGED <<feedVars, loaded, waiting, missed, signals, pushed, connected>>

(* Mutant: takes the message and listens on. *)
WorkerIgnore ==
    /\ worker.pc = "listen"
    /\ waiting > 0
    /\ waiting' = waiting - 1
    /\ UNCHANGED <<feedVars, worker, loaded, missed, signals, pushed, connected>>

WorkerReceive ==
    /\ worker.pc = "listen"
    /\ waiting > 0
    /\ waiting' = waiting - 1
    /\ worker' = WorkerAt("load")
    /\ UNCHANGED <<feedVars, loaded, missed, signals, pushed, connected>>

(* Mutant: judges the history before the last query. *)
WorkerLoadEarly ==
    /\ worker.pc = "load"
    /\ LET tf == LoadOrder[worker.at]
           rows == [loaded EXCEPT ![tf] = ListCandles(tf, History)]
           last == worker.at = Len(LoadOrder)
       IN  /\ loaded' = rows
           /\ worker' = IF ~last THEN [worker EXCEPT !.at = @ + 1]
                        ELSE IF EnoughHistory(loaded) THEN WorkerAt("persist")
                        ELSE WorkerAt("listen")
           /\ missed' = (missed /\ ~(last /\ ~EnoughHistory(loaded)))
    /\ UNCHANGED <<feedVars, waiting, signals, pushed, connected>>

(* One query of _load_recent_candles; after the last one the handler       *)
(* returns unless every required timeframe has enough history.             *)
WorkerLoad ==
    /\ worker.pc = "load"
    /\ LET tf == LoadOrder[worker.at]
           rows == [loaded EXCEPT ![tf] = ListCandles(tf, History)]
           last == worker.at = Len(LoadOrder)
       IN  /\ loaded' = rows
           /\ worker' = IF ~last THEN [worker EXCEPT !.at = @ + 1]
                        ELSE IF EnoughHistory(rows) THEN WorkerAt("persist")
                        ELSE WorkerAt("listen")
           /\ missed' = (missed /\ ~(last /\ ~EnoughHistory(rows)))
    /\ UNCHANGED <<feedVars, waiting, signals, pushed, connected>>

(* Mutant: the insert is not committed. *)
WorkerPersistNoCommit ==
    /\ worker.pc = "persist"
    /\ worker' = WorkerAt("push")
    /\ UNCHANGED <<feedVars, loaded, waiting, missed, signals, pushed, connected>>

(* Insert the signal, unless the symbol is unknown; either way go on. *)
WorkerPersist ==
    /\ worker.pc = "persist"
    /\ signals' = IF symbolRow THEN signals \cup {Basis} ELSE signals
    /\ worker' = WorkerAt("push")
    /\ UNCHANGED <<feedVars, loaded, waiting, missed, pushed, connected>>

WorkerPush ==
    /\ worker.pc = "push"
    /\ pushed' = pushed \cup {Basis}
    /\ missed' = FALSE
    /\ worker' = WorkerAt("listen")
    /\ UNCHANGED <<feedVars, loaded, waiting, signals, connected>>

(* The handler raises: the event is dropped, the worker listens on. *)
WorkerFails ==
    /\ Faults
    /\ worker.pc \in {"load", "persist", "push"}
    /\ worker' = WorkerAt("listen")
    /\ missed' = TRUE
    /\ UNCHANGED <<feedVars, loaded, waiting, signals, pushed, connected>>

(* The connection to Redis breaks, with the messages on it. *)
ConnectionBreaks ==
    /\ Faults
    /\ Subscribed /\ connected
    /\ connected' = FALSE
    /\ waiting' = 0
    /\ UNCHANGED <<feedVars, worker, loaded, missed, signals, pushed>>

(* The next get_message() connects and subscribes again; no analysis       *)
(* follows before the next message.  (Where it raises instead, the task    *)
(* ends and the process with it: Crash.)                                   *)
Resubscribe ==
    /\ worker.pc = "listen" /\ ~connected
    /\ connected' = TRUE
    /\ missed' = TRUE
    /\ UNCHANGED <<feedVars, worker, loaded, waiting, signals, pushed>>

WorkerStep ==
    \/ WorkerSubscribe
    \/ WorkerReceive
    \/ Resubscribe
    \/ WorkerLoad
    \/ WorkerPersist
    \/ WorkerPush

-----------------------------------------------------------------------------
(* The process dies, and with it the subscription; both tasks start again. *)
Crash ==
    /\ PollerCrash
    /\ worker' = WorkerAt("down")
    /\ waiting' = 0
    /\ connected' = TRUE
    /\ UNCHANGED <<loaded, missed, signals, pushed>>

Restart ==
    /\ PollerRestart
    /\ worker' = WorkerAt("subscribe")
    /\ UNCHANGED <<loaded, waiting, missed, signals, pushed, connected>>

PipelineInit ==
    /\ Init
    /\ worker = WorkerAt("subscribe")
    /\ loaded = [tf \in Timeframes |-> {}]
    /\ waiting = 0
    /\ connected = TRUE
    /\ missed = FALSE
    /\ signals = {}
    /\ pushed = {}

PipelineNext ==
    \/ FeedStep
    \/ WorkerStep
    \/ WorkerFails
    \/ ConnectionBreaks
    \/ Crash
    \/ Restart

PipelineSpec == PipelineInit /\ [][PipelineNext]_vars

FairPipelineSpec == PipelineSpec /\ Fairness /\ WF_vars(WorkerStep)

-----------------------------------------------------------------------------
WorkerStates ==
    [pc : {"down", "subscribe", "listen", "load", "persist", "push"},
     at : 1..Len(LoadOrder)]

(* Every variable of the worker stays in the set its declaration describes. *)
PipelineTypeOK ==
    /\ TypeOK
    /\ worker \in WorkerStates
    /\ loaded \in [Timeframes -> SUBSET Nat]
    /\ waiting \in Nat
    /\ connected \in BOOLEAN
    /\ missed \in BOOLEAN
    /\ signals \subseteq [Timeframes -> Nat]
    /\ pushed \subseteq [Timeframes -> Nat]

(* No announced candle is lost between the poller and the signal worker:   *)
(* a worker that has nothing left to do, whose subscription stands, and    *)
(* whose last event did not end in an exception, has analysed the last     *)
(* announced trigger candle or a newer one, even if the candle was         *)
(* announced before the worker subscribed, during an analysis, around a    *)
(* crash, or while a broken connection was repaired, as soon as one        *)
(* analysis has followed.                                                  *)
Covered ==
    worker.pc = "listen" /\ connected /\ waiting = 0 /\ ~missed =>
        \A i \in 1..Len(feed[Trigger]) :
            \E k \in loaded[Trigger] : k >= feed[Trigger][i]

(* A worker whose last event did not end in an exception has published the *)
(* signal of that analysis, if it had enough history.                      *)
CoveredBySignal ==
    worker.pc = "listen" /\ ~missed /\ EnoughHistory(loaded) => Basis \in pushed

(* A signal on signals:{symbol} is in the signals table: whoever reacts to *)
(* the push finds it through the REST API.  The branch of the handler that *)
(* cannot persist is never taken.                                          *)
PushedArePersisted == pushed \subseteq signals

(* The trigger candles that the analysis under way, or the last one if it  *)
(* did not fail, has read.                                                 *)
TriggerRead ==
    \/ worker.pc \in {"persist", "push"}
    \/ worker.pc = "listen" /\ ~missed
    \/ worker.pc = "load" /\ \E i \in 1..(worker.at - 1) : LoadOrder[i] = Trigger

(* The strengthening of Covered, CoveredBySignal and PushedArePersisted    *)
(* that every step preserves.                                              *)
PipelineInv ==
    /\ PipelineTypeOK
    /\ RowsHaveSymbol
    /\ connected /\ waiting = 0 /\ TriggerRead =>
          \A i \in 1..Len(feed[Trigger]) :
              \E k \in loaded[Trigger] : k >= feed[Trigger][i]
    /\ \A tf \in Timeframes : loaded[tf] \subseteq stored[tf]
    /\ worker.pc \in {"persist", "push"} => EnoughHistory(loaded)
    /\ worker.pc = "push" => Basis \in signals
    /\ CoveredBySignal
    /\ PushedArePersisted

(* The timeframes that the analysis under way has read. *)
Reread(tf) ==
    \/ worker.pc \in {"persist", "push"}
    \/ worker.pc = "load" /\ \E i \in 1..(worker.at - 1) : LoadOrder[i] = tf

(* Signals never go back in time: what is about to be pushed stands on     *)
(* candles that are at least as new, in every timeframe, as those of every *)
(* signal pushed before, although the timeframes are read one by one while *)
(* the poller and backfills write, and analyses fail half-way.             *)
PushedInOrder ==
    worker.pc = "push" =>
        \A s \in pushed, tf \in Timeframes : s[tf] <= Basis[tf]

(* The strengthening of PushedInOrder that every step preserves: what was  *)
(* pushed stands on stored candles of the loaded timeframes, and each of   *)
(* them that the analysis has read again is at least as new.               *)
LoadedTf(tf) == \E i \in 1..Len(LoadOrder) : LoadOrder[i] = tf

OrderInv ==
    \A tf \in Timeframes :
        /\ loaded[tf] # {} => LoadedTf(tf)
        /\ \A s \in pushed : s[tf] # 0 =>
              /\ LoadedTf(tf)
              /\ s[tf] \in stored[tf]
              /\ Reread(tf) => \E k \in loaded[tf] : k >= s[tf]

(* When nothing fails and nobody backfills, the close of a trigger candle  *)
(* leads to an analysis of it, or of a newer one.                          *)
CloseIsAnalysed ==
    \A k \in 1..MaxBars :
        (closed[Trigger] >= k) ~> (\E j \in loaded[Trigger] : j >= k)
=============================================================================
