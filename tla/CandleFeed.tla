----------------------------- MODULE CandleFeed -----------------------------
(***************************************************************************)
(* How closed candles of one symbol reach Postgres and Redis.              *)
(*                                                                         *)
(*   exchange (OANDA)  --fetch-->  candle poller  --upsert--> market_data  *)
(*                                      |                        ^         *)
(*                                      +--publish--> candles:{symbol}:{tf}*)
(*                     --fetch-->  GET /candles (backfill) ------+         *)
(*                                                                         *)
(* The poller runs in the worker process, the REST handlers in the API     *)
(* process; they share only the database.  A step of a model actor is the  *)
(* code between two awaits.  The k-th candle of a timeframe since the      *)
(* beginning of the model is the number k: prices play no part here.       *)
(***************************************************************************)
EXTENDS Integers, Sequences, FiniteSets

CONSTANTS
    Timeframes,  \* the timeframes of the instrument
    PollOrder,   \* the order in which a poll round visits them
    Span,        \* Span[tf]: duration of a candle, in base periods
    FetchCount,  \* candles asked for by one poll of one timeframe
    Clients,     \* concurrent GET /candles requests
    Limits,      \* the "limit" values those requests use
    Faults,      \* whether fetches, the database and Redis may fail, and
                 \* the worker process may crash
    MaxBars      \* bound of the model: base periods the exchange completes

ASSUME FeedAssumption ==
    /\ PollOrder \in Seq(Timeframes)
    /\ Len(PollOrder) > 0
    /\ Span \in [Timeframes -> Nat \ {0}]
    /\ FetchCount \in Nat \ {0}
    /\ Limits \subseteq Nat \ {0}
    /\ Faults \in BOOLEAN
    /\ MaxBars \in Nat

VARIABLES
    closed,     \* closed[tf]: candles the exchange has completed
    age,        \* age[tf]: base periods of the candle in flight that are over
    ticking,    \* a price arrived in the current base period
    bars,       \* base periods completed (only counts up to MaxBars)
    symbolRow,  \* the symbols table has the row of this symbol
    stored,     \* stored[tf]: rows of market_data
    feed,       \* feed[tf]: messages published on candles:{symbol}:{tf}
    poller,     \* the poller's control state and locals
    rest        \* rest[c]: the same for each request

exchange == <<closed, age, ticking, bars>>
database == <<symbolRow, stored>>
feedVars == <<closed, age, ticking, bars, symbolRow, stored, feed, poller, rest>>

-----------------------------------------------------------------------------
(* The exchange.  A candle is listed from its first price on, and is       *)
(* "complete" when its period is over; a period without a price has no     *)
(* candle.                                                                 *)

InFlight(tf) == ticking \/ age[tf] > 0

Listed(tf) == closed[tf] + IF InFlight(tf) THEN 1 ELSE 0

Tick ==
    /\ bars < MaxBars
    /\ ~ticking
    /\ ticking' = TRUE
    /\ UNCHANGED <<closed, age, bars>>

EndOfPeriod ==
    /\ ticking
    /\ ticking' = FALSE
    /\ bars' = bars + 1
    /\ age' = [tf \in Timeframes |-> IF age[tf] + 1 = Span[tf] THEN 0 ELSE age[tf] + 1]
    /\ closed' = [tf \in Timeframes |->
                    IF age[tf] + 1 = Span[tf] THEN closed[tf] + 1 ELSE closed[tf]]

(* Mutants of Fetched: keeps the candle in flight; counts from the first   *)
(* candle instead of the last.                                             *)
FetchedInFlight(tf, count) ==
    [lo |-> IF Listed(tf) > count THEN Listed(tf) - count + 1 ELSE 1, hi |-> Listed(tf)]

FetchedOldest(tf, count) ==
    [lo |-> 1, hi |-> IF closed[tf] < count THEN closed[tf] ELSE count - 1]

(* fetch_candles(count): the last "count" listed candles less the one in   *)
(* flight, an ascending run lo..hi, empty when lo > hi.                    *)
Fetched(tf, count) ==
    [lo |-> IF Listed(tf) > count THEN Listed(tf) - count + 1 ELSE 1, hi |-> closed[tf]]

NoCandles == [lo |-> 1, hi |-> 0]

Run(fresh) == fresh.lo .. fresh.hi

-----------------------------------------------------------------------------
(* The repository: each operator is one transaction of a session.          *)

(* list_candles(limit): the newest "limit" rows. *)
ListCandles(tf, limit) ==
    {k \in stored[tf] : Cardinality({j \in stored[tf] : j > k}) < limit}

(* get_or_create_symbol followed by upsert_candles, whose INSERT .. ON     *)
(* CONFLICT DO NOTHING and commit also commit the new symbol.  "saw" is    *)
(* what the earlier SELECT returned.                                       *)
SymbolConflict(saw) == ~saw /\ symbolRow

UpsertCandles(saw, tf, fresh) ==
    /\ ~SymbolConflict(saw)
    /\ stored' = [stored EXCEPT ![tf] = @ \cup Run(fresh)]
    /\ symbolRow' = (symbolRow \/ Run(fresh) # {})

(* Mutant: ignores the row count. *)
InsertedAlways(tf, fresh) == TRUE

Inserted(tf, fresh) == Run(fresh) \ stored[tf] # {}

-----------------------------------------------------------------------------
(* The candle poller.                                                      *)

PollerStart == [pc |-> "fetch", at |-> 1, fresh |-> NoCandles, saw |-> FALSE]

PollTf == PollOrder[poller.at]

(* Go on to the next timeframe, or to sleep after the last one. *)
NextTimeframe ==
    poller' = IF poller.at < Len(PollOrder)
              THEN [PollerStart EXCEPT !.at = poller.at + 1]
              ELSE [PollerStart EXCEPT !.pc = "sleep"]

(* An exception other than one of fetch_candles leaves the whole round. *)
AbortRound == poller' = [PollerStart EXCEPT !.pc = "sleep"]

PollFetch(tf) ==
    /\ poller.pc = "fetch" /\ PollTf = tf
    /\ LET fresh == Fetched(tf, FetchCount)
       IN  IF Run(fresh) = {}
           THEN NextTimeframe
           ELSE poller' = [poller EXCEPT !.pc = "symbol", !.fresh = fresh]
    /\ UNCHANGED <<exchange, database, feed, rest>>

PollFetchFails ==
    /\ Faults
    /\ poller.pc = "fetch"
    /\ NextTimeframe
    /\ UNCHANGED <<exchange, database, feed, rest>>

PollFindSymbol(tf) ==
    /\ poller.pc = "symbol" /\ PollTf = tf
    /\ poller' = [poller EXCEPT !.pc = "upsert", !.saw = symbolRow]
    /\ UNCHANGED <<exchange, database, feed, rest>>

PollUpsert(tf) ==
    /\ poller.pc = "upsert" /\ PollTf = tf
    /\ UpsertCandles(poller.saw, tf, poller.fresh)
    /\ IF Inserted(tf, poller.fresh)
       THEN poller' = [poller EXCEPT !.pc = "publish"]
       ELSE NextTimeframe
    /\ UNCHANGED <<exchange, feed, rest>>

PollSymbolConflict ==
    /\ poller.pc = "upsert"
    /\ SymbolConflict(poller.saw)
    /\ AbortRound
    /\ UNCHANGED <<exchange, database, feed, rest>>

PollPublish(tf) ==
    /\ poller.pc = "publish" /\ PollTf = tf
    /\ feed' = [feed EXCEPT ![tf] = Append(@, poller.fresh.hi)]
    /\ NextTimeframe
    /\ UNCHANGED <<exchange, database, rest>>

(* The database or Redis raises: nothing of the transaction remains. *)
PollFails ==
    /\ Faults
    /\ poller.pc \in {"symbol", "upsert", "publish"}
    /\ AbortRound
    /\ UNCHANGED <<exchange, database, feed, rest>>

PollWake ==
    /\ poller.pc = "sleep"
    /\ poller' = PollerStart
    /\ UNCHANGED <<exchange, database, feed, rest>>

(* The worker process dies with all its tasks, and is started again. *)
PollerCrash ==
    /\ Faults
    /\ poller.pc # "down"
    /\ poller' = [PollerStart EXCEPT !.pc = "down"]
    /\ UNCHANGED <<exchange, database, feed, rest>>

PollerRestart ==
    /\ poller.pc = "down"
    /\ poller' = PollerStart
    /\ UNCHANGED <<exchange, database, feed, rest>>

-----------------------------------------------------------------------------
(* GET /candles: serve the stored rows, backfilling from the exchange when *)
(* there are fewer than "limit".                                           *)

Request(pc, tf, limit) ==
    [pc |-> pc, tf |-> tf, limit |-> limit, fresh |-> NoCandles, saw |-> FALSE]

NoRequest == Request("idle", PollOrder[1], 0)

RestList(c, tf, limit) ==
    /\ rest[c].pc = "idle"
    /\ rest' = [rest EXCEPT ![c] =
                  IF Cardinality(ListCandles(tf, limit)) < limit
                  THEN Request("fetch", tf, limit)
                  ELSE Request("reply", tf, limit)]
    /\ UNCHANGED <<exchange, database, feed, poller>>

(* Mutant: fetches the default timeframe whatever the request asks for. *)
RestFetchDefault(c) ==
    /\ rest[c].pc = "fetch"
    /\ rest' = [rest EXCEPT ![c].pc = "symbol",
                            ![c].fresh = Fetched(PollOrder[1], rest[c].limit)]
    /\ UNCHANGED <<exchange, database, feed, poller>>

RestFetch(c) ==
    /\ rest[c].pc = "fetch"
    /\ rest' = [rest EXCEPT ![c].pc = "symbol",
                            ![c].fresh = Fetched(rest[c].tf, rest[c].limit)]
    /\ UNCHANGED <<exchange, database, feed, poller>>

RestFindSymbol(c) ==
    /\ rest[c].pc = "symbol"
    /\ rest' = [rest EXCEPT ![c].pc = "upsert", ![c].saw = symbolRow]
    /\ UNCHANGED <<exchange, database, feed, poller>>

RestUpsert(c) ==
    /\ rest[c].pc = "upsert"
    /\ UpsertCandles(rest[c].saw, rest[c].tf, rest[c].fresh)
    /\ rest' = [rest EXCEPT ![c].pc = "reply"]
    /\ UNCHANGED <<exchange, feed, poller>>

RestReply(c) ==
    /\ rest[c].pc = "reply"
    /\ rest' = [rest EXCEPT ![c] = NoRequest]
    /\ UNCHANGED <<exchange, database, feed, poller>>

(* No token (503), a failed fetch, a database error or an IntegrityError   *)
(* on symbols.code ends the request; its transaction is rolled back.       *)
RestFails(c) ==
    /\ \/ Faults /\ rest[c].pc # "idle"
       \/ rest[c].pc = "upsert" /\ SymbolConflict(rest[c].saw)
    /\ rest' = [rest EXCEPT ![c] = NoRequest]
    /\ UNCHANGED <<exchange, database, feed, poller>>

-----------------------------------------------------------------------------
Init ==
    /\ closed = [tf \in Timeframes |-> 0]
    /\ age = [tf \in Timeframes |-> 0]
    /\ ticking = FALSE
    /\ bars = 0
    /\ symbolRow = FALSE
    /\ stored = [tf \in Timeframes |-> {}]
    /\ feed = [tf \in Timeframes |-> <<>>]
    /\ poller = PollerStart
    /\ rest = [c \in Clients |-> NoRequest]

ExchangeStep == (Tick \/ EndOfPeriod) /\ UNCHANGED <<database, feed, poller, rest>>

PollerStep ==
    \/ \E tf \in Timeframes :
          PollFetch(tf) \/ PollFindSymbol(tf) \/ PollUpsert(tf) \/ PollPublish(tf)
    \/ PollFetchFails
    \/ PollSymbolConflict
    \/ PollFails
    \/ PollWake

RestStep(c) ==
    \/ \E tf \in Timeframes, limit \in Limits : RestList(c, tf, limit)
    \/ RestFetch(c)
    \/ RestFindSymbol(c)
    \/ RestUpsert(c)
    \/ RestReply(c)
    \/ RestFails(c)

Next ==
    \/ ExchangeStep
    \/ PollerStep
    \/ PollerCrash
    \/ PollerRestart
    \/ \E c \in Clients : RestStep(c)

Spec == Init /\ [][Next]_feedVars

(* The tasks keep running.  A call that is retried every round (a fetch, a *)
(* query, a publish) does not fail every time, and the platform restarts a *)
(* crashed process.  No client is obliged to send a request, but a request *)
(* once received is served.                                                *)
Fairness ==
    /\ WF_feedVars(PollerStep)
    /\ WF_feedVars(PollerRestart)
    /\ \A tf \in Timeframes :
          /\ SF_feedVars(PollFetch(tf))
          /\ SF_feedVars(PollFindSymbol(tf))
          /\ SF_feedVars(PollUpsert(tf))
          /\ SF_feedVars(PollPublish(tf))
    /\ \A c \in Clients :
          WF_feedVars(RestFetch(c) \/ RestFindSymbol(c) \/ RestUpsert(c)
                        \/ RestReply(c) \/ RestFails(c))

FairSpec == Spec /\ Fairness

-----------------------------------------------------------------------------
Fetches == [lo : Nat \ {0}, hi : Nat]

PollerStates ==
    [pc : {"fetch", "symbol", "upsert", "publish", "sleep", "down"},
     at : 1..Len(PollOrder), fresh : Fetches, saw : BOOLEAN]

RequestStates ==
    [pc : {"idle", "fetch", "symbol", "upsert", "reply"},
     tf : Timeframes, limit : Limits \cup {0}, fresh : Fetches, saw : BOOLEAN]

(* Every variable stays in the set its declaration describes. *)
TypeOK ==
    /\ closed \in [Timeframes -> Nat]
    /\ age \in [Timeframes -> Nat]
    /\ ticking \in BOOLEAN
    /\ bars \in Nat
    /\ symbolRow \in BOOLEAN
    /\ stored \in [Timeframes -> SUBSET Nat]
    /\ feed \in [Timeframes -> Seq(Nat)]
    /\ poller \in PollerStates
    /\ rest \in [Clients -> RequestStates]

(* Only closed candles are ever stored, whoever fetches them and however   *)
(* late the rows are written: a candle frozen in flight would never be     *)
(* corrected, because ON CONFLICT DO NOTHING keeps the first version.      *)
StoredAreClosed == \A tf \in Timeframes : stored[tf] \subseteq 1..closed[tf]

(* A candle is announced on Redis only once a reader of market_data that   *)
(* reacts to the announcement finds its row, across aborted rounds and     *)
(* crashes.                                                                *)
AnnouncedAreStored ==
    \A tf \in Timeframes : \A i \in 1..Len(feed[tf]) : feed[tf][i] \in stored[tf]

(* The candles of a channel come in order and none comes twice, although   *)
(* every poll fetches the last candles again, the rows may have been       *)
(* written by a backfill, and rounds are aborted and restarted: the        *)
(* "rowcount = 0 skips publish" of the poller.                             *)
FeedInOrder ==
    \A tf \in Timeframes : \A i, j \in 1..Len(feed[tf]) :
        i < j => feed[tf][i] < feed[tf][j]

(* Rows of market_data belong to a row of symbols, so the inner join of    *)
(* list_candles hides none of them, although two processes race to create  *)
(* the symbol.                                                             *)
RowsHaveSymbol == \A tf \in Timeframes : stored[tf] # {} => symbolRow

(* What a task has fetched was closed when it was fetched. *)
FetchedAreClosed ==
    /\ poller.fresh.hi <= closed[PollTf]
    /\ \A c \in Clients : rest[c].fresh.hi <= closed[rest[c].tf]

(* A fetch reaches back at least as far as any later fetch will. *)
PollReachesBack ==
    poller.pc \in {"symbol", "upsert", "publish"} =>
        /\ poller.fresh.lo <= poller.fresh.hi
        /\ poller.fresh.lo = 1 \/ poller.fresh.lo <= Listed(PollTf) - FetchCount + 1

(* Nothing that the next poll could fetch, up to an announced candle, is   *)
(* missing from the database.                                              *)
NoHoleNearAnnounced ==
    \A tf \in Timeframes : \A i \in 1..Len(feed[tf]) : \A k \in 1..feed[tf][i] :
        k > Listed(tf) - FetchCount => k \in stored[tf]

(* Fetched candles are newer than every announced one, or nothing of them  *)
(* will be inserted.                                                       *)
PollIsNews ==
    /\ poller.pc \in {"symbol", "upsert"} =>
          \/ \A i \in 1..Len(feed[PollTf]) : feed[PollTf][i] < poller.fresh.hi
          \/ Run(poller.fresh) \subseteq stored[PollTf]
    /\ poller.pc = "publish" =>
          /\ \A i \in 1..Len(feed[PollTf]) : feed[PollTf][i] < poller.fresh.hi
          /\ Run(poller.fresh) \subseteq stored[PollTf]

(* The strengthening of FeedInOrder that every step preserves. *)
FeedInv ==
    /\ TypeOK
    /\ StoredAreClosed
    /\ AnnouncedAreStored
    /\ FeedInOrder
    /\ FetchedAreClosed
    /\ PollReachesBack
    /\ NoHoleNearAnnounced
    /\ PollIsNews

(* The newest closed candle of every timeframe reaches the database,       *)
(* whatever fails on the way, or a newer one does.                         *)
NewestIsStored ==
    \A tf \in Timeframes : \A k \in 1..(MaxBars \div Span[tf]) :
        (closed[tf] >= k) ~> (\E j \in stored[tf] : j >= k)

(* A stored candle is announced on its channel, or a newer one is: what    *)
(* the signal worker's docstring expects of "candles:{symbol}:15m          *)
(* (published by the candle poller whenever a new closed 15m candle is     *)
(* inserted)".                                                             *)
StoredIsAnnounced ==
    \A tf \in Timeframes, k \in 1..MaxBars :
        (k \in stored[tf]) ~> (\E i \in 1..Len(feed[tf]) : feed[tf][i] >= k)

(* The poller, the requests and their failures implement the log: whatever *)
(* interleaves, crashes or aborts, what other components see is rows of    *)
(* closed candles that stay, and announcements of rows, each of a newer    *)
(* candle than the one before it.                                          *)
Log == INSTANCE FeedLog WITH available <- closed, rows <- stored, channel <- feed

ImplementsLog == Log!LogSpec
=============================================================================
