------------------------ MODULE SignalPipelineProofs ------------------------
(***************************************************************************)
(* The feed and the signal worker that watches it.  FeedInv is an          *)
(* inductive invariant of CandleFeed, for all timeframes, poll orders,     *)
(* candle spans, fetch counts and clients, with and without faults.  The   *)
(* pipeline is such a feed (PipelineIsFeed), so what holds of the feed     *)
(* holds of it; PipelineInv is inductive on top of FeedInv and gives the   *)
(* guarantees of the worker.                                               *)
(***************************************************************************)
EXTENDS SignalPipeline, Recursion

-----------------------------------------------------------------------------
(* The feed.                                                               *)

(* The step of the exchange: candles only get completed and listed. *)
LEMMA ExchangeGrows ==
    ASSUME TypeOK, ExchangeStep
    PROVE  /\ closed' \in [Timeframes -> Nat]
           /\ age' \in [Timeframes -> Nat]
           /\ ticking' \in BOOLEAN
           /\ bars' \in Nat
           /\ \A tf \in Timeframes : closed[tf] <= closed'[tf] /\ Listed(tf) <= Listed(tf)'
<1> USE FeedAssumption DEF FeedAssumption
<1>1. CASE Tick
  <2>1. closed' = closed /\ age' = age /\ bars' = bars /\ ticking' = TRUE
    BY <1>1 DEF Tick
  <2>2. ASSUME NEW tf \in Timeframes
        PROVE  closed[tf] <= closed'[tf] /\ Listed(tf) <= Listed(tf)'
    BY <2>1 DEF TypeOK, Listed, InFlight
  <2> QED BY <2>1, <2>2 DEF TypeOK, Listed, InFlight
<1>2. CASE EndOfPeriod
  <2>1. ticking /\ ticking' = FALSE /\ bars' = bars + 1
    BY <1>2 DEF EndOfPeriod
  <2>a. \A tf \in Timeframes : closed[tf] \in Nat /\ age[tf] \in Nat
    BY DEF TypeOK
  <2>3. age' \in [Timeframes -> Nat]
    BY <1>2, <2>a DEF EndOfPeriod
  <2>4. closed' \in [Timeframes -> Nat]
    BY <1>2, <2>a DEF EndOfPeriod
  <2>5. bars' \in Nat
    BY <2>1 DEF TypeOK
  <2>2. ASSUME NEW tf \in Timeframes
        PROVE  closed[tf] <= closed'[tf] /\ Listed(tf) <= Listed(tf)'
    <3>1. closed[tf] \in Nat /\ age[tf] \in Nat
      BY DEF TypeOK
    <3>2. CASE age[tf] + 1 = Span[tf]
      <4>1. closed'[tf] = closed[tf] + 1
        BY <1>2, <3>2 DEF EndOfPeriod
      <4> QED BY <2>1, <3>1, <4>1 DEF Listed, InFlight
    <3>3. CASE age[tf] + 1 # Span[tf]
      <4>1. closed'[tf] = closed[tf] /\ age'[tf] = age[tf] + 1
        BY <1>2, <3>3 DEF EndOfPeriod
      <4> QED BY <2>1, <3>1, <4>1 DEF Listed, InFlight
    <3> QED BY <3>2, <3>3
  <2> QED BY <2>1, <2>2, <2>3, <2>4, <2>5 DEF Listed, InFlight
<1> QED BY <1>1, <1>2 DEF ExchangeStep

(* A fetch returns closed candles only, and reaches back "count" listed ones. *)
LEMMA FetchedWindow ==
    ASSUME TypeOK, NEW tf \in Timeframes, NEW count \in Nat
    PROVE  /\ Fetched(tf, count) \in Fetches
           /\ Fetched(tf, count).hi = closed[tf]
           /\ Listed(tf) \in Nat
           /\ closed[tf] <= Listed(tf)
           /\ \/ Fetched(tf, count).lo = 1
              \/ Fetched(tf, count).lo <= Listed(tf) - count + 1
           /\ \A k \in Nat \ {0} :
                 k >= Fetched(tf, count).lo => k > Listed(tf) - count
BY DEF TypeOK, Fetched, Listed, InFlight, Fetches

(* A poller that has just left a timeframe, for whatever reason. *)
Rested(p) == p.pc \in {"fetch", "sleep", "down"} /\ p.fresh = NoCandles

(* What the poller's locals are between timeframes (candle_poller.py).      *)
LEMMA PollerResets ==
    ASSUME TypeOK,
           \/ NextTimeframe \/ AbortRound \/ poller' = PollerStart
           \/ poller' = [PollerStart EXCEPT !.pc = "down"]
    PROVE  /\ poller' \in PollerStates
           /\ Rested(poller')
<1>1. Len(PollOrder) \in Nat \ {0} /\ 1 \in 1..Len(PollOrder)
  BY FeedAssumption DEF FeedAssumption
<1>2. NoCandles \in Fetches
  BY DEF NoCandles, Fetches
<1>3. CASE NextTimeframe
  <2>1. poller.at \in 1..Len(PollOrder)
    BY DEF TypeOK, PollerStates
  <2>2. CASE poller.at < Len(PollOrder)
    <3>1. poller' = [pc |-> "fetch", at |-> poller.at + 1, fresh |-> NoCandles, saw |-> FALSE]
      BY <1>3, <2>2 DEF NextTimeframe, PollerStart
    <3>2. poller.at + 1 \in 1..Len(PollOrder)
      BY <1>1, <2>1, <2>2
    <3> QED BY <1>2, <3>1, <3>2 DEF PollerStates, Rested
  <2>3. CASE ~(poller.at < Len(PollOrder))
    BY <1>1, <1>2, <1>3, <2>3 DEF NextTimeframe, PollerStart, PollerStates, Rested
  <2> QED BY <2>2, <2>3
<1>4. CASE AbortRound
  BY <1>1, <1>2, <1>4 DEF AbortRound, PollerStart, PollerStates, Rested
<1>5. CASE poller' = PollerStart
  BY <1>1, <1>2, <1>5 DEF PollerStart, PollerStates, Rested
<1>6. CASE poller' = [PollerStart EXCEPT !.pc = "down"]
  BY <1>1, <1>2, <1>6 DEF PollerStart, PollerStates, Rested
<1> QED BY <1>3, <1>4, <1>5, <1>6

(* What is left to check when the poller has left a timeframe. *)
LEMMA RestedPoller ==
    ASSUME TypeOK', Rested(poller)'
    PROVE  /\ poller'.fresh.hi <= closed'[PollTf']
           /\ PollReachesBack'
           /\ PollIsNews'
<1>1. PollTf' \in Timeframes
  BY FeedAssumption DEF FeedAssumption, TypeOK, PollerStates, PollTf
<1>2. closed'[PollTf'] \in Nat
  BY <1>1 DEF TypeOK
<1> QED BY <1>2 DEF Rested, NoCandles, PollReachesBack, PollIsNews

(* The system begins in the invariant of the feed.                          *)
THEOREM InitialFeed == Init => FeedInv
<1> SUFFICES ASSUME Init PROVE FeedInv
  OBVIOUS
<1> USE FeedAssumption DEF FeedAssumption, Init
<1>1. 1 \in 1..Len(PollOrder) /\ PollOrder[1] \in Timeframes
  OBVIOUS
<1>2. NoCandles \in Fetches
  BY DEF NoCandles, Fetches
<1>3. TypeOK
  <2>1. poller \in PollerStates
    BY <1>1, <1>2 DEF PollerStart, PollerStates
  <2>2. NoRequest \in RequestStates
    BY <1>1, <1>2 DEF NoRequest, Request, RequestStates
  <2>3. rest \in [Clients -> RequestStates]
    BY <2>2
  <2>4. /\ closed \in [Timeframes -> Nat]
        /\ age \in [Timeframes -> Nat]
        /\ ticking \in BOOLEAN
        /\ bars \in Nat
        /\ symbolRow \in BOOLEAN
        /\ stored \in [Timeframes -> SUBSET Nat]
    OBVIOUS
  <2>5. feed \in [Timeframes -> Seq(Nat)]
    OBVIOUS
  <2> QED BY <2>1, <2>3, <2>4, <2>5 DEF TypeOK
<1>4. FetchedAreClosed
  BY <1>1 DEF FetchedAreClosed, PollTf, PollerStart, NoRequest, Request, NoCandles
<1>5. StoredAreClosed /\ AnnouncedAreStored /\ FeedInOrder /\ NoHoleNearAnnounced
  BY DEF StoredAreClosed, AnnouncedAreStored, FeedInOrder, NoHoleNearAnnounced
<1>6. PollReachesBack /\ PollIsNews
  BY DEF PollReachesBack, PollIsNews, PollerStart
<1> QED BY <1>3, <1>4, <1>5, <1>6 DEF FeedInv

-----------------------------------------------------------------------------
(* One lemma per action, or per group of actions that change the same       *)
(* variables.                                                               *)

(* The poller always visits one of the timeframes (_poll_symbol).           *)
LEMMA PollTfType == ASSUME TypeOK PROVE PollTf \in Timeframes
BY FeedAssumption DEF FeedAssumption, TypeOK, PollerStates, PollTf

(* Time passing at the exchange preserves the invariant.                    *)
LEMMA ExchangeKeeps == ASSUME FeedInv, ExchangeStep PROVE FeedInv'
<1> USE DEF FeedInv
<1>1. UNCHANGED <<symbolRow, stored, feed, poller, rest>>
  BY DEF ExchangeStep, database
<1>2. \A tf \in Timeframes : closed[tf] <= closed'[tf] /\ Listed(tf) <= Listed(tf)'
  BY ExchangeGrows
<1>3. TypeOK'
  BY ExchangeGrows, <1>1 DEF TypeOK
<1>4. PollTf' = PollTf /\ PollTf \in Timeframes
  BY <1>1, PollTfType DEF PollTf
<1>5. \A tf \in Timeframes :
         /\ closed[tf] \in Nat /\ closed'[tf] \in Nat
         /\ Listed(tf) \in Nat /\ Listed(tf)' \in Nat
  BY <1>3 DEF TypeOK, Listed, InFlight
<1>6. FetchCount \in Nat \ {0}
  BY FeedAssumption DEF FeedAssumption
<1>7. StoredAreClosed'
  <2> SUFFICES ASSUME NEW tf \in Timeframes, NEW k \in stored[tf]
               PROVE  k \in 1..closed'[tf]
    BY <1>1 DEF StoredAreClosed
  <2>1. k \in 1..closed[tf]
    BY DEF StoredAreClosed
  <2> QED BY <2>1, <1>2, <1>5
<1>8. AnnouncedAreStored' /\ FeedInOrder'
  BY <1>1 DEF AnnouncedAreStored, FeedInOrder
<1>9. FetchedAreClosed'
  <2>1. poller.fresh.hi \in Nat /\ \A c \in Clients : rest[c].tf \in Timeframes /\ rest[c].fresh.hi \in Nat
    BY DEF TypeOK, PollerStates, RequestStates, Fetches
  <2> QED BY <2>1, <1>1, <1>2, <1>4, <1>5 DEF FetchedAreClosed
<1>10. PollReachesBack'
  <2>1. poller.fresh.lo \in Nat
    BY DEF TypeOK, PollerStates, Fetches
  <2>2. Listed(PollTf) <= Listed(PollTf)'
    BY <1>2, <1>4 DEF Listed, InFlight
  <2>3. Listed(PollTf) \in Nat /\ Listed(PollTf)' \in Nat
    BY <1>4, <1>5 DEF Listed, InFlight
  <2> QED BY <2>1, <2>2, <2>3, <1>1, <1>6 DEF PollReachesBack
<1>11. NoHoleNearAnnounced'
  <2> SUFFICES ASSUME NEW tf \in Timeframes, NEW i \in 1..Len(feed[tf]),
                      NEW k \in 1..feed[tf][i], k > Listed(tf)' - FetchCount
               PROVE  k \in stored[tf]
    BY <1>1 DEF NoHoleNearAnnounced
  <2>1. k > Listed(tf) - FetchCount
    <3>1. k \in Int
      OBVIOUS
    <3> QED BY <3>1, <1>2, <1>5, <1>6
  <2> QED BY <2>1 DEF NoHoleNearAnnounced
<1>12. PollIsNews'
  BY <1>1, <1>4 DEF PollIsNews
<1> QED BY <1>3, <1>7, <1>8, <1>9, <1>10, <1>11, <1>12

(* Steps that only move the poller, and leave nothing fetched. *)
LEMMA RestedKeeps ==
    ASSUME FeedInv, TypeOK', Rested(poller)',
           UNCHANGED <<exchange, symbolRow, stored, rest>>,
           UNCHANGED feed
    PROVE  FeedInv'
<1> USE DEF FeedInv, exchange
<1>1. /\ poller'.fresh.hi <= closed'[PollTf']
      /\ PollReachesBack'
      /\ PollIsNews'
  BY RestedPoller
<1>2. StoredAreClosed' /\ AnnouncedAreStored' /\ FeedInOrder' /\ NoHoleNearAnnounced'
  BY DEF StoredAreClosed, AnnouncedAreStored, FeedInOrder, NoHoleNearAnnounced, Listed, InFlight
<1>3. FetchedAreClosed'
  BY <1>1 DEF FetchedAreClosed
<1> QED BY <1>1, <1>2, <1>3

(* fetch_candles in a poll round preserves the invariant.                   *)
LEMMA PollFetchKeeps ==
    ASSUME FeedInv, NEW tf \in Timeframes, PollFetch(tf)
    PROVE  FeedInv'
<1> USE DEF FeedInv, exchange, database
<1> DEFINE fresh == Fetched(tf, FetchCount)
<1>1. UNCHANGED <<exchange, symbolRow, stored, feed, rest>> /\ PollTf = tf
  BY DEF PollFetch
<1>2. CASE Run(fresh) = {}
  <2>1. NextTimeframe
    BY <1>2 DEF PollFetch
  <2>2. poller' \in PollerStates /\ Rested(poller')
    BY <2>1, PollerResets
  <2>3. TypeOK'
    BY <2>2, <1>1 DEF TypeOK
  <2> QED BY <2>2, <2>3, <1>1, RestedKeeps DEF Rested
<1>3. CASE Run(fresh) # {}
  <2>1. poller' = [poller EXCEPT !.pc = "symbol", !.fresh = fresh]
    BY <1>3 DEF PollFetch
  <2>2. FetchCount \in Nat \ {0}
    BY FeedAssumption DEF FeedAssumption
  <2>3. /\ fresh \in Fetches /\ fresh.hi = closed[tf]
        /\ Listed(tf) \in Nat /\ closed[tf] <= Listed(tf)
        /\ fresh.lo = 1 \/ fresh.lo <= Listed(tf) - FetchCount + 1
        /\ \A k \in Nat \ {0} : k >= fresh.lo => k > Listed(tf) - FetchCount
    BY <2>2, FetchedWindow
  <2> HIDE DEF fresh
  <2>4. /\ poller' \in PollerStates /\ PollTf' = tf
        /\ poller'.pc = "symbol" /\ poller'.fresh = fresh
    BY <2>1, <2>3, <1>1 DEF TypeOK, PollerStates, PollTf
  <2>5. TypeOK'
    BY <2>4, <1>1 DEF TypeOK
  <2>6. StoredAreClosed' /\ AnnouncedAreStored' /\ FeedInOrder' /\ NoHoleNearAnnounced'
    BY <1>1 DEF StoredAreClosed, AnnouncedAreStored, FeedInOrder, NoHoleNearAnnounced, Listed, InFlight
  <2>7. closed[tf] \in Nat
    BY DEF TypeOK
  <2>8. FetchedAreClosed'
    BY <1>1, <2>3, <2>4, <2>7 DEF FetchedAreClosed
  <2>9. fresh.lo \in Nat \ {0} /\ fresh.hi \in Nat /\ fresh.lo <= fresh.hi
    BY <1>3, <2>3 DEF Fetches, Run
  <2>10. PollReachesBack'
    BY <1>1, <2>3, <2>4, <2>9 DEF PollReachesBack, Listed, InFlight
  <2>11. PollIsNews'
    <3>1. \A i \in 1..Len(feed[tf]) : feed[tf][i] \in 1..closed[tf]
      BY DEF AnnouncedAreStored, StoredAreClosed
    <3>2. CASE \A i \in 1..Len(feed[tf]) : feed[tf][i] # fresh.hi
      BY <3>1, <3>2, <2>3, <2>4, <2>7, <1>1 DEF PollIsNews
    <3>3. CASE \E i \in 1..Len(feed[tf]) : feed[tf][i] = fresh.hi
      <4>1. PICK i \in 1..Len(feed[tf]) : feed[tf][i] = fresh.hi
        BY <3>3
      <4>2. ASSUME NEW k \in Run(fresh) PROVE k \in stored[tf]
        <5>1. k \in 1..feed[tf][i] /\ k \in Nat \ {0} /\ k >= fresh.lo
          BY <4>1, <4>2, <2>9 DEF Run
        <5>2. k > Listed(tf) - FetchCount
          BY <2>3, <5>1
        <5> QED BY <5>1, <5>2 DEF NoHoleNearAnnounced
      <4> QED BY <4>2, <2>4, <1>1 DEF PollIsNews
    <3> QED BY <3>2, <3>3
  <2> QED BY <2>5, <2>6, <2>8, <2>10, <2>11
<1> QED BY <1>2, <1>3

(* The SELECT of get_or_create_symbol preserves the invariant.              *)
LEMMA PollFindSymbolKeeps ==
    ASSUME FeedInv, NEW tf \in Timeframes, PollFindSymbol(tf)
    PROVE  FeedInv'
<1> USE DEF FeedInv, exchange, database
<1>1. UNCHANGED <<exchange, symbolRow, stored, feed, rest>> /\ PollTf = tf
  BY DEF PollFindSymbol
<1>2. /\ poller' \in PollerStates /\ PollTf' = tf
      /\ poller.pc = "symbol" /\ poller'.pc = "upsert" /\ poller'.fresh = poller.fresh
  BY DEF PollFindSymbol, TypeOK, PollerStates, PollTf
<1>3. TypeOK'
  BY <1>1, <1>2 DEF TypeOK
<1>4. StoredAreClosed' /\ AnnouncedAreStored' /\ FeedInOrder' /\ NoHoleNearAnnounced'
  BY <1>1 DEF StoredAreClosed, AnnouncedAreStored, FeedInOrder, NoHoleNearAnnounced, Listed, InFlight
<1>5. FetchedAreClosed' /\ PollReachesBack' /\ PollIsNews'
  BY <1>1, <1>2 DEF FetchedAreClosed, PollReachesBack, PollIsNews, Listed, InFlight
<1> QED BY <1>3, <1>4, <1>5

(* More rows never hurt, as long as they are closed candles. *)
LEMMA MoreRows ==
    ASSUME FeedInv, NEW tf \in Timeframes, NEW fresh \in Fetches,
           fresh.hi <= closed[tf],
           stored' = [stored EXCEPT ![tf] = @ \cup Run(fresh)],
           UNCHANGED <<exchange, feed>>
    PROVE  /\ stored' \in [Timeframes -> SUBSET Nat]
           /\ \A g \in Timeframes : stored[g] \subseteq stored'[g]
           /\ Run(fresh) \subseteq stored'[tf]
           /\ StoredAreClosed' /\ AnnouncedAreStored' /\ FeedInOrder' /\ NoHoleNearAnnounced'
<1> USE DEF FeedInv, exchange
<1>1. stored \in [Timeframes -> SUBSET Nat] /\ closed[tf] \in Nat
  BY DEF TypeOK
<1>2. fresh.lo \in Nat \ {0} /\ fresh.hi \in Nat
  BY DEF Fetches
<1>3. Run(fresh) \subseteq 1..closed[tf]
  BY <1>1, <1>2 DEF Run
<1>4. stored' \in [Timeframes -> SUBSET Nat]
  BY <1>1, <1>3
<1>5. \A g \in Timeframes : stored[g] \subseteq stored'[g]
  BY <1>1
<1>6. Run(fresh) \subseteq stored'[tf]
  BY <1>1
<1>7. StoredAreClosed'
  BY <1>1, <1>3 DEF StoredAreClosed
<1>8. AnnouncedAreStored' /\ FeedInOrder' /\ NoHoleNearAnnounced'
  BY <1>5 DEF AnnouncedAreStored, FeedInOrder, NoHoleNearAnnounced, Listed, InFlight
<1> QED BY <1>4, <1>5, <1>6, <1>7, <1>8

(* upsert_candles in a poll round preserves the invariant.                  *)
LEMMA PollUpsertKeeps ==
    ASSUME FeedInv, NEW tf \in Timeframes, PollUpsert(tf)
    PROVE  FeedInv'
<1> USE DEF FeedInv, exchange
<1>1. /\ UNCHANGED <<exchange, feed, rest>> /\ PollTf = tf /\ poller.pc = "upsert"
      /\ stored' = [stored EXCEPT ![tf] = @ \cup Run(poller.fresh)]
      /\ symbolRow' = (symbolRow \/ Run(poller.fresh) # {})
  BY DEF PollUpsert, UpsertCandles
<1>2. poller \in PollerStates /\ poller.fresh \in Fetches /\ poller.fresh.hi <= closed[tf]
  BY <1>1 DEF TypeOK, PollerStates, FetchedAreClosed
<1>3. /\ stored' \in [Timeframes -> SUBSET Nat]
      /\ \A g \in Timeframes : stored[g] \subseteq stored'[g]
      /\ Run(poller.fresh) \subseteq stored'[tf]
      /\ StoredAreClosed' /\ AnnouncedAreStored' /\ FeedInOrder' /\ NoHoleNearAnnounced'
  BY <1>1, <1>2, MoreRows
<1>4. symbolRow' \in BOOLEAN
  BY <1>1
<1>5. CASE Inserted(tf, poller.fresh)
  <2>1. /\ poller' \in PollerStates /\ PollTf' = tf
        /\ poller'.pc = "publish" /\ poller'.fresh = poller.fresh
    BY <1>1, <1>2, <1>5 DEF PollUpsert, PollerStates, PollTf
  <2>2. TypeOK'
    BY <2>1, <1>1, <1>3, <1>4 DEF TypeOK
  <2>3. FetchedAreClosed' /\ PollReachesBack'
    BY <2>1, <1>1 DEF FetchedAreClosed, PollReachesBack, Listed, InFlight
  <2>4. ~(Run(poller.fresh) \subseteq stored[tf])
    BY <1>5 DEF Inserted
  <2>5. PollIsNews'
    BY <2>1, <2>4, <1>1, <1>3 DEF PollIsNews
  <2> QED BY <2>2, <2>3, <2>5, <1>3
<1>6. CASE ~Inserted(tf, poller.fresh)
  <2>1. NextTimeframe
    BY <1>6 DEF PollUpsert
  <2>2. poller' \in PollerStates /\ Rested(poller')
    BY <2>1, PollerResets
  <2>3. TypeOK'
    BY <2>2, <1>1, <1>3, <1>4 DEF TypeOK
  <2>4. /\ poller'.fresh.hi <= closed'[PollTf']
        /\ PollReachesBack'
        /\ PollIsNews'
    BY <2>2, <2>3, RestedPoller DEF Rested
  <2>5. FetchedAreClosed'
    BY <2>4, <1>1 DEF FetchedAreClosed
  <2> QED BY <2>3, <2>4, <2>5, <1>3
<1> QED BY <1>5, <1>6

(* The poller's announcement preserves the invariant.                       *)
LEMMA PollPublishKeeps ==
    ASSUME FeedInv, NEW tf \in Timeframes, PollPublish(tf)
    PROVE  FeedInv'
<1> USE DEF FeedInv, exchange, database
<1> DEFINE hi == poller.fresh.hi
           n  == Len(feed[tf])
<1>1. /\ UNCHANGED <<exchange, symbolRow, stored, rest>> /\ PollTf = tf
      /\ poller.pc = "publish" /\ NextTimeframe
      /\ feed' = [feed EXCEPT ![tf] = Append(@, hi)]
  BY DEF PollPublish
<1>2. poller.fresh.lo \in Nat \ {0} /\ hi \in Nat /\ feed \in [Timeframes -> Seq(Nat)]
  BY DEF TypeOK, PollerStates, Fetches
<1>3. poller.fresh.lo <= hi
  BY <1>1 DEF PollReachesBack
<1>4. poller' \in PollerStates /\ Rested(poller')
  BY <1>1, PollerResets
<1>5. feed' \in [Timeframes -> Seq(Nat)]
  BY <1>1, <1>2
<1>6. TypeOK'
  BY <1>1, <1>4, <1>5 DEF TypeOK
<1>7. /\ Len(feed'[tf]) = n + 1 /\ n \in Nat
      /\ feed'[tf][n + 1] = hi
      /\ \A i \in 1..n : feed'[tf][i] = feed[tf][i]
  BY <1>1, <1>2
<1>8. \A g \in Timeframes \ {tf} : feed'[g] = feed[g]
  BY <1>1, <1>2
<1>9. \A i \in 1..n : feed[tf][i] < hi
  BY <1>1 DEF PollIsNews
<1>10. Run(poller.fresh) \subseteq stored[tf]
  BY <1>1 DEF PollIsNews
<1> HIDE DEF n, hi
<1>11. AnnouncedAreStored'
  <2>1. hi \in stored[tf]
    BY <1>2, <1>3, <1>10 DEF Run, hi
  <2> SUFFICES ASSUME NEW g \in Timeframes, NEW i \in 1..Len(feed'[g])
               PROVE  feed'[g][i] \in stored[g]
    BY <1>1 DEF AnnouncedAreStored
  <2> QED BY <2>1, <1>7, <1>8 DEF AnnouncedAreStored, n
<1>12. FeedInOrder'
  <2> SUFFICES ASSUME NEW g \in Timeframes, NEW i \in 1..Len(feed'[g]),
                      NEW j \in 1..Len(feed'[g]), i < j
               PROVE  feed'[g][i] < feed'[g][j]
    BY DEF FeedInOrder
  <2>1. CASE g # tf
    BY <2>1, <1>8 DEF FeedInOrder
  <2>2. CASE g = tf /\ j = n + 1
    BY <2>2, <1>7, <1>9
  <2>3. CASE g = tf /\ j # n + 1
    BY <2>3, <1>7, SMTT(30) DEF FeedInOrder, n
  <2> QED BY <2>1, <2>2, <2>3
<1>13. NoHoleNearAnnounced'
  <2> SUFFICES ASSUME NEW g \in Timeframes, NEW i \in 1..Len(feed'[g]),
                      NEW k \in 1..feed'[g][i], k > Listed(g) - FetchCount
               PROVE  k \in stored[g]
    BY <1>1 DEF NoHoleNearAnnounced, Listed, InFlight
  <2>1. CASE g # tf \/ i # n + 1
    <3>1. i \in 1..Len(feed[g]) /\ k \in 1..feed[g][i]
      BY <2>1, <1>7, <1>8 DEF n
    <3> QED BY <3>1 DEF NoHoleNearAnnounced
  <2>2. CASE g = tf /\ i = n + 1
    <3>1. k \in 1..hi
      BY <2>2, <1>7
    <3>0. FetchCount \in Nat \ {0}
      BY FeedAssumption DEF FeedAssumption
    <3>2. FetchCount \in Nat /\ Listed(tf) \in Nat
      BY <3>0, FetchedWindow
    <3>3. poller.fresh.lo = 1 \/ poller.fresh.lo <= Listed(tf) - FetchCount + 1
      BY <1>1 DEF PollReachesBack
    <3>4. k > Listed(tf) - FetchCount
      BY <2>2
    <3>6. k \in Nat /\ k >= 1 /\ poller.fresh.lo \in Nat
      BY <3>1, <1>2
    <3>7. k >= poller.fresh.lo
      BY <3>2, <3>3, <3>4, <3>6
    <3>5. k \in Run(poller.fresh)
      BY <3>1, <3>7, <1>2 DEF Run, hi
    <3> QED BY <3>5, <2>2, <1>10
  <2> QED BY <2>1, <2>2
<1>14. StoredAreClosed'
  BY <1>1 DEF StoredAreClosed
<1>15. /\ poller'.fresh.hi <= closed'[PollTf']
       /\ PollReachesBack'
       /\ PollIsNews'
  BY <1>4, <1>6, RestedPoller DEF Rested
<1>16. FetchedAreClosed'
  BY <1>15, <1>1 DEF FetchedAreClosed
<1> QED BY <1>6, <1>11, <1>12, <1>13, <1>14, <1>15, <1>16

(* The steps of a request that leave the database alone. *)
LEMMA RequestKeeps ==
    ASSUME FeedInv, NEW c \in Clients, NEW r \in RequestStates,
           r.fresh.hi <= closed[r.tf],
           rest' = [rest EXCEPT ![c] = r],
           UNCHANGED <<exchange, database, feed, poller>>
    PROVE  FeedInv'
<1> USE DEF FeedInv, exchange, database
<1>1. rest \in [Clients -> RequestStates]
  BY DEF TypeOK
<1>2. TypeOK'
  BY <1>1 DEF TypeOK
<1>3. StoredAreClosed' /\ AnnouncedAreStored' /\ FeedInOrder' /\ NoHoleNearAnnounced'
  BY DEF StoredAreClosed, AnnouncedAreStored, FeedInOrder, NoHoleNearAnnounced, Listed, InFlight
<1>4. PollTf' = PollTf
  BY DEF PollTf
<1>5. PollReachesBack' /\ PollIsNews'
  BY <1>4 DEF PollReachesBack, PollIsNews, Listed, InFlight
<1>6. FetchedAreClosed'
  BY <1>1, <1>4 DEF FetchedAreClosed
<1> QED BY <1>2, <1>3, <1>5, <1>6

(* Every step of GET /candles preserves the invariant (market.py).          *)
LEMMA RestKeeps == ASSUME FeedInv, NEW c \in Clients, RestStep(c) PROVE FeedInv'
<1> USE DEF FeedInv
<1>1. /\ rest[c] \in RequestStates /\ rest[c].tf \in Timeframes
      /\ rest[c].fresh \in Fetches
      /\ rest[c].fresh.hi <= closed[rest[c].tf]
      /\ rest \in [Clients -> RequestStates]
  BY DEF TypeOK, RequestStates, FetchedAreClosed
<1>2. NoCandles \in Fetches /\ NoCandles.hi = 0
  BY DEF NoCandles, Fetches
<1>3. \A tf \in Timeframes : closed[tf] \in Nat
  BY DEF TypeOK
<1>4. PollOrder[1] \in Timeframes
  BY FeedAssumption DEF FeedAssumption
<1>5. /\ NoRequest \in RequestStates
      /\ NoRequest.fresh.hi <= closed[NoRequest.tf]
  BY <1>2, <1>3, <1>4 DEF NoRequest, Request, RequestStates
<1>6. ASSUME NEW tf \in Timeframes, NEW limit \in Limits, RestList(c, tf, limit)
      PROVE  FeedInv'
  <2>1. PICK pc \in {"fetch", "reply"} : rest' = [rest EXCEPT ![c] = Request(pc, tf, limit)]
    BY <1>6 DEF RestList
  <2>2. /\ Request(pc, tf, limit) \in RequestStates
        /\ Request(pc, tf, limit).fresh.hi <= closed[Request(pc, tf, limit).tf]
    BY <1>2, <1>3 DEF Request, RequestStates
  <2>3. UNCHANGED <<exchange, database, feed, poller>>
    BY <1>6 DEF RestList
  <2> QED BY <2>1, <2>2, <2>3, RequestKeeps
<1>7. CASE RestFetch(c)
  <2> DEFINE fresh == Fetched(rest[c].tf, rest[c].limit)
             r == [rest[c] EXCEPT !.pc = "symbol", !.fresh = fresh]
  <2>1. fresh \in Fetches /\ fresh.hi = closed[rest[c].tf]
    <3>1. rest[c].limit \in Nat
      <4>1. rest[c].limit \in Limits \cup {0}
        BY <1>1 DEF RequestStates
      <4>2. Limits \cup {0} \subseteq Nat
        BY FeedAssumption DEF FeedAssumption
      <4> QED BY <4>1, <4>2, Zenon
    <3> QED BY <1>1, <3>1, FetchedWindow
  <2>2. rest' = [rest EXCEPT ![c] = r] /\ UNCHANGED <<exchange, database, feed, poller>>
    BY <1>1, <1>7 DEF RestFetch
  <2> HIDE DEF fresh
  <2>3. r \in RequestStates
    BY <1>1, <2>1 DEF RequestStates
  <2>4. r.fresh = fresh /\ r.tf = rest[c].tf
    BY <1>1 DEF RequestStates
  <2>5. r.fresh.hi <= closed[r.tf]
    BY <1>1, <1>3, <2>1, <2>4
  <2> HIDE DEF r
  <2> QED BY <2>2, <2>3, <2>5, RequestKeeps
<1>8. CASE RestFindSymbol(c)
  <2> DEFINE r == [rest[c] EXCEPT !.pc = "upsert", !.saw = symbolRow]
  <2>1. rest' = [rest EXCEPT ![c] = r] /\ UNCHANGED <<exchange, database, feed, poller>>
    BY <1>1, <1>8 DEF RestFindSymbol
  <2>2. symbolRow \in BOOLEAN
    BY DEF TypeOK
  <2>3. r.fresh = rest[c].fresh /\ r.tf = rest[c].tf
    BY <1>1 DEF RequestStates
  <2>4. r \in RequestStates
    BY <1>1, <2>2 DEF RequestStates
  <2>5. r.fresh.hi <= closed[r.tf]
    BY <1>1, <2>3
  <2> HIDE DEF r
  <2> QED BY <2>1, <2>4, <2>5, RequestKeeps
<1>9. CASE RestUpsert(c)
  <2> USE DEF exchange
  <2> DEFINE tf == rest[c].tf
             fresh == rest[c].fresh
             r == [rest[c] EXCEPT !.pc = "reply"]
  <2>1. /\ rest' = [rest EXCEPT ![c] = r] /\ UNCHANGED <<exchange, feed, poller>>
        /\ stored' = [stored EXCEPT ![tf] = @ \cup Run(fresh)]
        /\ symbolRow' = (symbolRow \/ Run(fresh) # {})
    BY <1>1, <1>9 DEF RestUpsert, UpsertCandles
  <2>2. r \in RequestStates /\ r.fresh.hi <= closed[r.tf]
    BY <1>1 DEF RequestStates
  <2>3. tf \in Timeframes /\ fresh \in Fetches /\ fresh.hi <= closed[tf]
    BY <1>1
  <2> HIDE DEF r, tf, fresh
  <2>4. /\ stored' \in [Timeframes -> SUBSET Nat]
        /\ \A g \in Timeframes : stored[g] \subseteq stored'[g]
        /\ StoredAreClosed' /\ AnnouncedAreStored' /\ FeedInOrder' /\ NoHoleNearAnnounced'
    BY <2>1, <2>3, MoreRows
  <2>5. symbolRow' \in BOOLEAN
    BY <2>1
  <2>6. rest' \in [Clients -> RequestStates]
    BY <1>1, <2>1, <2>2
  <2>7. TypeOK'
    BY <2>1, <2>4, <2>5, <2>6 DEF TypeOK
  <2>8. PollTf' = PollTf /\ PollTf \in Timeframes
    BY <2>1, PollTfType DEF PollTf
  <2>9. PollReachesBack' /\ PollIsNews'
    BY <2>1, <2>4, <2>8 DEF PollReachesBack, PollIsNews, Listed, InFlight
  <2>10. FetchedAreClosed'
    BY <1>1, <2>1, <2>2, <2>8 DEF FetchedAreClosed
  <2> QED BY <2>4, <2>7, <2>9, <2>10
<1>10. CASE RestReply(c)
  BY <1>5, <1>10, RequestKeeps DEF RestReply
<1>11. CASE RestFails(c)
  BY <1>5, <1>11, RequestKeeps DEF RestFails
<1> QED BY <1>6, <1>7, <1>8, <1>9, <1>10, <1>11 DEF RestStep

(* Failures, crash, restart and the end of the pause leave the poller with  *)
(* nothing fetched.                                                         *)
LEMMA PollerMovesKeep ==
    ASSUME FeedInv,
           \/ PollFetchFails \/ PollSymbolConflict \/ PollFails \/ PollWake
           \/ PollerCrash \/ PollerRestart
    PROVE  FeedInv'
<1>1. /\ UNCHANGED <<exchange, symbolRow, stored, rest>>
      /\ UNCHANGED feed
      /\ \/ NextTimeframe \/ AbortRound \/ poller' = PollerStart
         \/ poller' = [PollerStart EXCEPT !.pc = "down"]
  BY DEF PollFetchFails, PollSymbolConflict, PollFails, PollWake, PollerCrash,
         PollerRestart, database
<1>2. poller' \in PollerStates /\ Rested(poller')
  BY <1>1, PollerResets DEF FeedInv
<1>3. TypeOK'
  BY <1>1, <1>2 DEF FeedInv, TypeOK, exchange
<1> QED BY <1>1, <1>2, <1>3, RestedKeeps DEF Rested

(* Every step of the feed preserves the inductive invariant. *)
THEOREM FeedStepKeeps == FeedInv /\ [Next]_feedVars => FeedInv'
<1> SUFFICES ASSUME FeedInv, [Next]_feedVars PROVE FeedInv'
  OBVIOUS
<1>1. CASE ExchangeStep
  BY <1>1, ExchangeKeeps
<1>2. CASE PollerStep
  <2>1. ASSUME NEW tf \in Timeframes,
               PollFetch(tf) \/ PollFindSymbol(tf) \/ PollUpsert(tf) \/ PollPublish(tf)
        PROVE  FeedInv'
    BY <2>1, PollFetchKeeps, PollFindSymbolKeeps, PollUpsertKeeps, PollPublishKeeps
  <2> QED BY <1>2, <2>1, PollerMovesKeep DEF PollerStep
<1>3. CASE PollerCrash \/ PollerRestart
  BY <1>3, PollerMovesKeep
<1>4. ASSUME NEW c \in Clients, RestStep(c) PROVE FeedInv'
  BY <1>4, RestKeeps
<1>5. CASE UNCHANGED feedVars
  BY <1>5 DEF feedVars, FeedInv, TypeOK, StoredAreClosed, AnnouncedAreStored, FeedInOrder,
              FetchedAreClosed, PollReachesBack, NoHoleNearAnnounced, PollIsNews, PollTf,
              Listed, InFlight
<1> QED BY <1>1, <1>2, <1>3, <1>4, <1>5 DEF Next

(* The inductive invariant, hence type correctness, holds of every state. *)
THEOREM FeedInvariant == Spec => []FeedInv
<1>1. FeedInv /\ [Next]_feedVars => FeedInv'
  BY FeedStepKeeps
<1> QED BY <1>1, InitialFeed, PTL DEF Spec

(* The candles of a channel come in order and none comes twice, for every   *)
(* number of timeframes and clients, fetch count and candle span, through   *)
(* failures and crashes (candle_poller.py, _poll_symbol).                   *)
THEOREM CandlesInOrder == Spec => []FeedInOrder
<1>1. FeedInv => FeedInOrder
  BY DEF FeedInv
<1> QED BY <1>1, FeedInvariant, PTL

(* An announced candle is in the database (commit before publish). *)
THEOREM AnnouncedCandlesStored == Spec => []AnnouncedAreStored
<1>1. FeedInv => AnnouncedAreStored
  BY DEF FeedInv
<1> QED BY <1>1, FeedInvariant, PTL

(* No candle in flight is ever stored. *)
THEOREM ClosedCandlesOnly == Spec => []StoredAreClosed
<1>1. FeedInv => StoredAreClosed
  BY DEF FeedInv
<1> QED BY <1>1, FeedInvariant, PTL

(* Rows are never deleted, and belong to a row of symbols although the      *)
(* poller and the requests race to create it.                               *)
LEMMA RowsStay ==
    ASSUME TypeOK, RowsHaveSymbol, [Next]_feedVars
    PROVE  /\ RowsHaveSymbol'
           /\ \A tf \in Timeframes : stored[tf] \subseteq stored'[tf]
<1> USE DEF database
<1>1. CASE UNCHANGED database
  BY <1>1 DEF RowsHaveSymbol
<1>2. ASSUME NEW saw, NEW tf \in Timeframes, NEW fresh, UpsertCandles(saw, tf, fresh)
      PROVE  /\ RowsHaveSymbol'
             /\ \A g \in Timeframes : stored[g] \subseteq stored'[g]
  <2>1. /\ stored' = [stored EXCEPT ![tf] = stored[tf] \cup Run(fresh)]
        /\ symbolRow' = (symbolRow \/ Run(fresh) # {})
    BY <1>2 DEF UpsertCandles
  <2>2. stored \in [Timeframes -> SUBSET Nat]
    BY DEF TypeOK
  <2>3. \A g \in Timeframes :
           stored'[g] = IF g = tf THEN stored[tf] \cup Run(fresh) ELSE stored[g]
    BY <2>1, <2>2
  <2>4. \A g \in Timeframes : stored[g] \subseteq stored'[g]
    BY <2>3
  <2>5. ASSUME NEW g \in Timeframes, stored'[g] # {} PROVE symbolRow'
    <3>1. stored[g] # {} \/ Run(fresh) # {}
      BY <2>3, <2>5
    <3> QED BY <3>1, <2>1 DEF RowsHaveSymbol
  <2> QED BY <2>4, <2>5 DEF RowsHaveSymbol
<1>3. CASE ExchangeStep
  BY <1>1, <1>3 DEF ExchangeStep
<1>4. ASSUME NEW tf \in Timeframes,
             PollFetch(tf) \/ PollFindSymbol(tf) \/ PollPublish(tf)
      PROVE  UNCHANGED database
  BY <1>4 DEF PollFetch, PollFindSymbol, PollPublish
<1>5. ASSUME NEW tf \in Timeframes, PollUpsert(tf)
      PROVE  UpsertCandles(poller.saw, tf, poller.fresh)
  BY <1>5 DEF PollUpsert
<1>6. CASE PollerStep
  <2>1. PollFetchFails \/ PollSymbolConflict \/ PollFails \/ PollWake => UNCHANGED database
    BY DEF PollFetchFails, PollSymbolConflict, PollFails, PollWake
  <2> QED BY <2>1, <1>1, <1>2, <1>4, <1>5, <1>6 DEF PollerStep
<1>7. CASE PollerCrash \/ PollerRestart
  BY <1>1, <1>7 DEF PollerCrash, PollerRestart
<1>8. ASSUME NEW c \in Clients, RestStep(c)
      PROVE  /\ RowsHaveSymbol'
             /\ \A tf \in Timeframes : stored[tf] \subseteq stored'[tf]
  <2>1. CASE RestUpsert(c)
    <3>1. rest[c].tf \in Timeframes
      BY DEF TypeOK, RequestStates
    <3> QED BY <2>1, <3>1, <1>2 DEF RestUpsert
  <2>2. CASE ~RestUpsert(c)
    <3>1. UNCHANGED database
      BY <1>8, <2>2 DEF RestStep, RestList, RestFetch, RestFindSymbol, RestReply, RestFails
    <3> QED BY <3>1, <1>1
  <2> QED BY <2>1, <2>2
<1>9. CASE UNCHANGED feedVars
  BY <1>1, <1>9 DEF feedVars
<1> QED BY <1>3, <1>6, <1>7, <1>8, <1>9 DEF Next

-----------------------------------------------------------------------------
(* The feed implements FeedLog. *)

(* A transaction of upsert_candles is a Store of the log. *)
LEMMA UpsertIsStore ==
    ASSUME FeedInv, NEW tf \in Timeframes, NEW fresh \in Fetches, fresh.hi <= closed[tf],
           NEW saw, UpsertCandles(saw, tf, fresh), UNCHANGED <<closed, feed>>
    PROVE  Log!Store(tf)
<1>1. closed[tf] \in Nat /\ fresh.lo \in Nat \ {0} /\ fresh.hi \in Nat
  BY DEF FeedInv, TypeOK, Fetches
<1>2. Run(fresh) \in SUBSET (1..closed[tf])
  BY <1>1 DEF Run
<1>3. stored' = [stored EXCEPT ![tf] = @ \cup Run(fresh)]
  BY DEF UpsertCandles
<1> QED BY <1>2, <1>3 DEF Log!Store

(* The end of a base period is a Close of the log. *)
LEMMA EndOfPeriodIsClose ==
    ASSUME TypeOK, EndOfPeriod, UNCHANGED <<stored, feed>>
    PROVE  Log!Close
<1> DEFINE S == {tf \in Timeframes : age[tf] + 1 = Span[tf]}
<1>1. closed' = [tf \in Timeframes |-> closed[tf] + IF tf \in S THEN 1 ELSE 0]
  <2>1. \A tf \in Timeframes : closed[tf] \in Nat
    BY DEF TypeOK
  <2>2. ASSUME NEW tf \in Timeframes
        PROVE  (IF age[tf] + 1 = Span[tf] THEN closed[tf] + 1 ELSE closed[tf])
                  = closed[tf] + IF tf \in S THEN 1 ELSE 0
    BY <2>1
  <2> HIDE DEF S
  <2> QED BY <2>2, Zenon DEF EndOfPeriod
<1>2. S \in SUBSET Timeframes
  OBVIOUS
<1> HIDE DEF S
<1> QED BY <1>1, <1>2 DEF Log!Close

(* A publication of the poller is an Announce of the log. *)
LEMMA PublishIsAnnounce ==
    ASSUME FeedInv, NEW tf \in Timeframes, PollPublish(tf)
    PROVE  Log!Announce(tf)
<1> DEFINE hi == poller.fresh.hi
<1>1. /\ PollTf = tf /\ poller.pc = "publish"
      /\ feed' = [feed EXCEPT ![tf] = Append(@, hi)]
      /\ UNCHANGED <<closed, stored>>
  BY DEF PollPublish, exchange, database
<1>2. poller.fresh.lo <= hi /\ Run(poller.fresh) \subseteq stored[tf]
  BY <1>1 DEF FeedInv, PollReachesBack, PollIsNews
<1>3. poller.fresh.lo \in Nat /\ hi \in Nat
  BY DEF FeedInv, TypeOK, PollerStates, Fetches
<1>4. hi \in stored[tf]
  BY <1>2, <1>3 DEF Run
<1>5. \A i \in 1..Len(feed[tf]) : feed[tf][i] < hi
  BY <1>1 DEF FeedInv, PollIsNews
<1> HIDE DEF hi
<1> QED BY <1>1, <1>4, <1>5 DEF Log!Announce

(* Every step of the feed is a step of the log, or leaves it alone. *)
LEMMA FeedStepIsLogStep == FeedInv /\ [Next]_feedVars => [Log!LogNext]_(Log!logVars)
<1> SUFFICES ASSUME FeedInv, [Next]_feedVars
             PROVE  Log!LogNext \/ UNCHANGED <<closed, stored, feed>>
  BY DEF Log!logVars
<1>1. CASE ExchangeStep
  <2>1. UNCHANGED <<stored, feed>>
    BY <1>1 DEF ExchangeStep, database
  <2>2. CASE Tick
    BY <2>1, <2>2 DEF Tick
  <2>3. CASE EndOfPeriod
    BY <2>1, <2>3, EndOfPeriodIsClose DEF FeedInv, Log!LogNext
  <2> QED BY <1>1, <2>2, <2>3 DEF ExchangeStep
<1>2. ASSUME NEW tf \in Timeframes, PollUpsert(tf)
      PROVE  Log!LogNext
  <2>1. poller.fresh \in Fetches /\ poller.fresh.hi <= closed[tf]
    BY <1>2 DEF PollUpsert, FeedInv, TypeOK, PollerStates, FetchedAreClosed
  <2>2. UpsertCandles(poller.saw, tf, poller.fresh) /\ UNCHANGED <<closed, feed>>
    BY <1>2 DEF PollUpsert, exchange
  <2>3. Log!Store(tf)
    BY <2>1, <2>2, UpsertIsStore
  <2> QED BY <2>3 DEF Log!LogNext
<1>3. ASSUME NEW tf \in Timeframes, PollPublish(tf)
      PROVE  Log!LogNext
  BY <1>3, PublishIsAnnounce DEF Log!LogNext
<1>4. ASSUME NEW tf \in Timeframes, PollFetch(tf) \/ PollFindSymbol(tf)
      PROVE  UNCHANGED <<closed, stored, feed>>
  BY <1>4 DEF PollFetch, PollFindSymbol, exchange, database
<1>5. CASE \/ PollFetchFails \/ PollSymbolConflict \/ PollFails \/ PollWake
           \/ PollerCrash \/ PollerRestart
  BY <1>5 DEF PollFetchFails, PollSymbolConflict, PollFails, PollWake, PollerCrash,
              PollerRestart, exchange, database
<1>6. ASSUME NEW c \in Clients, RestUpsert(c)
      PROVE  Log!LogNext
  <2>1. /\ rest[c].tf \in Timeframes /\ rest[c].fresh \in Fetches
        /\ rest[c].fresh.hi <= closed[rest[c].tf]
    BY DEF FeedInv, TypeOK, RequestStates, FetchedAreClosed
  <2>2. /\ UpsertCandles(rest[c].saw, rest[c].tf, rest[c].fresh)
        /\ UNCHANGED <<closed, feed>>
    BY <1>6 DEF RestUpsert, exchange
  <2>3. Log!Store(rest[c].tf)
    BY <2>1, <2>2, UpsertIsStore
  <2> QED BY <2>1, <2>3 DEF Log!LogNext
<1>7. ASSUME NEW c \in Clients, RestStep(c), ~RestUpsert(c)
      PROVE  UNCHANGED <<closed, stored, feed>>
  BY <1>7 DEF RestStep, RestList, RestFetch, RestFindSymbol, RestReply, RestFails,
              exchange, database
<1>8. CASE UNCHANGED feedVars
  BY <1>8 DEF feedVars
<1>9. CASE PollerStep
  BY <1>2, <1>3, <1>4, <1>5, <1>9 DEF PollerStep
<1> QED BY <1>1, <1>5, <1>6, <1>7, <1>8, <1>9 DEF Next

(* For every reader of market_data and of the candle channels, the poller,  *)
(* the requests that backfill and their failures are FeedLog: rows of       *)
(* closed candles that stay, and announcements of rows in order             *)
(* (candle_poller.py, market.py, repositories/market_data.py).              *)
THEOREM FeedRefinesLog == Spec => ImplementsLog
<1>1. Init => Log!LogInit
  BY DEF Init, Log!LogInit
<1>2. FeedInv /\ [Next]_feedVars => [Log!LogNext]_(Log!logVars)
  BY FeedStepIsLogStep
<1> QED BY <1>1, <1>2, FeedInvariant, PTL DEF Spec, ImplementsLog, Log!LogSpec

-----------------------------------------------------------------------------
(* The signal worker.                                                      *)

(* list_candles returns stored rows, and the newest of them among others. *)
LEMMA ListReturnsNewest ==
    ASSUME TypeOK, StoredAreClosed, NEW tf \in Timeframes, NEW limit \in Nat \ {0}
    PROVE  /\ ListCandles(tf, limit) \subseteq stored[tf]
           /\ \A j \in stored[tf] : \E k \in ListCandles(tf, limit) : k >= j
<1>1. ListCandles(tf, limit) \subseteq stored[tf]
  BY DEF ListCandles
<1>2. ASSUME NEW j \in stored[tf]
      PROVE  \E k \in ListCandles(tf, limit) : k >= j
  <2>1. /\ 0 \in Int /\ closed[tf] \in Int
        /\ stored[tf] \subseteq 0..closed[tf] /\ stored[tf] # {}
    BY <1>2 DEF TypeOK, StoredAreClosed
  <2>2. PICK k \in stored[tf] : \A i \in stored[tf] : i <= k
    BY <2>1, GreatestElement
  <2>3. {i \in stored[tf] : i > k} = {}
    BY <2>1, <2>2
  <2>4. Cardinality({i \in stored[tf] : i > k}) = 0
    BY <2>3, FS_EmptySet
  <2>5. k \in ListCandles(tf, limit)
    BY <2>2, <2>4 DEF ListCandles
  <2> QED BY <2>1, <2>2, <2>5
<1> QED BY <1>1, <1>2

-----------------------------------------------------------------------------
(* Every step of the pipeline is a step of the feed, or leaves it alone.    *)
THEOREM PipelineIsFeed == PipelineSpec => Spec
<1>1. PipelineInit => Init
  BY DEF PipelineInit
<1>2. [PipelineNext]_vars => [Next]_feedVars
  BY DEF PipelineNext, vars, FeedStep, WorkerStep, WorkerSubscribe, WorkerReceive, WorkerLoad,
         WorkerPersist, WorkerPush, WorkerFails, Resubscribe, ConnectionBreaks, Crash, Restart, Next
<1> QED BY <1>1, <1>2, PTL DEF PipelineSpec, Spec

(* The worker process starts in the invariant of the pipeline.              *)
THEOREM InitialPipeline == PipelineInit => PipelineInv
<1> SUFFICES ASSUME PipelineInit PROVE PipelineInv
  OBVIOUS
<1>1. TypeOK
  BY InitialFeed DEF PipelineInit, FeedInv
<1>2. worker = [pc |-> "subscribe", at |-> 1] /\ Len(LoadOrder) \in Nat /\ 1 <= Len(LoadOrder)
  BY PipelineAssumption DEF PipelineAssumption, PipelineInit, WorkerAt
<1>3. PipelineTypeOK
  <2>1. worker \in WorkerStates
    BY <1>2 DEF WorkerStates
  <2> QED BY <1>1, <2>1 DEF PipelineInit, PipelineTypeOK
<1>4. RowsHaveSymbol
  BY DEF PipelineInit, Init, RowsHaveSymbol
<1>5. ~TriggerRead /\ CoveredBySignal /\ PushedArePersisted
  BY <1>2 DEF PipelineInit, TriggerRead, CoveredBySignal, PushedArePersisted
<1>6. \A tf \in Timeframes : loaded[tf] \subseteq stored[tf]
  BY DEF PipelineInit
<1> QED BY <1>2, <1>3, <1>4, <1>5, <1>6 DEF PipelineInv

-----------------------------------------------------------------------------
(* The constants of the signal worker, unpacked.                            *)
LEMMA LoadOrderTypes ==
    /\ Len(LoadOrder) \in Nat \ {0} /\ 1 \in 1..Len(LoadOrder)
    /\ \A i \in 1..Len(LoadOrder) : LoadOrder[i] \in Timeframes
    /\ \E i \in 1..Len(LoadOrder) : LoadOrder[i] = Trigger
    /\ Trigger \in Timeframes
    /\ MinHistory \in Nat \ {0} /\ History \in Nat \ {0}
    /\ Required \subseteq Timeframes /\ Required # {}
BY PipelineAssumption DEF PipelineAssumption

(* What the control state of the worker looks like.                         *)
LEMMA WorkerAtType ==
    ASSUME NEW pc \in {"down", "subscribe", "listen", "load", "persist", "push"}
    PROVE  WorkerAt(pc) \in WorkerStates /\ WorkerAt(pc).pc = pc /\ WorkerAt(pc).at = 1
BY LoadOrderTypes DEF WorkerAt, WorkerStates

(* A step of the feed can only add rows and messages. *)
LEMMA FeedStepKeepsPipeline ==
    ASSUME PipelineInv, FeedInv', FeedStep
    PROVE  PipelineInv'
<1> USE DEF PipelineInv
<1>1. [Next]_feedVars /\ TypeOK
  BY DEF FeedStep, Next, PipelineTypeOK
<1>2. RowsHaveSymbol' /\ \A tf \in Timeframes : stored[tf] \subseteq stored'[tf]
  BY <1>1, RowsStay
<1>3. UNCHANGED <<worker, loaded, missed, signals, pushed, connected>> /\ Deliver
  BY DEF FeedStep
<1>4. waiting' \in Nat
  BY <1>3 DEF Deliver, PipelineTypeOK
<1>5. PipelineTypeOK'
  BY <1>3, <1>4 DEF PipelineTypeOK, FeedInv
<1>6. ASSUME connected', waiting' = 0, TriggerRead'
      PROVE  \A i \in 1..Len(feed'[Trigger]) : \E k \in loaded'[Trigger] : k >= feed'[Trigger][i]
  <2>1. TriggerRead /\ Subscribed
    BY <1>3, <1>6 DEF TriggerRead, Subscribed
  <2>0. connected
    BY <1>3, <1>6, Zenon
  <2>2. waiting = 0 /\ feed'[Trigger] = feed[Trigger]
    <3>1. waiting' = IF feed'[Trigger] # feed[Trigger] THEN waiting + 1 ELSE waiting
      BY <1>3, <2>0, <2>1, Zenon DEF Deliver
    <3>2. waiting \in Nat /\ waiting' = 0
      BY <1>6 DEF PipelineTypeOK
    <3>3. CASE feed'[Trigger] # feed[Trigger]
      <4>1. waiting + 1 = 0
        BY <3>1, <3>2, <3>3, Zenon
      <4> QED BY ONLY <4>1, <3>2
    <3>4. CASE feed'[Trigger] = feed[Trigger]
      <4>1. waiting' = waiting
        BY <3>1, <3>4, Zenon
      <4> QED BY <3>2, <3>4, <4>1, Zenon
    <3> QED BY <3>3, <3>4, Zenon
  <2>3. \A i \in 1..Len(feed[Trigger]) : \E k \in loaded[Trigger] : k >= feed[Trigger][i]
    BY <2>0, <2>1, <2>2, Zenon
  <2>4. loaded' = loaded
    BY <1>3
  <2> QED BY <2>2, <2>3, <2>4, Zenon
<1>7. \A tf \in Timeframes : loaded'[tf] \subseteq stored'[tf]
  BY <1>2, <1>3
<1>8. EnoughHistory(loaded)' = EnoughHistory(loaded) /\ Basis' = Basis
  BY <1>3 DEF EnoughHistory, Basis
<1>9. CoveredBySignal' /\ PushedArePersisted'
  BY <1>3, <1>8 DEF CoveredBySignal, PushedArePersisted
<1> QED BY <1>2, <1>3, <1>5, <1>6, <1>7, <1>8, <1>9

(* The beginning of a handler preserves the invariant.                      *)
LEMMA SubscribeAndReceiveKeep ==
    ASSUME PipelineInv, WorkerSubscribe \/ WorkerReceive
    PROVE  PipelineInv'
<1> USE DEF PipelineInv
<1>1. UNCHANGED <<feedVars, loaded, missed, signals, pushed, connected>> /\ worker' = WorkerAt("load")
  BY DEF WorkerSubscribe, WorkerReceive
<1>2. worker' \in WorkerStates /\ worker'.pc = "load" /\ worker'.at = 1
  BY <1>1, WorkerAtType
<1>3. waiting' \in Nat
  BY DEF WorkerSubscribe, WorkerReceive, PipelineTypeOK
<1>4. PipelineTypeOK' /\ RowsHaveSymbol'
  BY <1>1, <1>2, <1>3 DEF PipelineTypeOK, TypeOK, feedVars, RowsHaveSymbol
<1>5. ~TriggerRead'
  BY <1>2 DEF TriggerRead
<1>6. CoveredBySignal' /\ PushedArePersisted'
  BY <1>1, <1>2 DEF CoveredBySignal, PushedArePersisted
<1>7. \A tf \in Timeframes : loaded'[tf] \subseteq stored'[tf]
  BY <1>1 DEF feedVars
<1> QED BY <1>2, <1>4, <1>5, <1>6, <1>7

(* An exception, a crash or a restart preserves the invariant.              *)
LEMMA FailureKeeps ==
    ASSUME PipelineInv, FeedInv', WorkerFails \/ Crash \/ Restart
    PROVE  PipelineInv'
<1> USE DEF PipelineInv
<1>1. /\ UNCHANGED <<symbolRow, stored, loaded, signals, pushed>>
      /\ \/ worker' = WorkerAt("listen") /\ missed' = TRUE
         \/ worker' = WorkerAt("down") /\ missed' = missed
         \/ worker' = WorkerAt("subscribe") /\ missed' = missed
  BY DEF WorkerFails, Crash, Restart, PollerCrash, PollerRestart, database, feedVars
<1>2. /\ worker' \in WorkerStates /\ missed' \in BOOLEAN
      /\ (worker'.pc = "listen" /\ missed') \/ worker'.pc \in {"down", "subscribe"}
  BY <1>1, WorkerAtType DEF PipelineTypeOK
<1>3. waiting' \in Nat /\ connected' \in BOOLEAN
  <2>1. waiting' \in Nat
    BY DEF WorkerFails, Crash, Restart, PipelineTypeOK
  <2>2. connected' = connected \/ connected' = TRUE
    BY Zenon DEF WorkerFails, Crash, Restart
  <2>3. connected' \in BOOLEAN
    BY <2>2, Zenon DEF PipelineTypeOK
  <2> QED BY <2>1, <2>3
<1>4. PipelineTypeOK'
  BY <1>1, <1>2, <1>3 DEF PipelineTypeOK, FeedInv
<1>5. ~TriggerRead' /\ CoveredBySignal'
  BY <1>2 DEF TriggerRead, CoveredBySignal
<1>6. RowsHaveSymbol' /\ PushedArePersisted'
  BY <1>1 DEF RowsHaveSymbol, PushedArePersisted
<1> QED BY <1>1, <1>2, <1>4, <1>5, <1>6

(* Losing the connection to Redis, or repairing it, preserves the           *)
(* invariant: what was announced in between counts as missed.               *)
LEMMA ConnectionKeeps ==
    ASSUME PipelineInv, ConnectionBreaks \/ Resubscribe
    PROVE  PipelineInv'
<1> USE DEF PipelineInv
<1>1. /\ UNCHANGED <<feedVars, worker, loaded, signals, pushed>>
      /\ \/ connected' = FALSE /\ waiting' = 0 /\ missed' = missed
         \/ /\ worker.pc = "listen" /\ connected' = TRUE
            /\ waiting' = waiting /\ missed' = TRUE
  BY DEF ConnectionBreaks, Resubscribe
<1>2. PipelineTypeOK' /\ RowsHaveSymbol' /\ PushedArePersisted'
  <2>1. connected' \in BOOLEAN /\ missed' \in BOOLEAN
    BY <1>1, Zenon DEF PipelineTypeOK
  <2>2. waiting' \in Nat
    BY <1>1 DEF PipelineTypeOK
  <2>3. PipelineTypeOK'
    BY <1>1, <2>1, <2>2 DEF PipelineTypeOK, TypeOK, feedVars
  <2> QED BY <1>1, <2>3 DEF feedVars, RowsHaveSymbol, PushedArePersisted
<1>3. ~connected' \/ ~TriggerRead'
  BY <1>1 DEF TriggerRead
<1>4. EnoughHistory(loaded)' = EnoughHistory(loaded) /\ Basis' = Basis
  BY <1>1 DEF EnoughHistory, Basis
<1>5. CoveredBySignal'
  BY <1>1, <1>4 DEF CoveredBySignal
<1> QED BY <1>1, <1>2, <1>3, <1>4, <1>5 DEF feedVars

(* One query of _load_recent_candles preserves the invariant.               *)
LEMMA LoadKeeps ==
    ASSUME PipelineInv, StoredAreClosed, AnnouncedAreStored, WorkerLoad
    PROVE  PipelineInv'
<1> USE DEF PipelineInv
<1> DEFINE tf == LoadOrder[worker.at]
           rows == [loaded EXCEPT ![tf] = ListCandles(tf, History)]
           last == worker.at = Len(LoadOrder)
<1>1. /\ UNCHANGED <<feedVars, waiting, signals, pushed, connected>>
      /\ worker.pc = "load" /\ loaded' = rows
      /\ worker' = IF ~last THEN [worker EXCEPT !.at = @ + 1]
                   ELSE IF EnoughHistory(rows) THEN WorkerAt("persist")
                   ELSE WorkerAt("listen")
      /\ missed' = (missed /\ ~(last /\ ~EnoughHistory(rows)))
  BY DEF WorkerLoad
<1>2. worker \in WorkerStates /\ worker.at \in 1..Len(LoadOrder) /\ tf \in Timeframes
  BY LoadOrderTypes DEF PipelineTypeOK, WorkerStates
<1>3. /\ ListCandles(tf, History) \subseteq stored[tf]
      /\ \A j \in stored[tf] : \E k \in ListCandles(tf, History) : k >= j
  BY <1>2, LoadOrderTypes, ListReturnsNewest DEF PipelineTypeOK
<1>4. /\ loaded \in [Timeframes -> SUBSET Nat] /\ stored \in [Timeframes -> SUBSET Nat]
      /\ feed \in [Timeframes -> Seq(Nat)] /\ Trigger \in Timeframes
  BY LoadOrderTypes DEF PipelineTypeOK, TypeOK
<1>5. \A g \in Timeframes : loaded'[g] = IF g = tf THEN ListCandles(tf, History) ELSE loaded[g]
  BY <1>1, <1>2, <1>4
<1>6. loaded' \in [Timeframes -> SUBSET Nat]
  BY <1>1, <1>2, <1>3, <1>4
<1>7. \A g \in Timeframes : loaded'[g] \subseteq stored'[g]
  BY <1>1, <1>3, <1>5 DEF feedVars
<1> HIDE DEF rows
<1>8. /\ worker' \in WorkerStates /\ missed' \in BOOLEAN
      /\ \/ ~last /\ worker'.pc = "load" /\ worker'.at = worker.at + 1
         \/ last /\ EnoughHistory(rows) /\ worker'.pc = "persist"
         \/ last /\ ~EnoughHistory(rows) /\ worker'.pc = "listen"
  <2>1. CASE ~last
    <3>1. worker' = [worker EXCEPT !.at = worker.at + 1] /\ worker.at + 1 \in 1..Len(LoadOrder)
      BY <1>1, <1>2, <2>1, LoadOrderTypes
    <3> QED BY <3>1, <1>1, <1>2, <2>1 DEF WorkerStates, PipelineTypeOK
  <2>2. CASE last
    BY <1>1, <2>2, WorkerAtType DEF PipelineTypeOK
  <2> QED BY <2>1, <2>2
<1>9. PipelineTypeOK' /\ RowsHaveSymbol' /\ PushedArePersisted'
  BY <1>1, <1>6, <1>8 DEF PipelineTypeOK, TypeOK, feedVars, RowsHaveSymbol, PushedArePersisted
<1>10. ASSUME TriggerRead'
       PROVE  \E i \in 1..worker.at : LoadOrder[i] = Trigger
  <2>1. CASE ~last
    <3>1. worker'.pc = "load" /\ worker'.at = worker.at + 1
      BY <1>8, <2>1
    <3> QED BY <3>1, <1>2, <1>10 DEF TriggerRead
  <2>2. CASE last
    BY <2>2, LoadOrderTypes
  <2> QED BY <2>1, <2>2
<1>11. ASSUME connected', waiting' = 0, TriggerRead', NEW i \in 1..Len(feed'[Trigger])
       PROVE  \E k \in loaded'[Trigger] : k >= feed'[Trigger][i]
  <2>1. feed' = feed /\ connected /\ waiting = 0 /\ feed[Trigger][i] \in stored[Trigger]
    BY <1>1, <1>4, <1>11 DEF feedVars, AnnouncedAreStored
  <2>2. CASE tf = Trigger
    BY <2>1, <2>2, <1>3, <1>4, <1>5
  <2>3. CASE tf # Trigger
    <3>1. PICK n \in 1..worker.at : LoadOrder[n] = Trigger
      BY <1>10, <1>11
    <3>2. n \in 1..(worker.at - 1)
      BY <3>1, <2>3, <1>2
    <3>3. TriggerRead
      BY <3>1, <3>2, <1>1 DEF TriggerRead
    <3> QED BY <2>1, <2>3, <3>3, <1>4, <1>5
  <2> QED BY <2>2, <2>3
<1>12. worker'.pc \in {"persist", "push"} => EnoughHistory(loaded')
  BY <1>1, <1>8
<1>13. CoveredBySignal' /\ worker'.pc # "push"
  <2>1. EnoughHistory(loaded)' <=> EnoughHistory(rows)
    BY <1>1 DEF EnoughHistory
  <2> QED BY <2>1, <1>8 DEF CoveredBySignal
<1>14. EnoughHistory(loaded)' = EnoughHistory(loaded')
  BY DEF EnoughHistory
<1> QED BY <1>7, <1>9, <1>11, <1>12, <1>13, <1>14

(* A signal names one candle, or none, of each timeframe.                   *)
LEMMA BasisType ==
    ASSUME PipelineInv, StoredAreClosed
    PROVE  Basis \in [Timeframes -> Nat]
<1> SUFFICES ASSUME NEW tf \in Timeframes PROVE Newest(loaded[tf]) \in Nat
  BY DEF Basis
<1>1. closed[tf] \in Nat /\ loaded[tf] \subseteq 0..closed[tf]
  BY DEF PipelineInv, PipelineTypeOK, TypeOK, StoredAreClosed
<1>2. CASE loaded[tf] = {}
  BY <1>2 DEF Newest
<1>3. CASE loaded[tf] # {}
  <2>1. \E k \in loaded[tf] : \A j \in loaded[tf] : j <= k
    <3>1. 0 \in Int /\ closed[tf] \in Int
      BY <1>1
    <3> QED BY <1>1, <1>3, <3>1, GreatestElement
  <2>2. Newest(loaded[tf]) \in loaded[tf]
    BY <1>3, <2>1 DEF Newest
  <2> QED BY <1>1, <2>2
<1> QED BY <1>2, <1>3

(* SignalRepository.insert preserves the invariant: the symbol exists.      *)
LEMMA PersistKeeps ==
    ASSUME PipelineInv, StoredAreClosed, WorkerPersist
    PROVE  PipelineInv'
<1> USE DEF PipelineInv
<1>1. /\ UNCHANGED <<feedVars, loaded, waiting, missed, pushed, connected>>
      /\ worker.pc = "persist" /\ worker' = WorkerAt("push")
      /\ signals' = IF symbolRow THEN signals \cup {Basis} ELSE signals
  BY DEF WorkerPersist
<1>2. worker' \in WorkerStates /\ worker'.pc = "push"
  BY <1>1, WorkerAtType
<1>3. symbolRow
  <2>1. PICK tf \in Required : Cardinality(loaded[tf]) >= MinHistory
    BY <1>1, LoadOrderTypes DEF EnoughHistory
  <2>2. loaded[tf] # {}
    <3> SUFFICES ASSUME loaded[tf] = {} PROVE FALSE
      OBVIOUS
    <3>1. Cardinality(loaded[tf]) = 0
      BY FS_EmptySet, Zenon
    <3> QED BY <3>1, <2>1, LoadOrderTypes
  <2> QED BY <2>2, LoadOrderTypes DEF RowsHaveSymbol
<1>4. signals' = signals \cup {Basis}
  BY <1>1, <1>3
<1>5. PipelineTypeOK'
  BY <1>1, <1>2, <1>4, BasisType DEF PipelineTypeOK, TypeOK, feedVars
<1>6. EnoughHistory(loaded)' = EnoughHistory(loaded) /\ Basis' = Basis
  BY <1>1 DEF EnoughHistory, Basis
<1>7. TriggerRead
  BY <1>1 DEF TriggerRead
<1>8. RowsHaveSymbol' /\ CoveredBySignal' /\ PushedArePersisted'
  BY <1>1, <1>2, <1>4 DEF RowsHaveSymbol, feedVars, CoveredBySignal, PushedArePersisted
<1> QED BY <1>1, <1>2, <1>4, <1>5, <1>6, <1>7, <1>8 DEF feedVars

(* The publication of the signal preserves the invariant.                   *)
LEMMA PushKeeps ==
    ASSUME PipelineInv, WorkerPush
    PROVE  PipelineInv'
<1> USE DEF PipelineInv
<1>1. /\ UNCHANGED <<feedVars, loaded, waiting, signals, connected>>
      /\ worker.pc = "push" /\ worker' = WorkerAt("listen")
      /\ missed' = FALSE /\ pushed' = pushed \cup {Basis}
  BY DEF WorkerPush
<1>2. worker' \in WorkerStates /\ worker'.pc = "listen"
  BY <1>1, WorkerAtType
<1>3. Basis \in signals
  BY <1>1
<1>4. PipelineTypeOK'
  BY <1>1, <1>2, <1>3 DEF PipelineTypeOK, TypeOK, feedVars
<1>5. EnoughHistory(loaded)' = EnoughHistory(loaded) /\ Basis' = Basis
  BY <1>1 DEF EnoughHistory, Basis
<1>6. TriggerRead
  BY <1>1 DEF TriggerRead
<1>7. RowsHaveSymbol' /\ CoveredBySignal' /\ PushedArePersisted'
  BY <1>1, <1>2, <1>3, <1>5 DEF RowsHaveSymbol, feedVars, CoveredBySignal, PushedArePersisted
<1> QED BY <1>1, <1>2, <1>4, <1>5, <1>6, <1>7 DEF feedVars

(* Every step of the pipeline preserves its invariant. *)
THEOREM PipelineStepKeeps ==
    PipelineInv /\ FeedInv /\ FeedInv' /\ [PipelineNext]_vars => PipelineInv'
<1> SUFFICES ASSUME PipelineInv, FeedInv, FeedInv', [PipelineNext]_vars
             PROVE  PipelineInv'
  OBVIOUS
<1>1. StoredAreClosed /\ AnnouncedAreStored
  BY DEF FeedInv
<1>2. CASE FeedStep
  BY <1>2, FeedStepKeepsPipeline
<1>3. CASE WorkerStep
  BY <1>1, <1>3, SubscribeAndReceiveKeep, ConnectionKeeps, LoadKeeps, PersistKeeps, PushKeeps
     DEF WorkerStep
<1>4. CASE WorkerFails \/ Crash \/ Restart
  BY <1>4, FailureKeeps
<1>5. CASE UNCHANGED vars
  BY <1>5 DEF vars, workerVars, feedVars, PipelineInv, PipelineTypeOK, TypeOK, RowsHaveSymbol,
              TriggerRead, EnoughHistory, Basis, CoveredBySignal, PushedArePersisted
<1>6. CASE ConnectionBreaks
  BY <1>6, ConnectionKeeps
<1> QED BY <1>2, <1>3, <1>4, <1>5, <1>6 DEF PipelineNext

(* The pipeline never leaves its invariant (signal_worker.py).              *)
THEOREM PipelineInvariant == PipelineSpec => []PipelineInv
<1>1. PipelineInv /\ FeedInv /\ FeedInv' /\ [PipelineNext]_vars => PipelineInv'
  BY PipelineStepKeeps
<1>2. PipelineSpec => []FeedInv
  BY PipelineIsFeed, FeedInvariant
<1> QED BY <1>1, <1>2, InitialPipeline, PTL DEF PipelineSpec

(* No announced 15m candle escapes the signal worker: it subscribes before  *)
(* its first analysis, and every message waits for an analysis of its own   *)
(* (signal_worker.py, run_signal_worker).                                   *)
THEOREM NoTriggerLost == PipelineSpec => []Covered
<1>1. PipelineInv => Covered
  BY DEF PipelineInv, Covered, TriggerRead
<1> QED BY <1>1, PipelineInvariant, PTL

(* An analysis that did not fail leaves its signal published. *)
THEOREM AnalysesArePushed == PipelineSpec => []CoveredBySignal
<1>1. PipelineInv => CoveredBySignal
  BY DEF PipelineInv
<1> QED BY <1>1, PipelineInvariant, PTL

(* What is pushed can be read back: insert before publish, and the          *)
(* "symbol not found" branch is dead (signal_worker.py,                     *)
(* _handle_candle_event).                                                   *)
THEOREM PushedSignalsPersisted == PipelineSpec => []PushedArePersisted
<1>1. PipelineInv => PushedArePersisted
  BY DEF PipelineInv
<1> QED BY <1>1, PipelineInvariant, PTL

-----------------------------------------------------------------------------
(* PushedInOrder, by OrderInv, on top of both invariants. *)

(* What a signal says of a timeframe is a stored candle of it. *)
LEMMA BasisIsStored ==
    ASSUME PipelineInv, StoredAreClosed, NEW tf \in Timeframes
    PROVE  /\ loaded[tf] = {} => Basis[tf] = 0
           /\ loaded[tf] # {} =>
                 /\ Basis[tf] \in loaded[tf] /\ Basis[tf] \in stored[tf]
                 /\ \A j \in loaded[tf] : j <= Basis[tf]
<1>1. closed[tf] \in Nat /\ loaded[tf] \subseteq 0..closed[tf] /\ loaded[tf] \subseteq stored[tf]
  BY DEF PipelineInv, PipelineTypeOK, TypeOK, StoredAreClosed
<1>2. Basis[tf] = Newest(loaded[tf])
  BY DEF Basis
<1>3. CASE loaded[tf] = {}
  BY <1>2, <1>3 DEF Newest
<1>4. CASE loaded[tf] # {}
  <2>1. \E k \in loaded[tf] : \A j \in loaded[tf] : j <= k
    <3>1. 0 \in Int /\ closed[tf] \in Int
      BY <1>1
    <3> QED BY <1>1, <1>4, <3>1, GreatestElement
  <2>2. Newest(loaded[tf]) \in loaded[tf] /\ \A j \in loaded[tf] : j <= Newest(loaded[tf])
    BY <1>4, <2>1 DEF Newest
  <2> QED BY <1>1, <1>2, <1>4, <2>2
<1> QED BY <1>3, <1>4

(* Steps that read nothing again and push nothing. *)
LEMMA OthersKeepOrder ==
    ASSUME OrderInv, \A tf \in Timeframes : stored[tf] \subseteq stored'[tf],
           loaded' = loaded, pushed' = pushed,
           \A tf \in Timeframes : Reread(tf)' => Reread(tf)
    PROVE  OrderInv'
BY DEF OrderInv, LoadedTf

(* One query of _load_recent_candles preserves the order of signals.        *)
LEMMA LoadKeepsOrder ==
    ASSUME PipelineInv, StoredAreClosed, OrderInv, WorkerLoad
    PROVE  OrderInv'
<1> DEFINE read == LoadOrder[worker.at]
<1>1. /\ stored' = stored /\ pushed' = pushed /\ worker.pc = "load"
      /\ loaded' = [loaded EXCEPT ![read] = ListCandles(read, History)]
      /\ \/ worker' = [worker EXCEPT !.at = @ + 1]
         \/ worker.at = Len(LoadOrder)
  BY DEF WorkerLoad, feedVars
<1>2. worker \in WorkerStates /\ worker.at \in 1..Len(LoadOrder) /\ read \in Timeframes
  BY LoadOrderTypes DEF PipelineInv, PipelineTypeOK, WorkerStates
<1>3. loaded \in [Timeframes -> SUBSET Nat]
  BY DEF PipelineInv, PipelineTypeOK
<1>4. \A g \in Timeframes :
         loaded'[g] = IF g = read THEN ListCandles(read, History) ELSE loaded[g]
  BY <1>1, <1>2, <1>3
<1>5. \A j \in stored[read] : \E k \in ListCandles(read, History) : k >= j
  BY <1>2, LoadOrderTypes, ListReturnsNewest DEF PipelineInv, PipelineTypeOK
<1>6. ASSUME NEW tf \in Timeframes, tf # read, LoadedTf(tf), Reread(tf)'
      PROVE  Reread(tf)
  <2>1. CASE worker' = [worker EXCEPT !.at = @ + 1]
    <3>1. worker'.pc = "load" /\ worker'.at - 1 = worker.at
      BY <1>1, <1>2, <2>1 DEF WorkerStates
    <3>2. PICK i \in 1..worker.at : LoadOrder[i] = tf
      BY <1>6, <3>1 DEF Reread
    <3>3. i \in 1..(worker.at - 1)
      BY <1>2, <1>6, <3>2
    <3> QED BY <1>1, <3>2, <3>3 DEF Reread
  <2>2. CASE worker.at = Len(LoadOrder)
    <3>1. PICK i \in 1..Len(LoadOrder) : LoadOrder[i] = tf
      BY <1>6 DEF LoadedTf
    <3>2. i \in 1..(worker.at - 1)
      BY <1>2, <1>6, <2>2, <3>1, LoadOrderTypes
    <3> QED BY <1>1, <3>1, <3>2 DEF Reread
  <2> QED BY <1>1, <2>1, <2>2
<1>7. ASSUME NEW tf \in Timeframes, loaded'[tf] # {} PROVE LoadedTf(tf)
  BY <1>2, <1>4, <1>7 DEF LoadedTf, OrderInv
<1>8. ASSUME NEW tf \in Timeframes, NEW s \in pushed, s[tf] # 0
      PROVE  /\ LoadedTf(tf) /\ s[tf] \in stored[tf]
             /\ Reread(tf)' => \E k \in loaded'[tf] : k >= s[tf]
  <2>1. LoadedTf(tf) /\ s[tf] \in stored[tf]
    BY <1>8 DEF OrderInv
  <2>2. CASE tf = read
    BY <1>4, <1>5, <2>1, <2>2
  <2>3. CASE tf # read
    BY <1>4, <1>6, <1>8, <2>1, <2>3 DEF OrderInv
  <2> QED BY <2>1, <2>2, <2>3
<1>9. \A tf : LoadedTf(tf)' <=> LoadedTf(tf)
  BY DEF LoadedTf
<1> QED BY <1>1, <1>7, <1>8, <1>9 DEF OrderInv

(* The publication of the signal preserves the order of signals.            *)
LEMMA PushKeepsOrder ==
    ASSUME PipelineInv, StoredAreClosed, OrderInv, WorkerPush
    PROVE  OrderInv'
<1>1. /\ stored' = stored /\ loaded' = loaded /\ pushed' = pushed \cup {Basis}
      /\ worker' = WorkerAt("listen")
  BY DEF WorkerPush, feedVars
<1>2. \A tf : ~Reread(tf)'
  BY <1>1, WorkerAtType DEF Reread
<1>3. \A tf \in Timeframes : Basis[tf] # 0 => LoadedTf(tf) /\ Basis[tf] \in stored[tf]
  BY BasisIsStored DEF OrderInv
<1> QED BY <1>1, <1>2, <1>3 DEF OrderInv, LoadedTf

(* Every step of the pipeline preserves the order of signals.               *)
LEMMA OrderStepKeeps ==
    ASSUME PipelineInv, FeedInv, OrderInv, [PipelineNext]_vars
    PROVE  OrderInv'
<1>1. TypeOK /\ StoredAreClosed
  BY DEF FeedInv
<1>2. CASE WorkerLoad
  BY <1>1, <1>2, LoadKeepsOrder
<1>3. CASE WorkerPush
  BY <1>1, <1>3, PushKeepsOrder
<1>4. CASE FeedStep
  <2>1. [Next]_feedVars
    BY <1>4 DEF FeedStep, Next
  <2>2. \A tf \in Timeframes : stored[tf] \subseteq stored'[tf]
    BY <1>1, <2>1, RowsStay DEF PipelineInv
  <2>3. UNCHANGED <<worker, loaded, pushed>>
    BY <1>4 DEF FeedStep
  <2> QED BY <2>2, <2>3, OthersKeepOrder DEF Reread
<1>5. CASE WorkerSubscribe \/ WorkerReceive \/ WorkerFails \/ Crash \/ Restart
  <2>1. /\ UNCHANGED <<stored, loaded, pushed>>
        /\ worker' \in {WorkerAt("load"), WorkerAt("listen"), WorkerAt("down"), WorkerAt("subscribe")}
    BY <1>5 DEF WorkerSubscribe, WorkerReceive, WorkerFails, Crash, Restart, PollerCrash,
                PollerRestart, database, feedVars
  <2>2. \A tf : ~Reread(tf)'
    BY <2>1, WorkerAtType DEF Reread
  <2> QED BY <2>1, <2>2, OthersKeepOrder
<1>6. CASE WorkerPersist
  <2>1. UNCHANGED <<stored, loaded, pushed>> /\ worker.pc = "persist"
    BY <1>6 DEF WorkerPersist, feedVars
  <2> QED BY <2>1, OthersKeepOrder DEF Reread
<1>7. CASE ConnectionBreaks \/ Resubscribe
  <2>1. UNCHANGED <<stored, loaded, pushed, worker>>
    BY <1>7 DEF ConnectionBreaks, Resubscribe, feedVars
  <2> QED BY <2>1, OthersKeepOrder DEF Reread
<1>8. CASE UNCHANGED vars
  BY <1>8, OthersKeepOrder DEF vars, workerVars, feedVars, Reread
<1> QED BY <1>2, <1>3, <1>4, <1>5, <1>6, <1>7, <1>8 DEF PipelineNext, WorkerStep

(* Signals never go back in time (signal_worker.py, _load_recent_candles    *)
(* reads the timeframes one after the other, outside any snapshot).         *)
THEOREM SignalsInOrder == PipelineSpec => []PushedInOrder
<1>1. PipelineInit => OrderInv
  BY DEF PipelineInit, OrderInv
<1>2. PipelineInv /\ FeedInv /\ OrderInv /\ [PipelineNext]_vars => OrderInv'
  BY OrderStepKeeps
<1>3. PipelineInv /\ FeedInv /\ OrderInv => PushedInOrder
  <2> SUFFICES ASSUME PipelineInv, FeedInv, OrderInv, worker.pc = "push",
                      NEW s \in pushed, NEW tf \in Timeframes
               PROVE  s[tf] <= Basis[tf]
    BY DEF PushedInOrder
  <2>1. s[tf] \in Nat /\ Basis[tf] \in Nat /\ loaded[tf] \subseteq Nat
    BY BasisType DEF PipelineInv, PipelineTypeOK, FeedInv
  <2>2. CASE s[tf] = 0
    BY <2>1, <2>2
  <2>3. CASE s[tf] # 0
    <3>1. PICK k \in loaded[tf] : k >= s[tf]
      BY <2>3 DEF OrderInv, Reread
    <3>2. k <= Basis[tf]
      BY <3>1, BasisIsStored DEF FeedInv
    <3> QED BY <2>1, <3>1, <3>2
  <2> QED BY <2>2, <2>3
<1> QED BY <1>1, <1>2, <1>3, PipelineIsFeed, FeedInvariant, PipelineInvariant, PTL DEF PipelineSpec
=============================================================================
