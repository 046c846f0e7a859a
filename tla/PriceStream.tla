---------------------------- MODULE PriceStream ----------------------------
(***************************************************************************)
(* The price stream worker of one symbol: a reconnect loop whose every     *)
(* attempt runs two sibling tasks, a consumer of the exchange's stream and *)
(* a watchdog; whichever ends first takes the other with it.  A consumed   *)
(* tick is cached under latest_price, then published on prices:{symbol}.   *)
(*                                                                         *)
(* The k-th price the exchange quotes is the number k; 0 is none.  Clocks  *)
(* count units of time.  A consumer occupies a slot until its task ends,   *)
(* so that a task left behind by a former attempt would be seen.           *)
(***************************************************************************)
EXTENDS Integers, Sequences

CONSTANTS
    Slots,           \* places for consumer tasks
    Watchdog,        \* HEARTBEAT_WATCHDOG_SECONDS
    Stable,          \* an attempt longer than that resets the backoff
    InitialBackoff,
    MaxBackoff,
    MaxTicks         \* bound of the model: prices quoted

ASSUME StreamAssumption ==
    /\ Slots # {}
    /\ Watchdog \in Nat
    /\ Stable \in Nat
    /\ InitialBackoff \in Nat \ {0}
    /\ MaxBackoff \in Nat
    /\ InitialBackoff <= MaxBackoff
    /\ MaxTicks \in Nat

VARIABLES
    quoted,      \* the last price of the exchange
    line,        \* line[n]: what consumer n's connection has sent and it has not read
    consumers,   \* consumers[n]: the consumer task in slot n
    pc,          \* the worker: "connect", "wait", "cleanup", "sleep" or "stopped"
    current,     \* the slot of its present attempt
    fired,       \* the watchdog has raised
    outcome,     \* how the present attempt ended
    idle,        \* time since its last tick
    uptime,      \* time since it began
    remaining,   \* time left to sleep
    backoff,
    cached,      \* latest_price:{symbol}
    published    \* the last tick published on prices:{symbol}

clocks == <<idle, uptime, remaining>>
attempt == <<pc, current, fired, outcome, backoff>>
streamVars == <<quoted, line, consumers, attempt, clocks, cached, published>>

-----------------------------------------------------------------------------
Consumer(state) == [state |-> state, tick |-> 0, cancelled |-> FALSE]

Ended == {"none", "ended", "error", "http", "auth"}

Running(n) == consumers[n].state \notin Ended

At(n, state) == consumers[n].state = state /\ ~consumers[n].cancelled

Goes(n, state) == consumers' = [consumers EXCEPT ![n].state = state]

-----------------------------------------------------------------------------
(* The exchange (OANDA) sends a new price on every open connection.        *)
Open(n) == consumers[n].state \in {"read", "cache", "publish"}

Quote ==
    /\ quoted < MaxTicks
    /\ quoted' = quoted + 1
    /\ line' = [n \in Slots |-> IF Open(n) THEN Append(line[n], quoted + 1) ELSE line[n]]
    /\ UNCHANGED <<consumers, attempt, clocks, cached, published>>

-----------------------------------------------------------------------------
(* The consumer.  A connection begins with the present price.              *)

ConsumerOpens(n) ==
    /\ At(n, "open")
    /\ Goes(n, "read")
    /\ line' = [line EXCEPT ![n] = IF quoted = 0 THEN <<>> ELSE <<quoted>>]
    /\ UNCHANGED <<quoted, attempt, clocks, cached, published>>

(* raise_for_status: 401 and 403, or another status. *)
ConsumerRefused(n) ==
    /\ At(n, "open")
    /\ Goes(n, "auth") \/ Goes(n, "http")
    /\ UNCHANGED <<quoted, line, attempt, clocks, cached, published>>

(* Mutant: splits the buffer at its last newline. *)
ConsumerReadsLast(n) ==
    /\ At(n, "read")
    /\ line[n] # <<>>
    /\ consumers' = [consumers EXCEPT ![n].state = "cache", ![n].tick = line[n][Len(line[n])]]
    /\ line' = [line EXCEPT ![n] = SubSeq(@, 1, Len(@) - 1)]
    /\ idle' = 0
    /\ UNCHANGED <<quoted, attempt, uptime, remaining, cached, published>>

ConsumerReads(n) ==
    /\ At(n, "read")
    /\ line[n] # <<>>
    /\ consumers' = [consumers EXCEPT ![n].state = "cache", ![n].tick = Head(line[n])]
    /\ line' = [line EXCEPT ![n] = Tail(@)]
    /\ idle' = 0
    /\ UNCHANGED <<quoted, attempt, uptime, remaining, cached, published>>

(* Mutant: the tick is published only. *)
ConsumerCachesNot(n) ==
    /\ At(n, "cache")
    /\ Goes(n, "publish")
    /\ UNCHANGED <<quoted, line, attempt, clocks, cached, published>>

(* Mutant: the tick is cached only. *)
ConsumerCachesOnly(n) ==
    /\ At(n, "cache")
    /\ cached' = consumers[n].tick
    /\ Goes(n, "read")
    /\ UNCHANGED <<quoted, line, attempt, clocks, published>>

ConsumerCaches(n) ==
    /\ At(n, "cache")
    /\ cached' = consumers[n].tick
    /\ Goes(n, "publish")
    /\ UNCHANGED <<quoted, line, attempt, clocks, published>>

ConsumerPublishes(n) ==
    /\ At(n, "publish")
    /\ published' = consumers[n].tick
    /\ Goes(n, "read")
    /\ UNCHANGED <<quoted, line, attempt, clocks, cached>>

(* The connection or Redis breaks. *)
ConsumerFails(n) ==
    /\ \E state \in {"open", "read", "cache", "publish"} : At(n, state)
    /\ Goes(n, "error")
    /\ UNCHANGED <<quoted, line, attempt, clocks, cached, published>>

(* The exchange closes the stream. *)
ConsumerEnds(n) ==
    /\ At(n, "read")
    /\ line[n] = <<>>
    /\ Goes(n, "ended")
    /\ UNCHANGED <<quoted, line, attempt, clocks, cached, published>>

(* A cancelled consumer ends; the Redis command it was waiting for may     *)
(* have been on its way.                                                   *)
ConsumerStops(n) ==
    /\ Running(n) /\ consumers[n].cancelled
    /\ \/ UNCHANGED <<cached, published>>
       \/ /\ consumers[n].state = "cache"
          /\ cached' = consumers[n].tick
          /\ UNCHANGED published
       \/ /\ consumers[n].state = "publish"
          /\ published' = consumers[n].tick
          /\ UNCHANGED cached
    /\ Goes(n, "ended")
    /\ UNCHANGED <<quoted, line, attempt, clocks>>

(* The key of the cached price expires. *)
CacheExpires ==
    /\ cached # 0
    /\ cached' = 0
    /\ UNCHANGED <<quoted, line, consumers, attempt, clocks, published>>

-----------------------------------------------------------------------------
(* The worker.                                                             *)

Connect ==
    /\ pc = "connect"
    /\ \E n \in Slots :
          /\ ~Running(n)
          /\ current' = n
          /\ consumers' = [consumers EXCEPT ![n] = Consumer("open")]
          /\ line' = [line EXCEPT ![n] = <<>>]
    /\ pc' = "wait"
    /\ fired' = FALSE
    /\ outcome' = "none"
    /\ idle' = 0
    /\ uptime' = 0
    /\ UNCHANGED <<quoted, remaining, backoff, cached, published>>

WatchdogFires ==
    /\ pc = "wait"
    /\ ~fired
    /\ idle > Watchdog
    /\ fired' = TRUE
    /\ UNCHANGED <<quoted, line, consumers, pc, current, outcome, backoff, clocks,
                   cached, published>>

(* What asyncio.wait's "done" set raises: its order is arbitrary, and a    *)
(* task without an exception is passed over.                               *)
Outcomes ==
    LET raised == (IF fired THEN {"error"} ELSE {})
                    \cup ({consumers[current].state} \cap {"error", "http", "auth"})
    IN  IF raised = {} THEN {"clean"} ELSE raised

(* Mutant: the watchdog does not interrupt the consumer. *)
LeaveUncancelled ==
    /\ pc = "wait"
    /\ fired \/ ~Running(current)
    /\ outcome' \in Outcomes
    /\ pc' = "cleanup"
    /\ UNCHANGED <<quoted, line, consumers, current, fired, backoff, clocks,
                   cached, published>>

(* One of the two tasks has ended: cancel the other. *)
Leave ==
    /\ pc = "wait"
    /\ fired \/ ~Running(current)
    /\ outcome' \in Outcomes
    /\ consumers' = [consumers EXCEPT ![current].cancelled = Running(current)]
    /\ pc' = "cleanup"
    /\ UNCHANGED <<quoted, line, current, fired, backoff, clocks, cached, published>>

(* The backoff after an attempt. *)
ResetBackoff ==
    IF outcome = "clean" \/ (outcome = "error" /\ uptime > Stable)
    THEN InitialBackoff ELSE backoff

(* Mutant: does not gather the cancelled task. *)
CleanUpAtOnce ==
    /\ pc = "cleanup"
    /\ IF outcome = "auth"
       THEN /\ pc' = "stopped"
            /\ UNCHANGED <<backoff, remaining>>
       ELSE /\ pc' = "sleep"
            /\ backoff' = ResetBackoff
            /\ remaining' = backoff'
    /\ UNCHANGED <<quoted, line, consumers, current, fired, outcome, idle, uptime,
                   cached, published>>

(* Both tasks are gathered; the reconnect loop decides. *)
CleanUp ==
    /\ pc = "cleanup"
    /\ ~Running(current)
    /\ IF outcome = "auth"
       THEN /\ pc' = "stopped"
            /\ UNCHANGED <<backoff, remaining>>
       ELSE /\ pc' = "sleep"
            /\ backoff' = ResetBackoff
            /\ remaining' = backoff'
    /\ UNCHANGED <<quoted, line, consumers, current, fired, outcome, idle, uptime,
                   cached, published>>

SleepEnds ==
    /\ pc = "sleep"
    /\ remaining = 0
    /\ backoff' = IF 2 * backoff < MaxBackoff THEN 2 * backoff ELSE MaxBackoff
    /\ pc' = "connect"
    /\ UNCHANGED <<quoted, line, consumers, current, fired, outcome, clocks,
                   cached, published>>

(* Time passes; a clock stops when it has shown all it is asked for. *)
TimePasses ==
    /\ \/ pc = "sleep" /\ remaining > 0
       \/ pc \in {"wait", "cleanup"} /\ (uptime <= Stable \/ idle <= Watchdog)
    /\ remaining' = IF pc = "sleep" THEN remaining - 1 ELSE remaining
    /\ uptime' = IF pc # "sleep" /\ uptime <= Stable THEN uptime + 1 ELSE uptime
    /\ idle' = IF pc # "sleep" /\ idle <= Watchdog THEN idle + 1 ELSE idle
    /\ UNCHANGED <<quoted, line, consumers, attempt, cached, published>>

-----------------------------------------------------------------------------
Init ==
    /\ quoted = 0
    /\ line = [n \in Slots |-> <<>>]
    /\ consumers = [n \in Slots |-> Consumer("none")]
    /\ pc = "connect"
    /\ current \in Slots
    /\ fired = FALSE
    /\ outcome = "none"
    /\ idle = 0
    /\ uptime = 0
    /\ remaining = 0
    /\ backoff = InitialBackoff
    /\ cached = 0
    /\ published = 0

ConsumerStep(n) ==
    \/ ConsumerOpens(n)
    \/ ConsumerRefused(n)
    \/ ConsumerReads(n)
    \/ ConsumerCaches(n)
    \/ ConsumerPublishes(n)
    \/ ConsumerFails(n)
    \/ ConsumerEnds(n)
    \/ ConsumerStops(n)

WorkerStep == Connect \/ WatchdogFires \/ Leave \/ CleanUp \/ SleepEnds

Next ==
    \/ Quote
    \/ \E n \in Slots : ConsumerStep(n)
    \/ CacheExpires
    \/ WorkerStep
    \/ TimePasses

Spec == Init /\ [][Next]_streamVars

(* Time passes, the loop runs its ready tasks, and connections, reads and  *)
(* Redis commands, tried again by every attempt, do not fail every time.   *)
FairSpec ==
    /\ Spec
    /\ WF_streamVars(TimePasses)
    /\ WF_streamVars(WorkerStep)
    /\ \A n \in Slots :
          /\ WF_streamVars(ConsumerStops(n))
          /\ SF_streamVars(ConsumerOpens(n))
          /\ SF_streamVars(ConsumerReads(n))
          /\ SF_streamVars(ConsumerCaches(n))
          /\ SF_streamVars(ConsumerPublishes(n))

-----------------------------------------------------------------------------
ConsumerStates ==
    [state : Ended \cup {"open", "read", "cache", "publish"}, tick : Nat, cancelled : BOOLEAN]

(* Every variable stays in the set its declaration describes. *)
TypeOK ==
    /\ quoted \in Nat
    /\ line \in [Slots -> Seq(Nat)]
    /\ consumers \in [Slots -> ConsumerStates]
    /\ pc \in {"connect", "wait", "cleanup", "sleep", "stopped"}
    /\ current \in Slots
    /\ fired \in BOOLEAN
    /\ outcome \in {"none", "clean", "error", "http", "auth"}
    /\ idle \in 0..(Watchdog + 1)
    /\ uptime \in 0..(Stable + 1)
    /\ remaining \in 0..MaxBackoff
    /\ backoff \in InitialBackoff..MaxBackoff
    /\ cached \in Nat
    /\ published \in Nat

(* One attempt at a time: outside an attempt no consumer runs, within it   *)
(* only its own.                                                           *)
OneConsumer ==
    \A n \in Slots : Running(n) => n = current /\ pc \in {"wait", "cleanup"}

(* The prices on their way are in order, and none is older than what was   *)
(* published.                                                              *)
LineInOrder ==
    LET n == current IN Open(n) =>
        /\ \A i \in 1..Len(line[n]) : published <= line[n][i] /\ line[n][i] <= quoted
        /\ \A i, j \in 1..Len(line[n]) : i < j => line[n][i] <= line[n][j]
        /\ consumers[n].state \in {"cache", "publish"} =>
              /\ published <= consumers[n].tick /\ consumers[n].tick <= quoted
              /\ \A i \in 1..Len(line[n]) : consumers[n].tick <= line[n][i]
        /\ consumers[n].state = "publish" => cached \in {0, consumers[n].tick}

(* Whoever has seen a published tick and asks GET /price for the latest    *)
(* one gets it, a newer one, or none, but never an older one.              *)
CacheKeepsUp == cached # 0 => published <= cached

(* The strengthening of CacheKeepsUp and PricesInOrder that every step     *)
(* preserves.                                                              *)
StreamInv ==
    /\ TypeOK
    /\ OneConsumer
    /\ published <= quoted
    /\ LineInOrder
    /\ CacheKeepsUp

(* Subscribers never see prices go back in time, although a new connection *)
(* begins with the present price while a cancelled consumer may still have *)
(* a command on its way.                                                   *)
PricesInOrder == [][published <= published']_streamVars

(* A price of the exchange is published, or a newer one is, however often  *)
(* the stream falls silent or breaks, unless the credentials are refused.  *)
QuoteIsPublished ==
    \A k \in 1..MaxTicks : (quoted >= k) ~> (published >= k \/ pc = "stopped")

(* No attempt outlives a silence: the worker reads a tick or tries again.  *)
SilenceEnds ==
    []<>(pc \in {"connect", "stopped"} \/ \E n \in Slots : consumers[n].state = "cache")
=============================================================================
