------------------------- MODULE PriceStreamProofs -------------------------
(***************************************************************************)
(* The price stream publishes prices in order and its cache keeps up, for  *)
(* all time limits, backoffs and numbers of slots.  The argument is        *)
(* OneConsumer: an attempt gathers its consumer before it ends, so the     *)
(* order of one connection is the order of the channel.                    *)
(***************************************************************************)
EXTENDS PriceStream, SequenceTheorems, TLAPS

(* The constants of the reconnect loop, unpacked.                           *)
LEMMA Constants ==
    /\ Watchdog \in Nat /\ Stable \in Nat /\ MaxTicks \in Nat
    /\ InitialBackoff \in Nat \ {0} /\ MaxBackoff \in Nat /\ InitialBackoff <= MaxBackoff
BY StreamAssumption DEF StreamAssumption

(* The price stream begins in its invariant (run_price_stream).             *)
THEOREM InitialStream == Init => StreamInv
<1> SUFFICES ASSUME Init PROVE StreamInv
  OBVIOUS
<1> USE Constants
<1>1. consumers \in [Slots -> ConsumerStates] /\ \A n \in Slots : consumers[n].state = "none"
  BY DEF Init, Consumer, ConsumerStates, Ended
<1>2. line \in [Slots -> Seq(Nat)]
  BY DEF Init
<1>3. TypeOK
  <2>1. /\ 0 \in 0..(Watchdog + 1) /\ 0 \in 0..(Stable + 1) /\ 0 \in 0..MaxBackoff
        /\ InitialBackoff \in InitialBackoff..MaxBackoff
    OBVIOUS
  <2> QED BY ONLY <1>1, <1>2, <2>1, Init DEF Init, TypeOK
<1>4. OneConsumer
  BY <1>1 DEF OneConsumer, Running, Ended
<1>5. LineInOrder
  BY <1>1, <1>3 DEF LineInOrder, Open, TypeOK
<1>6. published <= quoted /\ CacheKeepsUp
  BY DEF Init, CacheKeepsUp
<1> QED BY <1>3, <1>4, <1>5, <1>6 DEF StreamInv

-----------------------------------------------------------------------------
(* Steps that leave the connections and what came of them alone. *)
LEMMA WorkerTypes ==
    ASSUME TypeOK, Connect \/ WatchdogFires \/ Leave \/ CleanUp \/ SleepEnds \/ TimePasses
    PROVE  TypeOK'
<1> USE Constants
<1>1. CASE Connect
  <2>1. PICK n \in Slots :
           /\ current' = n
           /\ consumers' = [consumers EXCEPT ![n] = Consumer("open")]
           /\ line' = [line EXCEPT ![n] = <<>>]
    BY <1>1 DEF Connect
  <2>2. Consumer("open") \in ConsumerStates /\ <<>> \in Seq(Nat)
    BY DEF Consumer, ConsumerStates
  <2>3. consumers' \in [Slots -> ConsumerStates] /\ line' \in [Slots -> Seq(Nat)]
    BY <2>1, <2>2 DEF TypeOK
  <2>4. 0 \in 0..(Watchdog + 1) /\ 0 \in 0..(Stable + 1)
    OBVIOUS
  <2>5. /\ pc' = "wait" /\ fired' = FALSE /\ outcome' = "none"
        /\ idle' = 0 /\ uptime' = 0
        /\ UNCHANGED <<quoted, remaining, backoff, cached, published>>
    BY <1>1 DEF Connect
  <2> QED BY ONLY TypeOK, <2>1, <2>3, <2>4, <2>5 DEF TypeOK
<1>2. CASE WatchdogFires
  BY <1>2 DEF TypeOK, WatchdogFires, clocks
<1>3. CASE Leave
  <2>1. outcome' \in {"none", "clean", "error", "http", "auth"}
    BY <1>3 DEF Leave, Outcomes
  <2>2. Running(current) \in BOOLEAN
    BY DEF Running
  <2>3. consumers' = [consumers EXCEPT ![current].cancelled = Running(current)]
    BY <1>3 DEF Leave
  <2>4. consumers' \in [Slots -> ConsumerStates]
    BY <2>2, <2>3 DEF TypeOK, ConsumerStates
  <2> QED BY <1>3, <2>1, <2>4 DEF TypeOK, Leave, clocks
<1>4. CASE CleanUp
  <2>1. ResetBackoff \in InitialBackoff..MaxBackoff
    BY DEF TypeOK, ResetBackoff
  <2>2. backoff' \in InitialBackoff..MaxBackoff /\ remaining' \in 0..MaxBackoff
    BY <1>4, <2>1 DEF TypeOK, CleanUp
  <2> QED BY <1>4, <2>2 DEF TypeOK, CleanUp
<1>5. CASE SleepEnds
  <2>1. backoff' \in InitialBackoff..MaxBackoff
    BY <1>5 DEF TypeOK, SleepEnds
  <2> QED BY <1>5, <2>1 DEF TypeOK, SleepEnds, clocks
<1>6. CASE TimePasses
  <2>1. /\ remaining' \in 0..MaxBackoff /\ uptime' \in 0..(Stable + 1)
        /\ idle' \in 0..(Watchdog + 1)
    BY <1>6 DEF TypeOK, TimePasses
  <2> QED BY <1>6, <2>1 DEF TypeOK, TimePasses, attempt
<1> QED BY <1>1, <1>2, <1>3, <1>4, <1>5, <1>6

(* The steps of the reconnect loop preserve the invariant.                  *)
LEMMA WorkerKeeps ==
    ASSUME StreamInv, Connect \/ WatchdogFires \/ Leave \/ CleanUp \/ SleepEnds \/ TimePasses
    PROVE  StreamInv'
<1> USE DEF StreamInv
<1>1. TypeOK'
  BY WorkerTypes
<1>2. UNCHANGED <<quoted, cached, published>>
  BY DEF Connect, WatchdogFires, Leave, CleanUp, SleepEnds, TimePasses
<1>3. CASE Connect
  <2>1. PICK n \in Slots :
           /\ ~Running(n) /\ current' = n
           /\ consumers' = [consumers EXCEPT ![n] = Consumer("open")]
    BY <1>3 DEF Connect
  <2>2. consumers'[n].state = "open" /\ \A k \in Slots \ {n} : consumers'[k] = consumers[k]
    BY <2>1 DEF TypeOK, Consumer
  <2>3. \A k \in Slots : ~Running(k)
    BY <1>3 DEF OneConsumer, Connect
  <2>4. OneConsumer'
    BY <1>3, <2>1, <2>2, <2>3 DEF OneConsumer, Running, Connect
  <2>5. LineInOrder'
    BY <2>1, <2>2 DEF LineInOrder, Open
  <2> QED BY <1>1, <1>2, <2>4, <2>5 DEF CacheKeepsUp
<1>4. CASE Leave
  <2>1. line' = line /\ current' = current /\ current \in Slots /\ pc' = "cleanup"
    BY <1>4 DEF Leave, TypeOK
  <2>2. \A n \in Slots : /\ consumers'[n].state = consumers[n].state
                         /\ consumers'[n].tick = consumers[n].tick
    BY <1>4 DEF Leave, TypeOK, ConsumerStates
  <2>3. OneConsumer'
    BY <2>1, <2>2 DEF OneConsumer, Running
  <2>4. LineInOrder'
    BY <1>2, <2>1, <2>2 DEF LineInOrder, Open
  <2> QED BY <1>1, <1>2, <2>3, <2>4 DEF CacheKeepsUp
<1>5. CASE WatchdogFires \/ CleanUp \/ SleepEnds \/ TimePasses
  <2>1. UNCHANGED <<line, consumers, current>>
    BY <1>5 DEF WatchdogFires, CleanUp, SleepEnds, TimePasses, attempt
  <2>2. \/ pc' = pc
        \/ pc = "cleanup" /\ ~Running(current)
        \/ pc = "sleep"
    BY <1>5 DEF WatchdogFires, CleanUp, SleepEnds, TimePasses, attempt
  <2>3. OneConsumer'
    BY <2>1, <2>2 DEF OneConsumer, Running
  <2>4. LineInOrder'
    BY <1>2, <2>1 DEF LineInOrder, Open
  <2> QED BY <1>1, <1>2, <2>3, <2>4 DEF CacheKeepsUp
<1> QED BY <1>3, <1>4, <1>5

-----------------------------------------------------------------------------
(* The steps of a consumer move one slot on. *)
LEMMA Moves ==
    ASSUME TypeOK, NEW n \in Slots, Running(n), OneConsumer,
           NEW state \in Ended \cup {"open", "read", "cache", "publish"},
           consumers' = [consumers EXCEPT ![n].state = state], UNCHANGED attempt
    PROVE  /\ consumers' \in [Slots -> ConsumerStates] /\ OneConsumer'
           /\ n = current /\ consumers'[n].state = state /\ consumers'[n].tick = consumers[n].tick
<1>1. consumers' \in [Slots -> ConsumerStates]
  BY DEF TypeOK, ConsumerStates
<1>2. consumers'[n].state = state /\ consumers'[n].tick = consumers[n].tick
  BY DEF TypeOK, ConsumerStates
<1>3. \A k \in Slots \ {n} : consumers'[k] = consumers[k]
  BY DEF TypeOK
<1>4. n = current /\ current' = current /\ pc' = pc /\ pc \in {"wait", "cleanup"}
  BY DEF OneConsumer, attempt
<1>5. OneConsumer'
  BY <1>3, <1>4 DEF OneConsumer, Running
<1> QED BY <1>1, <1>2, <1>4, <1>5

(* The steps of a consumer preserve the invariant and publish in order.     *)
LEMMA ConsumerKeeps ==
    ASSUME StreamInv, NEW n \in Slots, ConsumerStep(n)
    PROVE  StreamInv' /\ published <= published'
<1> USE DEF StreamInv
<1>1. Running(n) /\ UNCHANGED <<quoted, attempt, uptime, remaining>> /\ current' = current
  BY DEF ConsumerStep, ConsumerOpens, ConsumerRefused, ConsumerReads, ConsumerCaches,
         ConsumerPublishes, ConsumerFails, ConsumerEnds, ConsumerStops, At, Running, Ended,
         clocks, attempt
<1>2. n = current /\ consumers[n].tick \in Nat /\ line[n] \in Seq(Nat) /\ quoted \in Nat
  BY <1>1 DEF OneConsumer, TypeOK, ConsumerStates
<1>3. published \in Nat /\ cached \in Nat
  BY DEF TypeOK
<1>4. CASE ConsumerOpens(n)
  <2>1. /\ consumers' = [consumers EXCEPT ![n].state = "read"]
        /\ line' = [line EXCEPT ![n] = IF quoted = 0 THEN <<>> ELSE <<quoted>>]
        /\ UNCHANGED <<clocks, cached, published>>
    BY <1>4 DEF ConsumerOpens, Goes
  <2>2. /\ consumers' \in [Slots -> ConsumerStates] /\ OneConsumer'
        /\ consumers'[n].state = "read"
    BY <1>1, <2>1, Moves
  <2>3. line'[n] \in Seq(Nat) /\ \A i \in 1..Len(line'[n]) : line'[n][i] = quoted
    BY <1>2, <2>1 DEF TypeOK
  <2>4. line' \in [Slots -> Seq(Nat)]
    BY <1>2, <2>1 DEF TypeOK
  <2>5. TypeOK'
    BY <1>1, <2>1, <2>2, <2>4 DEF TypeOK, attempt, clocks
  <2>6. LineInOrder'
    BY <1>1, <1>2, <2>1, <2>2, <2>3 DEF LineInOrder, Open
  <2> QED BY <1>1, <1>3, <2>1, <2>2, <2>5, <2>6 DEF CacheKeepsUp
<1>5. CASE ConsumerReads(n)
  <2>1. /\ At(n, "read") /\ line[n] # <<>>
        /\ consumers' = [consumers EXCEPT ![n].state = "cache", ![n].tick = Head(line[n])]
        /\ line' = [line EXCEPT ![n] = Tail(line[n])]
        /\ idle' = 0 /\ UNCHANGED <<cached, published>>
    BY <1>5 DEF ConsumerReads
  <2>2. /\ Head(line[n]) = line[n][1] /\ line[n][1] \in Nat /\ Tail(line[n]) \in Seq(Nat)
        /\ 1 \in 1..Len(line[n]) /\ Len(Tail(line[n])) = Len(line[n]) - 1
        /\ \A i \in 1..Len(Tail(line[n])) : Tail(line[n])[i] = line[n][i + 1]
    BY <1>2, <2>1, HeadTailProperties
  <2>3. line'[n] = Tail(line[n]) /\ line' \in [Slots -> Seq(Nat)]
    BY <2>1, <2>2 DEF TypeOK
  <2>4. /\ consumers' \in [Slots -> ConsumerStates]
        /\ consumers'[n].state = "cache" /\ consumers'[n].tick = line[n][1]
        /\ \A k \in Slots \ {n} : consumers'[k] = consumers[k]
    <3>1. consumers \in [Slots -> ConsumerStates] /\ line[n][1] \in Nat
      BY <2>2 DEF TypeOK
    <3>2. consumers' = [consumers EXCEPT ![n] = [@ EXCEPT !.state = "cache", !.tick = line[n][1]]]
      BY ONLY <2>1, <2>2, <3>1
    <3>3. [consumers[n] EXCEPT !.state = "cache", !.tick = line[n][1]] \in ConsumerStates
      BY <3>1 DEF ConsumerStates
    <3>4. /\ consumers'[n].state = "cache" /\ consumers'[n].tick = line[n][1]
          /\ \A k \in Slots \ {n} : consumers'[k] = consumers[k]
      BY <3>1, <3>2 DEF ConsumerStates
    <3> QED BY <3>1, <3>2, <3>3, <3>4
  <2>5. OneConsumer'
    BY <1>1, <2>4 DEF OneConsumer, Running, attempt
  <2>6. TypeOK'
    <3>1. 0 \in 0..(Watchdog + 1)
      BY Constants
    <3>2. idle' = 0 /\ UNCHANGED <<quoted, pc, current, fired, outcome, backoff, uptime,
                                    remaining, cached, published>>
      BY <1>1, <1>5, <2>1 DEF attempt, ConsumerReads
    <3> HIDE DEF ConsumerStates
    <3> QED BY ONLY TypeOK, <2>3, <2>4, <3>1, <3>2 DEF TypeOK
  <2>7. LineInOrder'
    <3>1. /\ \A i \in 1..Len(line[n]) : published <= line[n][i] /\ line[n][i] <= quoted
          /\ \A i, j \in 1..Len(line[n]) : i < j => line[n][i] <= line[n][j]
      BY <1>2, <2>1 DEF LineInOrder, Open, At
    <3>2. \A i \in 1..Len(line'[n]) :
             i + 1 \in 1..Len(line[n]) /\ 1 < i + 1 /\ line'[n][i] = line[n][i + 1]
      BY <1>2, <2>2, <2>3, SMTT(30)
    <3>3. \A i, j \in 1..Len(line'[n]) : i < j => i + 1 < j + 1
      OBVIOUS
    <3>4. \A i \in 1..Len(line'[n]) : published <= line'[n][i] /\ line'[n][i] <= quoted
                                      /\ line[n][1] <= line'[n][i]
      BY <2>2, <3>1, <3>2
    <3>5. \A i, j \in 1..Len(line'[n]) : i < j => line'[n][i] <= line'[n][j]
      BY <3>1, <3>2, <3>3
    <3>6. published <= line[n][1] /\ line[n][1] <= quoted
      BY <2>2, <3>1
    <3> QED BY <1>1, <1>2, <2>1, <2>4, <3>4, <3>5, <3>6, SMTT(30) DEF LineInOrder, Open
  <2> QED BY <1>1, <1>3, <2>1, <2>5, <2>6, <2>7 DEF CacheKeepsUp
<1>6. CASE ConsumerCaches(n)
  <2>1. /\ At(n, "cache") /\ cached' = consumers[n].tick
        /\ consumers' = [consumers EXCEPT ![n].state = "publish"]
        /\ UNCHANGED <<line, clocks, published>>
    BY <1>6 DEF ConsumerCaches, Goes
  <2>2. /\ consumers' \in [Slots -> ConsumerStates] /\ OneConsumer'
        /\ consumers'[n].state = "publish" /\ consumers'[n].tick = consumers[n].tick
    BY <1>1, <2>1, Moves
  <2>3. TypeOK'
    BY <1>1, <1>2, <2>1, <2>2 DEF TypeOK, attempt, clocks
  <2>4. LineInOrder' /\ published <= cached'
    BY <1>1, <1>2, <2>1, <2>2 DEF LineInOrder, Open, At
  <2> QED BY <1>1, <1>3, <2>1, <2>2, <2>3, <2>4 DEF CacheKeepsUp
<1>7. CASE ConsumerPublishes(n)
  <2>1. /\ At(n, "publish") /\ published' = consumers[n].tick
        /\ consumers' = [consumers EXCEPT ![n].state = "read"]
        /\ UNCHANGED <<line, clocks, cached>>
    BY <1>7 DEF ConsumerPublishes, Goes
  <2>2. /\ consumers' \in [Slots -> ConsumerStates] /\ OneConsumer'
        /\ consumers'[n].state = "read"
    BY <1>1, <2>1, Moves
  <2>3. TypeOK'
    BY <1>1, <1>2, <2>1, <2>2 DEF TypeOK, attempt, clocks
  <2>4. /\ published <= published' /\ published' <= quoted
        /\ cached # 0 => published' <= cached
        /\ \A i \in 1..Len(line[n]) : published' <= line[n][i]
    BY <1>2, <2>1 DEF LineInOrder, Open, At
  <2>5. LineInOrder'
    BY <1>1, <1>2, <2>1, <2>2, <2>4 DEF LineInOrder, Open, At
  <2> QED BY <1>1, <2>1, <2>2, <2>3, <2>4, <2>5 DEF CacheKeepsUp
<1>8. CASE ConsumerRefused(n) \/ ConsumerFails(n) \/ ConsumerEnds(n)
  <2>1. PICK state \in Ended : consumers' = [consumers EXCEPT ![n].state = state]
    BY <1>8 DEF ConsumerRefused, ConsumerFails, ConsumerEnds, Goes, Ended
  <2>2. UNCHANGED <<line, clocks, cached, published>>
    BY <1>8 DEF ConsumerRefused, ConsumerFails, ConsumerEnds
  <2>3. /\ consumers' \in [Slots -> ConsumerStates] /\ OneConsumer'
        /\ consumers'[n].state \in Ended
    BY <1>1, <2>1, Moves
  <2>4. TypeOK'
    BY <1>1, <2>2, <2>3 DEF TypeOK, attempt, clocks
  <2>5. LineInOrder'
    BY <1>1, <1>2, <2>3 DEF LineInOrder, Open, Ended
  <2> QED BY <1>1, <1>3, <2>2, <2>3, <2>4, <2>5 DEF CacheKeepsUp
<1>9. CASE ConsumerStops(n)
  <2>1. /\ consumers' = [consumers EXCEPT ![n].state = "ended"]
        /\ UNCHANGED <<line, clocks>>
        /\ \/ UNCHANGED <<cached, published>>
           \/ /\ consumers[n].state = "cache"
              /\ cached' = consumers[n].tick /\ published' = published
           \/ /\ consumers[n].state = "publish"
              /\ published' = consumers[n].tick /\ cached' = cached
    BY <1>9 DEF ConsumerStops, Goes
  <2>2. /\ consumers' \in [Slots -> ConsumerStates] /\ OneConsumer'
        /\ consumers'[n].state = "ended"
    BY <1>1, <2>1, Moves DEF Ended
  <2>3. TypeOK'
    BY <1>1, <1>2, <2>1, <2>2 DEF TypeOK, attempt, clocks
  <2>4. LineInOrder'
    BY <1>1, <1>2, <2>2 DEF LineInOrder, Open
  <2>5. published <= published' /\ published' <= quoted' /\ CacheKeepsUp'
    BY <1>1, <1>2, <1>3, <2>1 DEF LineInOrder, Open, CacheKeepsUp
  <2> QED BY <2>2, <2>3, <2>4, <2>5
<1> QED BY <1>4, <1>5, <1>6, <1>7, <1>8, <1>9 DEF ConsumerStep

-----------------------------------------------------------------------------
(* A new price of the exchange preserves the invariant.                     *)
LEMMA QuoteKeeps ==
    ASSUME StreamInv, Quote
    PROVE  StreamInv'
<1> USE DEF StreamInv
<1>1. /\ quoted' = quoted + 1 /\ UNCHANGED <<consumers, attempt, clocks, cached, published>>
      /\ line' = [n \in Slots |-> IF Open(n) THEN Append(line[n], quoted + 1) ELSE line[n]]
  BY DEF Quote
<1>2. quoted \in Nat /\ published \in Nat /\ current \in Slots /\ line \in [Slots -> Seq(Nat)]
  BY DEF TypeOK
<1>3. line' \in [Slots -> Seq(Nat)]
  BY <1>1, <1>2
<1>4. TypeOK'
  BY <1>1, <1>2, <1>3 DEF TypeOK, attempt, clocks
<1>5. OneConsumer'
  BY <1>1 DEF OneConsumer, Running, attempt
<1>6. ASSUME Open(current)' PROVE LineInOrder'
  <2>1. Open(current) /\ current' = current
    BY <1>1, <1>6 DEF Open, attempt
  <2>2. PICK n \in Slots : n = current
    BY <1>2
  <2>3. line'[n] = Append(line[n], quoted + 1)
    BY <1>1, <2>1, <2>2
  <2>4. /\ Len(line'[n]) = Len(line[n]) + 1 /\ Len(line[n]) \in Nat
        /\ \A i \in 1..Len(line[n]) : line'[n][i] = line[n][i] /\ line[n][i] \in Nat
        /\ line'[n][Len(line[n]) + 1] = quoted + 1
    BY <1>2, <2>3
  <2>5. /\ \A i \in 1..Len(line[n]) : published <= line[n][i] /\ line[n][i] <= quoted
        /\ \A i, j \in 1..Len(line[n]) : i < j => line[n][i] <= line[n][j]
        /\ consumers[n].state \in {"cache", "publish"} =>
              /\ published <= consumers[n].tick /\ consumers[n].tick <= quoted
              /\ \A i \in 1..Len(line[n]) : consumers[n].tick <= line[n][i]
        /\ consumers[n].state = "publish" => cached \in {0, consumers[n].tick}
    BY <2>1, <2>2 DEF LineInOrder
  <2>6. consumers[n].tick \in Nat
    BY DEF TypeOK, ConsumerStates
  <2>7. \A i \in 1..Len(line'[n]) : i \in 1..Len(line[n]) \/ i = Len(line[n]) + 1
    BY <2>4
  <2>8. \A i \in 1..Len(line'[n]) : published <= line'[n][i] /\ line'[n][i] <= quoted'
    <3>1. ASSUME NEW i \in 1..Len(line[n])
          PROVE  published <= line'[n][i] /\ line'[n][i] <= quoted'
      <4>1. line'[n][i] = line[n][i] /\ line[n][i] \in Nat
            /\ published <= line[n][i] /\ line[n][i] <= quoted
        BY <2>4, <2>5
      <4> QED BY ONLY <1>1, <1>2, <4>1
    <3>2. published <= quoted + 1 /\ quoted + 1 <= quoted'
      BY <1>1, <1>2
    <3> QED BY ONLY <2>4, <2>7, <3>1, <3>2
  <2>9. ASSUME NEW i \in 1..Len(line'[n]), NEW j \in 1..Len(line'[n]), i < j
        PROVE  line'[n][i] <= line'[n][j]
    <3>1. i \in 1..Len(line[n])
      BY <2>4, <2>9
    <3>2. CASE j \in 1..Len(line[n])
      BY <2>4, <2>5, <2>9, <3>1, <3>2
    <3>3. CASE j = Len(line[n]) + 1
      <4>1. line'[n][i] \in Nat /\ line'[n][i] <= quoted
        BY <2>4, <2>5, <3>1
      <4> QED BY <1>2, <2>4, <3>3, <4>1
    <3> QED BY <2>7, <3>2, <3>3
  <2>10. consumers[n].state \in {"cache", "publish"} =>
            /\ consumers[n].tick <= quoted'
            /\ \A i \in 1..Len(line'[n]) : consumers[n].tick <= line'[n][i]
    BY <1>1, <1>2, <2>4, <2>5, <2>6, <2>7
  <2> QED BY <1>1, <2>1, <2>2, <2>5, <2>8, <2>9, <2>10 DEF LineInOrder
<1>7. LineInOrder'
  BY <1>6 DEF LineInOrder
<1> QED BY <1>1, <1>2, <1>4, <1>5, <1>7 DEF CacheKeepsUp

(* Every step preserves the invariant and publishes in order.               *)
LEMMA StreamStepKeeps ==
    ASSUME StreamInv, [Next]_streamVars
    PROVE  StreamInv' /\ published <= published'
<1>1. published \in Nat
  BY DEF StreamInv, TypeOK
<1>2. CASE WorkerStep \/ TimePasses
  <2>1. published' = published
    BY <1>2 DEF WorkerStep, Connect, WatchdogFires, Leave, CleanUp, SleepEnds, TimePasses
  <2> QED BY <1>1, <1>2, <2>1, WorkerKeeps DEF WorkerStep
<1>3. CASE \E n \in Slots : ConsumerStep(n)
  BY <1>3, ConsumerKeeps
<1>4. CASE Quote
  <2>1. published' = published
    BY <1>4 DEF Quote
  <2> QED BY <1>1, <1>4, <2>1, QuoteKeeps
<1>5. CASE CacheExpires
  <2>1. cached' = 0 /\ UNCHANGED <<quoted, line, consumers, attempt, clocks, published>>
    BY <1>5 DEF CacheExpires
  <2>2. TypeOK'
    BY <2>1 DEF StreamInv, TypeOK, attempt, clocks
  <2>3. OneConsumer' /\ LineInOrder'
    BY <2>1 DEF StreamInv, OneConsumer, LineInOrder, Running, Open, attempt
  <2> QED BY <1>1, <2>1, <2>2, <2>3 DEF StreamInv, CacheKeepsUp
<1>6. CASE UNCHANGED streamVars
  BY <1>1, <1>6 DEF streamVars, attempt, clocks, StreamInv, TypeOK, OneConsumer, LineInOrder,
                    Running, Open, CacheKeepsUp
<1> QED BY <1>2, <1>3, <1>4, <1>5, <1>6 DEF Next

(* The price stream never leaves its invariant (price_stream.py).           *)
THEOREM StreamInvariant == Spec => []StreamInv
<1>1. StreamInv /\ [Next]_streamVars => StreamInv'
  BY StreamStepKeeps
<1> QED BY <1>1, InitialStream, PTL DEF Spec

(* GET /price never returns an older tick than one a subscriber has seen    *)
(* (price_stream.py, _publish_tick: set, then publish).                     *)
THEOREM CacheIsNewest == Spec => []CacheKeepsUp
<1>1. StreamInv => CacheKeepsUp
  BY DEF StreamInv
<1> QED BY <1>1, StreamInvariant, PTL

(* prices:{symbol} never goes back, across reconnects (price_stream.py,     *)
(* _stream_once gathers its tasks before it returns).                       *)
THEOREM ChannelInOrder == Spec => PricesInOrder
<1>1. StreamInv /\ [Next]_streamVars => [published <= published']_streamVars
  BY StreamStepKeeps
<1> QED BY <1>1, StreamInvariant, PTL DEF Spec, PricesInOrder
=============================================================================
