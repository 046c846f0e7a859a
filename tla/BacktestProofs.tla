--------------------------- MODULE BacktestProofs ---------------------------
(***************************************************************************)
(* The books of the backtest engine are right for every configuration and  *)
(* every sequence of bars and signals: BacktestInv is an invariant, and    *)
(* the two action properties of Backtest follow from it.  The request      *)
(* around the engine keeps all that, and its answers are true.             *)
(***************************************************************************)
EXTENDS BacktestRequest, Recursion

-----------------------------------------------------------------------------
(* Arithmetic.                                                             *)

(* Multiplying by a positive size keeps the order. *)
LEMMA Scaling ==
    ASSUME NEW a \in Int, NEW b \in Int, NEW n \in Nat \ {0}
    PROVE  /\ a * n \in Int
           /\ a <= b => a * n <= b * n
           /\ a > 0 => a * n > 0
           /\ a < 0 => a * n < 0
OBVIOUS

(* The sign of a direction is 1 or -1 (execution.py).                       *)
LEMMA SignIsOne == \A dir \in Directions : Sign(dir) \in {1, -1}
BY DEF Directions, Sign

(* Only a positive equity and a positive stop distance give a size. *)
LEMMA SizeIsSound ==
    ASSUME equity \in Int, NEW d \in Int, PositionSize(d) > 0
    PROVE  PositionSize(d) \in Nat \ {0} /\ equity > 0 /\ d > 0
<1>1. d > 0
  BY DEF PositionSize
<1> DEFINE a == -(equity * RiskPct)
           b == 100 * d
<1>2. RiskPct \in Int /\ RiskPct > 0
  BY BacktestAssumption DEF BacktestAssumption
<1>3. a \in Int /\ b \in Nat \ {0}
  BY <1>1, <1>2
<1>4. PositionSize(d) = -(a \div b)
  BY <1>1 DEF PositionSize
<1>5. equity <= 0 => a >= 0
  BY <1>2
<1> HIDE DEF a, b
<1>6. a \div b \in Int
  BY <1>3
<1>7. a >= 0 => a \div b >= 0
  BY <1>3
<1> QED
  BY <1>1, <1>4, <1>5, <1>6, <1>7

-----------------------------------------------------------------------------
(* Types.                                                                  *)

(* The fields of an open trade. *)
LEMMA OpenTradeFields ==
    \A t \in OpenTrades :
        /\ t.dir \in Directions /\ Sign(t.dir) \in {1, -1}
        /\ t.entryTime \in 1..Length
        /\ t.entry \in Int /\ t.stop \in Int /\ t.target \in Int
        /\ t.size \in Nat \ {0} /\ t.equityBefore \in Int
        /\ t # NoTrade
BY SignIsOne DEF OpenTrades, NoTrade, Directions

(* _close_trade keeps what the open trade knew (engine.py).                 *)
LEMMA ClosedTradeFields ==
    \A t \in ClosedTrades :
        /\ t.entryTime \in 1..Length /\ t.exitTime \in 1..Length
        /\ t.equityBefore \in Int /\ t.equityAfter \in Int /\ t.pnl \in Int
BY DEF ClosedTrades

(* The result of a trade is an amount (engine.py, _close_trade).            *)
LEMMA PnlIsInt ==
    ASSUME NEW t \in OpenTrades, NEW exit \in Int
    PROVE  Pnl(t, exit) \in Int
BY OpenTradeFields DEF Pnl

(* _close_trade makes a member of the list of trades (engine.py).           *)
LEMMA ClosedIsTyped ==
    ASSUME equity \in Int, NEW t \in OpenTrades, NEW time \in 1..Length,
           NEW exit \in Int, NEW reason \in {"SL", "TP1", "END"}
    PROVE  /\ Closed(t, time, exit, reason) \in ClosedTrades
           /\ Closed(t, time, exit, reason).entryTime = t.entryTime
           /\ Closed(t, time, exit, reason).exitTime = time
           /\ Closed(t, time, exit, reason).equityBefore = t.equityBefore
           /\ Closed(t, time, exit, reason).equityAfter = equity + Pnl(t, exit)
           /\ Closed(t, time, exit, reason).pnl = Pnl(t, exit)
           /\ Closed(t, time, exit, reason).reason = reason
           /\ Closed(t, time, exit, reason).entry = t.entry
           /\ Closed(t, time, exit, reason).stop = t.stop
           /\ Closed(t, time, exit, reason).size = t.size
<1>1. Pnl(t, exit) \in Int
  BY PnlIsInt
<1> QED
  BY <1>1, OpenTradeFields DEF Closed, ClosedTrades

(* Appending to a sequence adds one element at the end. *)
LEMMA Appended ==
    ASSUME NEW S, NEW s \in Seq(S), NEW e \in S
    PROVE  /\ Append(s, e) \in Seq(S)
           /\ Len(Append(s, e)) = Len(s) + 1 /\ Len(s) \in Nat
           /\ Append(s, e)[Len(s) + 1] = e
           /\ \A k \in 1..Len(s) : Append(s, e)[k] = s[k]
OBVIOUS

-----------------------------------------------------------------------------
(* Ending a trade.                                                         *)

(* A stop loses at least the distance that sized the trade. *)
LEMMA StopLoses ==
    ASSUME NEW t \in OpenTrades, Sign(t.dir) * (t.entry - t.stop) > 0
    PROVE  /\ StopFill(t) \in Int
           /\ Pnl(t, StopFill(t)) <= -(t.size * Distance(t.entry, t.stop))
           /\ Pnl(t, StopFill(t)) < 0
<1> DEFINE move == Sign(t.dir) * (StopFill(t) - t.entry)
           d == Distance(t.entry, t.stop)
<1>1. SlippageSL \in Nat
  BY BacktestAssumption DEF BacktestAssumption
<1>2. StopFill(t) \in Int
  BY <1>1, OpenTradeFields DEF StopFill
<1>3. move \in Int /\ d \in Int /\ move <= -d /\ d > 0
  BY <1>1, OpenTradeFields DEF StopFill, Distance
<1>4. Pnl(t, StopFill(t)) = move * t.size
  BY DEF Pnl
<1> HIDE DEF move
<1>5. (-d) * t.size = -(t.size * d)
  <2> HIDE DEF d
  <2> QED BY <1>3, OpenTradeFields
<1> HIDE DEF d
<1>6. t.size \in Nat \ {0}
  BY OpenTradeFields
<1>7. -d \in Int /\ -d < 0
  BY <1>3
<1>8. move * t.size <= (-d) * t.size /\ (-d) * t.size < 0
  BY <1>3, <1>6, <1>7, Scaling
<1>9. move * t.size \in Int /\ (-d) * t.size \in Int
  BY <1>3, <1>6, <1>7, Scaling
<1> QED
  BY <1>2, <1>4, <1>5, <1>8, <1>9 DEF d

(* A target earns. *)
LEMMA TargetEarns ==
    ASSUME NEW t \in OpenTrades, Sign(t.dir) * (t.target - t.entry) > 0
    PROVE  Pnl(t, t.target) > 0
<1> DEFINE move == Sign(t.dir) * (t.target - t.entry)
<1>1. move \in Int /\ move > 0 /\ t.size \in Nat \ {0}
  BY OpenTradeFields
<1>2. Pnl(t, t.target) = move * t.size
  BY DEF Pnl
<1> HIDE DEF move
<1> QED
  BY <1>1, <1>2, Scaling

(* A trade that ends is entered into the books once, with the equity it    *)
(* leaves, and after everything that is there.                             *)
LEMMA EndedTradeIsBooked ==
    ASSUME BacktestInv, position # NoTrade,
           NEW time \in 1..Length, NEW exit \in Int, NEW reason \in {"SL", "TP1", "END"},
           position.entryTime <= time,
           reason = "SL" => exit = StopFill(position),
           reason = "TP1" => exit = position.target,
           trades' = Append(trades, Closed(position, time, exit, reason)),
           equity' = equity + Pnl(position, exit),
           position' = NoTrade
    PROVE  /\ trades' \in Seq(ClosedTrades)
           /\ equity' \in Int
           /\ AccountsBalance'
           /\ TradesInOrder'
           /\ ExitsPay'
           /\ Len(trades') = Len(trades) + 1
           /\ \A k \in 1..Len(trades') : trades'[k].exitTime \in {time} \cup {trades[j].exitTime : j \in 1..Len(trades)}
<1> DEFINE new == Closed(position, time, exit, reason)
<1>1. /\ position \in OpenTrades
      /\ trades \in Seq(ClosedTrades)
      /\ equity \in Int
  BY DEF BacktestInv, TypeOK
<1>2. /\ new \in ClosedTrades
      /\ new.entryTime = position.entryTime
      /\ new.exitTime = time
      /\ new.equityBefore = position.equityBefore
      /\ new.equityAfter = equity + Pnl(position, exit)
      /\ new.pnl = Pnl(position, exit)
      /\ new.reason = reason
      /\ new.entry = position.entry
      /\ new.stop = position.stop
      /\ new.size = position.size
  BY <1>1, ClosedIsTyped
<1>3. Pnl(position, exit) \in Int
  BY <1>1, PnlIsInt
<1>4. position.entryTime \in 1..Length /\ time \in Nat
  BY <1>1, OpenTradeFields, BacktestAssumption DEF BacktestAssumption
<1> HIDE DEF new
<1>5. trades' = Append(trades, new)
  BY DEF new
<1>6. /\ trades' \in Seq(ClosedTrades)
      /\ Len(trades') = Len(trades) + 1
      /\ Len(trades) \in Nat
      /\ trades'[Len(trades) + 1] = new
      /\ \A k \in 1..Len(trades) : trades'[k] = trades[k]
  <2> HIDE DEF ClosedTrades
  <2> QED BY <1>1, <1>2, <1>5, Appended
<1>7. AccountsBalance'
  <2>1. equity = EquityAfter(Len(trades)) /\ position.equityBefore = equity
    BY DEF BacktestInv, AccountsBalance
  <2>2. \A k \in 0..Len(trades) : EquityAfter(k)' = EquityAfter(k)
    BY <1>6 DEF EquityAfter
  <2>5. equity' = (EquityAfter(Len(trades)))'
    BY <1>2, <1>6 DEF EquityAfter
  <2>6. ASSUME NEW k \in 1..(Len(trades) + 1)
        PROVE  /\ trades'[k].equityBefore = EquityAfter(k - 1)'
               /\ trades'[k].equityAfter = trades'[k].equityBefore + trades'[k].pnl
    <3>1. CASE k \in 1..Len(trades)
      <4>1. /\ trades[k].equityBefore = EquityAfter(k - 1)
            /\ trades[k].equityAfter = trades[k].equityBefore + trades[k].pnl
        BY <3>1 DEF BacktestInv, AccountsBalance
      <4>2. k - 1 \in 0..Len(trades)
        BY <3>1, <1>6
      <4> QED
        BY <3>1, <4>1, <4>2, <1>6, <2>2
    <3>2. CASE k = Len(trades) + 1
      <4>1. k - 1 = Len(trades) /\ k - 1 \in 0..Len(trades)
        BY <3>2, <1>6
      <4>2. EquityAfter(k - 1)' = equity
        BY <4>1, <2>1, <2>2
      <4>3. trades'[k] = new
        BY <3>2, <1>6
      <4> QED
        BY <4>2, <4>3, <2>1, <1>2
    <3> QED
      BY <3>1, <3>2, <1>6
  <2> QED
    BY <2>5, <2>6, <1>6 DEF AccountsBalance, EquityAfter
<1>8. TradesInOrder'
  BY <1>2, <1>4, <1>6 DEF BacktestInv, TradesInOrder
<1>9. ExitsPay'
  <2>1. reason = "SL" => /\ new.pnl <= -(new.size * Distance(new.entry, new.stop))
                         /\ new.pnl < 0
    BY <1>1, <1>2, StopLoses DEF BacktestInv, PositionIsSound
  <2>2. reason = "TP1" => new.pnl > 0
    BY <1>1, <1>2, TargetEarns DEF BacktestInv, PositionIsSound
  <2> QED
    BY <1>2, <1>6, <2>1, <2>2 DEF BacktestInv, ExitsPay, Distance
<1> QED
  BY <1>1, <1>2, <1>3, <1>6, <1>7, <1>8, <1>9

-----------------------------------------------------------------------------
(* Recording a point.                                                      *)

Points == [time : 1..Length, equity : Int]

(* What a record adds to the curve. *)
LEMMA Recorded ==
    ASSUME TypeOK, NEW time \in 1..Length, NEW value \in Int, NEW times \in {1, 2},
           Record(time, value, times)
    PROVE  /\ equity' = value
           /\ peak' \in Int /\ peak' = Larger(peak, value)
           /\ maxDrawdown' \in Nat /\ maxDrawdown' = Larger(maxDrawdown, peak' - value)
           /\ curve' \in Seq(Points)
           /\ Len(curve) \in Nat /\ Len(curve') = Len(curve) + times
           /\ \A k \in 1..Len(curve) : curve'[k] = curve[k]
           /\ \A k \in (Len(curve) + 1)..(Len(curve) + times) :
                 curve'[k] = [time |-> time, equity |-> value]
<1> DEFINE point == [time |-> time, equity |-> value]
           added == [k \in 1..times |-> point]
<1>1. peak \in Int /\ maxDrawdown \in Nat /\ curve \in Seq(Points)
  BY DEF TypeOK, Points
<1>2. point \in Points
  BY DEF Points
<1>3. curve' = curve \o added
  BY DEF Record
<1>4. equity' = value /\ peak' = Larger(peak, value)
      /\ maxDrawdown' = Larger(maxDrawdown, peak' - value)
  BY DEF Record
<1>5. peak' \in Int /\ maxDrawdown' \in Nat
  BY <1>1, <1>4 DEF Larger
<1> HIDE DEF point, Points
<1>6. added \in Seq(Points) /\ Len(added) = times /\ \A k \in 1..times : added[k] = point
  BY <1>2
<1> HIDE DEF added
<1>7. /\ curve' \in Seq(Points)
      /\ Len(curve) \in Nat /\ Len(curve') = Len(curve) + times
      /\ \A k \in 1..Len(curve) : curve'[k] = curve[k]
  BY <1>1, <1>3, <1>6
<1>8. ASSUME NEW k \in (Len(curve) + 1)..(Len(curve) + times)
      PROVE  curve'[k] = point
  <2>1. k - Len(curve) \in 1..times
    BY <1>7
  <2>2. curve'[k] = added[k - Len(curve)]
    BY <1>1, <1>3, <1>6, <1>7
  <2> QED
    BY <2>1, <2>2, <1>6
<1> QED
  BY <1>4, <1>5, <1>7, <1>8 DEF point

(* The incremental peak and drawdown stay those of the whole curve. *)
LEMMA RecordKeepsDrawdown ==
    ASSUME TypeOK, DrawdownIsExact,
           NEW time \in 1..Length, NEW value \in Int, NEW times \in {1, 2},
           Record(time, value, times)
    PROVE  DrawdownIsExact'
<1>a. /\ peak' \in Int /\ peak' = Larger(peak, value)
      /\ maxDrawdown' \in Nat /\ maxDrawdown' = Larger(maxDrawdown, peak' - value)
      /\ Len(curve) \in Nat /\ Len(curve') = Len(curve) + times
      /\ \A k \in 1..Len(curve) : curve'[k] = curve[k]
      /\ \A k \in (Len(curve) + 1)..(Len(curve) + times) :
            curve'[k] = [time |-> time, equity |-> value]
  BY Recorded
<1>0. PICK n : n = Len(curve)
  OBVIOUS
<1>1. /\ peak' \in Int /\ peak' = Larger(peak, value)
      /\ maxDrawdown' \in Nat /\ maxDrawdown' = Larger(maxDrawdown, peak' - value)
      /\ n \in Nat /\ Len(curve') = n + times
      /\ \A k \in 1..n : curve'[k] = curve[k]
      /\ \A k \in (n + 1)..(n + times) : curve'[k] = [time |-> time, equity |-> value]
  BY <1>a, <1>0
<1>2. peak \in Int /\ maxDrawdown \in Nat /\ curve \in Seq(Points)
  BY DEF TypeOK, Points
<1>3. \A k \in 0..n : Point(k) \in Int
  <2>1. \A k \in 1..n : curve[k] \in Points
    BY <1>0, <1>2
  <2> QED
    BY <2>1, BacktestAssumption DEF Point, Points, BacktestAssumption
<1>4. \A k \in 0..n : Point(k)' = Point(k)
  BY <1>1 DEF Point
<1>5. \A k \in (n + 1)..(n + times) : Point(k)' = value
  BY <1>1 DEF Point
<1>6. /\ \A k \in 0..n : Point(k) <= peak
      /\ \E k \in 0..n : Point(k) = peak
      /\ \A j, k \in 0..n : j <= k => Point(j) - Point(k) <= maxDrawdown
      /\ \E j, k \in 0..n : j <= k /\ Point(j) - Point(k) = maxDrawdown
  BY <1>0 DEF DrawdownIsExact
<1>7. peak <= peak' /\ value <= peak'
      /\ maxDrawdown <= maxDrawdown' /\ peak' - value <= maxDrawdown'
  BY <1>1, <1>2 DEF Larger
<1>8. Len(curve') = n + times /\ n \in Nat
  BY <1>1
<1>9. \A k \in 0..(n + times) : k \in 0..n \/ k \in (n + 1)..(n + times)
  BY <1>8
<1>10. ASSUME NEW k \in 0..(n + times)
       PROVE  Point(k)' \in Int /\ Point(k)' <= peak'
  <2>1. CASE k \in 0..n
    <3>1. Point(k)' = Point(k) /\ Point(k) \in Int /\ Point(k) <= peak
      BY <2>1, <1>3, <1>4, <1>6
    <3> QED
      BY <3>1, <1>1, <1>2, <1>7
  <2>2. CASE k \in (n + 1)..(n + times)
    BY <2>2, <1>5, <1>7
  <2> QED
    BY <2>1, <2>2, <1>9
<1>11. PICK top \in 0..(n + times) : Point(top)' = peak'
  <2>1. CASE value > peak
    <3>1. n + 1 \in (n + 1)..(n + times) /\ n + 1 \in 0..(n + times)
      BY <1>8
    <3>2. Point(n + 1)' = peak'
      BY <2>1, <3>1, <1>1, <1>5 DEF Larger
    <3> QED
      BY <3>1, <3>2
  <2>2. CASE ~(value > peak)
    <3>1. PICK k \in 0..n : Point(k) = peak
      BY <1>6
    <3>2. k \in 0..(n + times)
      BY <1>8
    <3>3. Point(k)' = peak'
      <4>1. peak' = peak
        BY <2>2, <1>1 DEF Larger
      <4>2. Point(k)' = Point(k)
        BY <3>1, <1>4
      <4> QED
        BY <3>1, <4>1, <4>2
    <3> QED
      BY <3>2, <3>3
  <2> QED
    BY <2>1, <2>2
<1>12. ASSUME NEW j \in 0..(n + times), NEW k \in 0..(n + times), j <= k
       PROVE  Point(j)' - Point(k)' <= maxDrawdown'
  <2>1. CASE k \in 0..n
    <3>1. j \in 0..n
      BY <1>8, <1>12, <2>1
    <3>2. Point(j) - Point(k) <= maxDrawdown
      BY <1>6, <1>12, <2>1, <3>1
    <3>3. Point(j)' = Point(j) /\ Point(k)' = Point(k) /\ Point(j) \in Int /\ Point(k) \in Int
      BY <1>3, <1>4, <2>1, <3>1
    <3> QED
      BY <3>2, <3>3, <1>1, <1>2, <1>7, SMTT(30)
  <2>2. CASE k \in (n + 1)..(n + times)
    <3>1. Point(k)' = value /\ Point(j)' \in Int /\ Point(j)' <= peak'
      BY <1>5, <1>10, <2>2
    <3> QED
      BY <3>1, <1>1, <1>7
  <2> QED
    BY <1>9, <2>1, <2>2
<1>13. \E j, k \in 0..(n + times) : j <= k /\ Point(j)' - Point(k)' = maxDrawdown'
  <2>1. CASE peak' - value > maxDrawdown
    <3>1. n + times \in (n + 1)..(n + times) /\ n + times \in 0..(n + times) /\ top <= n + times
      BY <1>8
    <3>2. Point(n + times)' = value
      BY <3>1, <1>5
    <3> QED
      BY <2>1, <3>1, <3>2, <1>1, <1>11 DEF Larger
  <2>2. CASE ~(peak' - value > maxDrawdown)
    <3>1. PICK j \in 0..n, k \in 0..n : j <= k /\ Point(j) - Point(k) = maxDrawdown
      BY <1>6
    <3>2. j \in 0..(n + times) /\ k \in 0..(n + times)
      BY <1>8
    <3>3. maxDrawdown' = maxDrawdown
      BY <2>2, <1>1 DEF Larger
    <3>4. Point(j)' = Point(j) /\ Point(k)' = Point(k)
      BY <3>1, <1>4
    <3> QED
      BY <3>1, <3>2, <3>3, <3>4
  <2> QED
    BY <2>1, <2>2
<1> QED
  BY <1>8, <1>10, <1>11, <1>12, <1>13 DEF DrawdownIsExact

(* The times of the points are numbers. *)
LEMMA CurveTimes ==
    ASSUME TypeOK
    PROVE  \A k \in 1..Len(curve) : curve[k].time \in Nat
<1>1. curve \in Seq(Points)
  BY DEF TypeOK, Points
<1>2. \A k \in 1..Len(curve) : curve[k] \in Points
  BY <1>1
<1> QED
  BY <1>2, BacktestAssumption DEF Points, BacktestAssumption

(* The times of the closed trades are numbers. *)
LEMMA TradeTimes ==
    ASSUME TypeOK
    PROVE  \A k \in 1..Len(trades) : trades[k].exitTime \in Nat
<1>1. trades \in Seq(ClosedTrades)
  BY DEF TypeOK
<1>2. \A k \in 1..Len(trades) : trades[k] \in ClosedTrades
  BY <1>1
<1> QED
  BY <1>2, ClosedTradeFields, BacktestAssumption DEF BacktestAssumption

(* A point that is later than the curve extends it. *)
LEMMA RecordKeepsCurve ==
    ASSUME TypeOK, CurveIsAFunction,
           NEW time \in 1..Length, NEW value \in Int, NEW times \in {1, 2},
           Record(time, value, times),
           \A k \in 1..Len(curve) : curve[k].time < time
    PROVE  /\ CurveIsAFunction'
           /\ \A k \in 1..Len(curve') : curve'[k].time <= time
<1>1. /\ Len(curve) \in Nat /\ Len(curve') = Len(curve) + times
      /\ \A k \in 1..Len(curve) : curve'[k] = curve[k]
      /\ \A k \in (Len(curve) + 1)..(Len(curve) + times) :
            curve'[k] = [time |-> time, equity |-> value]
  BY Recorded
<1>2. time \in Nat
  BY BacktestAssumption DEF BacktestAssumption
<1>3. \A k \in 1..Len(curve) : curve[k].time \in Nat
  BY CurveTimes
<1>4. \A k \in 1..Len(curve') :
         \/ k \in 1..Len(curve) /\ curve'[k] = curve[k] /\ curve'[k].time < time
         \/ /\ k \in (Len(curve) + 1)..(Len(curve) + times)
            /\ curve'[k].time = time /\ curve'[k].equity = value
  BY <1>1
<1>5. \A k \in 1..Len(curve') : curve'[k].time \in Nat
  BY <1>2, <1>3, <1>4
<1>6. \A k \in 1..Len(curve') : curve'[k].time <= time
  BY <1>2, <1>4, <1>5
<1>7. ASSUME NEW j \in 1..Len(curve'), NEW k \in 1..Len(curve')
      PROVE  /\ j < k => curve'[j].time <= curve'[k].time
             /\ curve'[j].time = curve'[k].time => curve'[j].equity = curve'[k].equity
  <2>1. CASE j \in 1..Len(curve) /\ k \in 1..Len(curve)
    BY <2>1, <1>1 DEF CurveIsAFunction
  <2>2. CASE j \notin 1..Len(curve) /\ k \notin 1..Len(curve)
    BY <2>2, <1>2, <1>4
  <2>3. CASE j \in 1..Len(curve) /\ k \notin 1..Len(curve)
    BY <2>3, <1>2, <1>4, <1>5
  <2>4. CASE j \notin 1..Len(curve) /\ k \in 1..Len(curve)
    BY <2>4, <1>1, <1>2, <1>4, <1>5
  <2> QED
    BY <2>1, <2>2, <2>3, <2>4
<1> QED
  BY <1>6, <1>7 DEF CurveIsAFunction

-----------------------------------------------------------------------------
(* The invariant.                                                          *)

(* A backtest begins in its invariant (engine.py, run_backtest).            *)
LEMMA InitialBacktest == Init => BacktestInv
<1> SUFFICES ASSUME Init PROVE BacktestInv
  OBVIOUS
<1>1. TypeOK
  BY BacktestAssumption DEF Init, TypeOK, BacktestAssumption
<1>2. AccountsBalance
  BY DEF Init, AccountsBalance, EquityAfter
<1>3. DrawdownIsExact
  <2>1. Len(curve) = 0 /\ Point(0) = peak /\ Point(0) \in Int /\ maxDrawdown = 0
    BY BacktestAssumption DEF Init, Point, BacktestAssumption
  <2> QED
    BY <2>1 DEF DrawdownIsExact
<1>4. TradesInOrder /\ ExitsPay /\ CurveIsAFunction /\ PositionIsSound /\ HistoryIsPast
  BY DEF Init, TradesInOrder, ExitsPay, CurveIsAFunction, PositionIsSound, HistoryIsPast
<1> QED
  BY <1>1, <1>2, <1>3, <1>4 DEF BacktestInv

(* A bar on which the open trade ends. *)
LEMMA BarThatEndsKeeps ==
    ASSUME BacktestInv, position # NoTrade, NEW c \in Candles, BarCloses(c),
           NEW exit \in Int, NEW reason \in {"SL", "TP1"},
           reason = "SL" => exit = StopFill(position),
           reason = "TP1" => exit = position.target,
           CloseTrade(exit, reason)
    PROVE  BacktestInv'
<1>1. TypeOK /\ position \in OpenTrades /\ equity \in Int /\ bar \in Nat /\ bar < Length /\ Length \in Nat
  BY BacktestAssumption DEF BacktestInv, TypeOK, BarCloses, BacktestAssumption
<1>2. PICK time : time = bar + 1
  OBVIOUS
<1>3. PICK value : value = equity + Pnl(position, exit)
  OBVIOUS
<1>4. time \in 1..Length /\ value \in Int /\ bar' = time
  BY <1>1, <1>2, <1>3, PnlIsInt DEF BarCloses
<1>5. /\ trades' = Append(trades, Closed(position, time, exit, reason))
      /\ Record(time, value, 2)
      /\ position' = NoTrade
  BY <1>3, <1>4 DEF CloseTrade, Record
<1>6. position.entryTime <= time
  BY <1>1, <1>2 DEF BacktestInv, PositionIsSound, BarCloses
<1>7. equity' = value
  BY <1>5 DEF Record
<1>8. /\ trades' \in Seq(ClosedTrades) /\ equity' \in Int
      /\ AccountsBalance' /\ TradesInOrder' /\ ExitsPay'
      /\ \A k \in 1..Len(trades') :
            trades'[k].exitTime \in {time} \cup {trades[j].exitTime : j \in 1..Len(trades)}
  BY <1>3, <1>4, <1>5, <1>6, <1>7, EndedTradeIsBooked
<1>9. \A k \in 1..Len(curve) : curve[k].time < time
  <2>1. \A k \in 1..Len(curve) : curve[k].time <= bar /\ curve[k].time \in Nat
    BY CurveTimes DEF BacktestInv, HistoryIsPast
  <2> QED
    BY <2>1, <1>1, <1>2
<1>10. CurveIsAFunction' /\ \A k \in 1..Len(curve') : curve'[k].time <= time
  BY <1>1, <1>4, <1>5, <1>9, RecordKeepsCurve DEF BacktestInv
<1>11. DrawdownIsExact'
  BY <1>1, <1>4, <1>5, RecordKeepsDrawdown DEF BacktestInv
<1>12. peak' \in Int /\ maxDrawdown' \in Nat /\ curve' \in Seq(Points)
  BY <1>1, <1>4, <1>5, Recorded
<1>13. /\ pc' = "decide" /\ bar' \in 1..Length /\ close' \in Prices
       /\ nextOpen' \in Prices /\ position' = NoTrade
  BY <1>1, <1>4, <1>5 DEF BarCloses, TypeOK, Candles
<1>14. TypeOK'
  BY <1>1, <1>8, <1>12, <1>13 DEF TypeOK, Points
<1>15. PositionIsSound'
  BY <1>13 DEF PositionIsSound
<1>16. HistoryIsPast'
  <2>1. \A j \in 1..Len(trades) : trades[j].exitTime <= bar /\ trades[j].exitTime \in Nat
    BY TradeTimes DEF BacktestInv, HistoryIsPast
  <2>2. \A k \in 1..Len(trades') : trades'[k].exitTime <= time
    BY <1>1, <1>2, <1>8, <2>1, SMTT(30)
  <2> QED
    BY <1>4, <1>10, <1>13, <2>2 DEF HistoryIsPast
<1> QED
  BY <1>8, <1>10, <1>11, <1>14, <1>15, <1>16 DEF BacktestInv

(* A bar that leaves an open trade open. *)
LEMMA HoldsKeeps ==
    ASSUME BacktestInv, NEW c \in Candles, Holds(c)
    PROVE  BacktestInv'
<1>1. /\ position # NoTrade /\ position \in OpenTrades
      /\ pc = "bar" /\ bar \in Nat /\ bar < Length /\ Length \in Nat
      /\ pc' = "decide" /\ bar' = bar + 1 /\ bar' \in 1..Length /\ close' \in Prices
      /\ nextOpen' \in Prices /\ position' = position /\ trades' = trades
      /\ equity' = equity /\ peak' = peak /\ maxDrawdown' = maxDrawdown /\ curve' = curve
  BY BacktestAssumption
     DEF BacktestInv, TypeOK, Holds, BarCloses, Candles, portfolio, BacktestAssumption
<1>2. TypeOK'
  BY <1>1 DEF BacktestInv, TypeOK
<1>3. AccountsBalance' /\ TradesInOrder'
  BY <1>1 DEF BacktestInv, AccountsBalance, TradesInOrder, EquityAfter
<1>4. DrawdownIsExact' /\ ExitsPay' /\ CurveIsAFunction'
  BY <1>1 DEF BacktestInv, DrawdownIsExact, Point, ExitsPay, CurveIsAFunction
<1>5. PositionIsSound'
  BY <1>1 DEF BacktestInv, PositionIsSound
<1>6. HistoryIsPast'
  <2>1. \A k \in 1..Len(trades) : trades[k].exitTime <= bar /\ trades[k].exitTime \in Nat
    BY TradeTimes DEF BacktestInv, HistoryIsPast
  <2>2. \A k \in 1..Len(curve) : curve[k].time <= bar /\ curve[k].time \in Nat
    BY CurveTimes DEF BacktestInv, HistoryIsPast
  <2> QED
    BY <1>1, <2>1, <2>2 DEF HistoryIsPast
<1> QED
  BY <1>2, <1>3, <1>4, <1>5, <1>6 DEF BacktestInv

(* A bar without a trade. *)
LEMMA FlatKeeps ==
    ASSUME BacktestInv, NEW c \in Candles, Flat(c)
    PROVE  BacktestInv'
<1>1. /\ TypeOK
      /\ pc = "bar" /\ bar \in Nat /\ bar < Length /\ Length \in Nat /\ equity \in Int
      /\ pc' = "decide" /\ bar' = bar + 1 /\ bar' \in 1..Length /\ close' \in Prices
      /\ nextOpen' \in Prices
      /\ position = NoTrade /\ position' = NoTrade
      /\ trades' = trades /\ trades \in Seq(ClosedTrades)
  BY BacktestAssumption
     DEF BacktestInv, TypeOK, Flat, BarCloses, Candles, BacktestAssumption
<1>2. PICK time : time = bar + 1
  OBVIOUS
<1>3. PICK value : value = equity
  OBVIOUS
<1>4. time \in 1..Length /\ value \in Int /\ bar' = time
  BY <1>1, <1>2, <1>3
<1>5. Record(time, value, 1)
  BY <1>3, <1>4 DEF Flat, Record
<1>6. equity' = equity
  BY <1>3, <1>5 DEF Record
<1>7. \A k \in 1..Len(curve) : curve[k].time < time
  <2>1. \A k \in 1..Len(curve) : curve[k].time <= bar /\ curve[k].time \in Nat
    BY CurveTimes DEF BacktestInv, HistoryIsPast
  <2> QED
    BY <2>1, <1>1, <1>2
<1>8. CurveIsAFunction' /\ \A k \in 1..Len(curve') : curve'[k].time <= time
  BY <1>1, <1>4, <1>5, <1>7, RecordKeepsCurve DEF BacktestInv
<1>9. DrawdownIsExact'
  BY <1>1, <1>4, <1>5, RecordKeepsDrawdown DEF BacktestInv
<1>10. peak' \in Int /\ maxDrawdown' \in Nat /\ curve' \in Seq(Points)
  BY <1>1, <1>4, <1>5, Recorded
<1>11. TypeOK'
  BY <1>1, <1>6, <1>10 DEF TypeOK, Points
<1>12. AccountsBalance' /\ TradesInOrder' /\ ExitsPay' /\ PositionIsSound'
  BY <1>1, <1>6 DEF BacktestInv, AccountsBalance, TradesInOrder, ExitsPay,
                    PositionIsSound, EquityAfter
<1>13. HistoryIsPast'
  <2>1. \A k \in 1..Len(trades) : trades[k].exitTime <= bar /\ trades[k].exitTime \in Nat
    BY TradeTimes DEF BacktestInv, HistoryIsPast
  <2>2. \A k \in 1..Len(trades') : trades'[k].exitTime <= time
    BY <2>1, <1>1, <1>2
  <2> QED
    BY <2>2, <1>1, <1>4, <1>8 DEF HistoryIsPast
<1> QED
  BY <1>8, <1>9, <1>11, <1>12, <1>13 DEF BacktestInv

(* The levels of a trade that is opened lie where the signal put them, and *)
(* it is opened on a positive equity.                                      *)
LEMMA EntryIsSound ==
    ASSUME TypeOK, pc = "decide", bar < Length,
           NEW dir \in Directions, NEW risk \in Risks, Entered(dir, risk).size > 0
    PROVE  /\ Entered(dir, risk) \in OpenTrades
           /\ Entered(dir, risk).entryTime = bar + 1
           /\ Entered(dir, risk).equityBefore = equity
           /\ Entered(dir, risk).dir = dir
           /\ Entered(dir, risk).entry = EntryFill(nextOpen, dir)
           /\ Sign(dir) * (Entered(dir, risk).entry - Entered(dir, risk).stop) > 0
           /\ Sign(dir) * (Entered(dir, risk).target - Entered(dir, risk).entry) > 0
           /\ equity > 0
<1> DEFINE entry == EntryFill(nextOpen, dir)
           stop == Shifted(close - Sign(dir) * risk, entry)
           target == Shifted(close + 2 * Sign(dir) * risk, entry)
           size == PositionSize(Distance(entry, stop))
<1>1. /\ close \in Nat /\ risk \in Nat /\ close > 2 * risk
      /\ nextOpen \in Nat /\ Adverse \in Nat
      /\ equity \in Int /\ bar + 1 \in 1..Length
  <2>1. /\ close \in Prices /\ nextOpen \in Prices /\ equity \in Int
        /\ bar \in 0..Length
    BY DEF TypeOK
  <2>2. /\ Length \in Nat /\ Adverse \in Nat /\ Prices \subseteq Nat /\ Risks \subseteq Nat
        /\ \A p \in Prices, r \in Risks : p > 2 * r
    BY BacktestAssumption DEF BacktestAssumption
  <2> QED
    BY <2>1, <2>2
<1>2. Sign(dir) \in {1, -1}
  BY SignIsOne
<1>3. entry \in Int
  BY <1>1, <1>2 DEF EntryFill
<1>4. Entered(dir, risk) = [dir |-> dir, entryTime |-> bar + 1, entry |-> entry, stop |-> stop,
                            target |-> target, size |-> size, equityBefore |-> equity]
  BY DEF Entered
<1> HIDE DEF entry
<1>5. stop \in Int /\ target \in Int
      /\ Sign(dir) * (entry - stop) = risk /\ Sign(dir) * (target - entry) = 2 * risk
  <2>1. CASE Sign(dir) = 1
    BY <2>1, <1>1, <1>3 DEF Shifted
  <2>2. CASE Sign(dir) = -1
    BY <2>2, <1>1, <1>3 DEF Shifted
  <2> QED
    BY <2>1, <2>2, <1>2
<1> HIDE DEF stop, target
<1>6. Distance(entry, stop) \in Int /\ (Distance(entry, stop) > 0 => risk > 0)
  BY <1>1, <1>2, <1>3, <1>5 DEF Distance
<1>7. size > 0
  BY <1>4
<1>8. size \in Nat \ {0} /\ equity > 0 /\ risk > 0
  BY <1>1, <1>6, <1>7, SizeIsSound
<1> HIDE DEF size
<1>9. Entered(dir, risk) \in OpenTrades
  BY <1>1, <1>3, <1>4, <1>5, <1>8 DEF OpenTrades
<1> QED
  BY <1>1, <1>4, <1>5, <1>8, <1>9 DEF entry

(* Opening a trade. *)
LEMMA EnterKeeps ==
    ASSUME BacktestInv, NEW dir \in Directions, NEW risk \in Risks, Enter(dir, risk)
    PROVE  BacktestInv'
<1>1. /\ TypeOK /\ pc = "decide" /\ bar < Length /\ bar \in Nat
      /\ Entered(dir, risk).size > 0 /\ position' = Entered(dir, risk)
      /\ pc' = "bar" /\ nextOpen' = nextOpen
      /\ bar' = bar /\ close' = close /\ trades' = trades
      /\ equity' = equity /\ peak' = peak /\ maxDrawdown' = maxDrawdown /\ curve' = curve
  BY BacktestAssumption
     DEF BacktestInv, TypeOK, Enter, MayEnter, NextBar, portfolio, BacktestAssumption
<1>2. /\ position' \in OpenTrades
      /\ position'.entryTime = bar + 1 /\ position'.equityBefore = equity
      /\ position'.entry = EntryFill(nextOpen, position'.dir)
      /\ Sign(position'.dir) * (position'.entry - position'.stop) > 0
      /\ Sign(position'.dir) * (position'.target - position'.entry) > 0
      /\ equity > 0
  BY <1>1, EntryIsSound
<1>3. TypeOK'
  BY <1>1, <1>2 DEF TypeOK
<1>4. AccountsBalance'
  BY <1>1, <1>2 DEF BacktestInv, AccountsBalance, EquityAfter
<1>5. DrawdownIsExact' /\ ExitsPay' /\ CurveIsAFunction'
  BY <1>1 DEF BacktestInv, DrawdownIsExact, Point, ExitsPay, CurveIsAFunction
<1>6. \A k \in 1..Len(trades) : trades[k].exitTime <= bar /\ trades[k].exitTime \in Nat
  BY TradeTimes DEF BacktestInv, HistoryIsPast
<1>7. TradesInOrder'
  BY <1>1, <1>2, <1>6 DEF BacktestInv, TradesInOrder
<1>8. PositionIsSound'
  BY <1>1, <1>2 DEF PositionIsSound, EntryFill
<1>9. HistoryIsPast'
  BY <1>1 DEF BacktestInv, HistoryIsPast
<1> QED
  BY <1>3, <1>4, <1>5, <1>7, <1>8, <1>9 DEF BacktestInv

(* Going on to the next bar, or to the report. *)
LEMMA SkipKeeps ==
    ASSUME BacktestInv, Skip
    PROVE  BacktestInv'
<1>1. /\ pc = "decide" /\ pc' = (IF bar = Length THEN "report" ELSE "bar")
      /\ nextOpen' = nextOpen /\ bar \in Nat /\ bar <= Length /\ Length \in Nat
      /\ bar' = bar /\ close' = close /\ position' = position /\ trades' = trades
      /\ equity' = equity /\ peak' = peak /\ maxDrawdown' = maxDrawdown /\ curve' = curve
  BY BacktestAssumption
     DEF BacktestInv, TypeOK, Skip, NextBar, portfolio, BacktestAssumption
<1>2. TypeOK'
  BY <1>1 DEF BacktestInv, TypeOK
<1>3. AccountsBalance' /\ TradesInOrder' /\ ExitsPay' /\ CurveIsAFunction'
  BY <1>1 DEF BacktestInv, AccountsBalance, TradesInOrder, EquityAfter, ExitsPay, CurveIsAFunction
<1>4. DrawdownIsExact'
  BY <1>1 DEF BacktestInv, DrawdownIsExact, Point
<1>5. PositionIsSound'
  <2>1. position # NoTrade => position.entryTime \in Nat
    BY OpenTradeFields, BacktestAssumption DEF BacktestInv, TypeOK, BacktestAssumption
  <2> QED
    BY <1>1, <2>1 DEF BacktestInv, PositionIsSound
<1>6. HistoryIsPast'
  BY <1>1 DEF BacktestInv, HistoryIsPast
<1> QED
  BY <1>2, <1>3, <1>4, <1>5, <1>6 DEF BacktestInv

(* The forced end of the last trade. *)
LEMMA ForceCloseKeeps ==
    ASSUME BacktestInv, ForceClose
    PROVE  BacktestInv'
<1>1. /\ TypeOK /\ position # NoTrade /\ position \in OpenTrades /\ equity \in Int
      /\ pc = "report" /\ bar = Length /\ Length \in Nat \ {0} /\ close \in Prices /\ close \in Int
      /\ pc' = pc /\ bar' = bar /\ close' = close /\ nextOpen' = nextOpen /\ position' = NoTrade
  <2>1. /\ TypeOK /\ position # NoTrade /\ pc = "report"
        /\ pc' = pc /\ bar' = bar /\ close' = close /\ nextOpen' = nextOpen /\ position' = NoTrade
    BY DEF BacktestInv, ForceClose
  <2>2. Length \in Nat \ {0} /\ Prices \subseteq Nat
    BY BacktestAssumption DEF BacktestAssumption
  <2>3. bar = Length /\ close \in Prices /\ position \in OpenTrades /\ equity \in Int
    BY <2>1, <2>2 DEF TypeOK
  <2> QED
    BY <2>1, <2>2, <2>3
<1>2. PICK time : time = bar
  OBVIOUS
<1>3. PICK exit : exit = close
  OBVIOUS
<1>4. PICK value : value = equity + Pnl(position, exit)
  OBVIOUS
<1>5. time \in 1..Length /\ exit \in Int /\ value \in Int
  BY <1>1, <1>2, <1>3, <1>4, PnlIsInt
<1>6. /\ trades' = Append(trades, Closed(position, time, exit, "END"))
      /\ Record(time, value, 1)
  BY <1>2, <1>3, <1>4 DEF ForceClose, Record
<1>7. position.entryTime <= time
  BY <1>1, <1>2 DEF BacktestInv, PositionIsSound
<1>8. equity' = value
  BY <1>6 DEF Record
<1>9. /\ trades' \in Seq(ClosedTrades) /\ equity' \in Int
      /\ AccountsBalance' /\ TradesInOrder' /\ ExitsPay'
      /\ \A k \in 1..Len(trades') :
            trades'[k].exitTime \in {time} \cup {trades[j].exitTime : j \in 1..Len(trades)}
  BY <1>1, <1>4, <1>5, <1>6, <1>7, <1>8, EndedTradeIsBooked
<1>10. \A k \in 1..Len(curve) : curve[k].time < time
  BY <1>1, <1>2 DEF BacktestInv, HistoryIsPast
<1>11. CurveIsAFunction' /\ \A k \in 1..Len(curve') : curve'[k].time <= time
  BY <1>1, <1>5, <1>6, <1>10, RecordKeepsCurve DEF BacktestInv
<1>12. DrawdownIsExact'
  BY <1>1, <1>5, <1>6, RecordKeepsDrawdown DEF BacktestInv
<1>13. peak' \in Int /\ maxDrawdown' \in Nat /\ curve' \in Seq(Points)
  BY <1>1, <1>5, <1>6, Recorded
<1>14. TypeOK'
  BY <1>1, <1>9, <1>13 DEF TypeOK, Points
<1>15. PositionIsSound'
  BY <1>1 DEF PositionIsSound
<1>16. HistoryIsPast'
  <2>1. \A j \in 1..Len(trades) : trades[j].exitTime <= time
    BY <1>2 DEF BacktestInv, HistoryIsPast
  <2>2. \A k \in 1..Len(trades') : trades'[k].exitTime <= time
    BY <1>5, <1>9, <2>1, BacktestAssumption, SMTT(30) DEF BacktestAssumption
  <2> QED
    BY <1>1, <1>2, <1>11, <2>2 DEF HistoryIsPast
<1> QED
  BY <1>9, <1>11, <1>12, <1>14, <1>15, <1>16 DEF BacktestInv

(* The report, and steps that change nothing. *)
LEMMA ReportKeeps ==
    ASSUME BacktestInv, Report \/ UNCHANGED vars
    PROVE  BacktestInv'
<1>1. /\ position' = position /\ bar' = bar /\ close' = close /\ nextOpen' = nextOpen
      /\ trades' = trades /\ equity' = equity /\ peak' = peak
      /\ maxDrawdown' = maxDrawdown /\ curve' = curve
      /\ pc' = pc \/ (pc = "report" /\ pc' = "done")
  BY DEF Report, vars, portfolio
<1>2. TypeOK' /\ PositionIsSound' /\ HistoryIsPast'
  BY <1>1 DEF BacktestInv, TypeOK, PositionIsSound, HistoryIsPast
<1>3. AccountsBalance' /\ TradesInOrder' /\ ExitsPay' /\ CurveIsAFunction'
  BY <1>1 DEF BacktestInv, AccountsBalance, TradesInOrder, EquityAfter, ExitsPay, CurveIsAFunction
<1>4. DrawdownIsExact'
  BY <1>1 DEF BacktestInv, DrawdownIsExact, Point
<1> QED
  BY <1>2, <1>3, <1>4 DEF BacktestInv

(* Every step of run_backtest preserves its invariant (engine.py).          *)
LEMMA BacktestStepKeeps == BacktestInv /\ [Next]_vars => BacktestInv'
<1> SUFFICES ASSUME BacktestInv, [Next]_vars PROVE BacktestInv'
  OBVIOUS
<1>1. ASSUME NEW c \in Candles, HitsStop(c) PROVE BacktestInv'
  <2>1. position # NoTrade /\ BarCloses(c) /\ CloseTrade(StopFill(position), "SL")
    BY <1>1 DEF HitsStop
  <2>2. StopFill(position) \in Int
    BY <2>1, StopLoses DEF BacktestInv, TypeOK, PositionIsSound
  <2>3. PICK exit \in Int : exit = StopFill(position)
    BY <2>2
  <2>4. CloseTrade(exit, "SL")
    BY <2>1, <2>3
  <2> QED
    BY <2>1, <2>3, <2>4, BarThatEndsKeeps
<1>2. ASSUME NEW c \in Candles, HitsTarget(c) PROVE BacktestInv'
  <2>1. position # NoTrade /\ BarCloses(c) /\ CloseTrade(position.target, "TP1")
    BY <1>2 DEF HitsTarget
  <2>2. position.target \in Int
    BY <2>1, OpenTradeFields DEF BacktestInv, TypeOK
  <2>3. PICK exit \in Int : exit = position.target
    BY <2>2
  <2>4. CloseTrade(exit, "TP1")
    BY <2>1, <2>3
  <2> QED
    BY <2>1, <2>3, <2>4, BarThatEndsKeeps
<1>3. ASSUME NEW c \in Candles, Holds(c) PROVE BacktestInv'
  BY <1>3, HoldsKeeps
<1>4. ASSUME NEW c \in Candles, Flat(c) PROVE BacktestInv'
  BY <1>4, FlatKeeps
<1>5. ASSUME NEW dir \in Directions, NEW risk \in Risks, Enter(dir, risk) PROVE BacktestInv'
  BY <1>5, EnterKeeps
<1>6. CASE Skip
  BY <1>6, SkipKeeps
<1>7. CASE ForceClose
  BY <1>7, ForceCloseKeeps
<1>8. CASE Report \/ UNCHANGED vars
  BY <1>8, ReportKeeps
<1> QED
  BY <1>1, <1>2, <1>3, <1>4, <1>5, <1>6, <1>7, <1>8 DEF Next

-----------------------------------------------------------------------------
(* The books are right at every bar of every backtest.                     *)
THEOREM BacktestInvariant == Spec => []BacktestInv
<1>1. Init => BacktestInv
  BY InitialBacktest
<1>2. BacktestInv /\ [Next]_vars => BacktestInv'
  BY BacktestStepKeeps
<1> QED
  BY <1>1, <1>2, PTL DEF Spec

(* Every trade is sized on what the previous ones left, and the final      *)
(* equity is what they made of the initial one.                            *)
THEOREM BooksBalance == Spec => []AccountsBalance
<1>1. BacktestInv => AccountsBalance
  BY DEF BacktestInv
<1> QED
  BY <1>1, BacktestInvariant, PTL

(* The peak and drawdown of the report are those of its equity curve.      *)
THEOREM DrawdownIsThatOfTheCurve == Spec => []DrawdownIsExact
<1>1. BacktestInv => DrawdownIsExact
  BY DEF BacktestInv
<1> QED
  BY <1>1, BacktestInvariant, PTL

(* Trades do not overlap.                                                  *)
THEOREM OneTradeAtATime == Spec => []TradesInOrder
<1>1. BacktestInv => TradesInOrder
  BY DEF BacktestInv
<1> QED
  BY <1>1, BacktestInvariant, PTL

(* A stop costs what the trade risked, a target earns.                     *)
THEOREM StopsCostTargetsEarn == Spec => []ExitsPay
<1>1. BacktestInv => ExitsPay
  BY DEF BacktestInv
<1> QED
  BY <1>1, BacktestInvariant, PTL

(* The equity curve is a function of time.                                 *)
THEOREM CurveOverTime == Spec => []CurveIsAFunction
<1>1. BacktestInv => CurveIsAFunction
  BY DEF BacktestInv
<1> QED
  BY <1>1, BacktestInvariant, PTL

(* Without pyramiding an open trade leaves only into the list of trades.   *)
THEOREM NoTradeVanishes ==
    ASSUME ~AllowPyramiding
    PROVE  Spec => EveryTradeIsReported
<1> DEFINE Reported ==
       position # NoTrade /\ position' # position =>
          /\ Len(trades') = Len(trades) + 1
          /\ trades'[Len(trades')].entryTime = position.entryTime
<1>1. ASSUME BacktestInv, [Next]_vars PROVE Reported
  <2> SUFFICES ASSUME position # NoTrade, position' # position
               PROVE  /\ Len(trades') = Len(trades) + 1
                      /\ trades'[Len(trades')].entryTime = position.entryTime
    OBVIOUS
  <2>1. trades \in Seq(ClosedTrades) /\ position \in OpenTrades
    BY <1>1 DEF BacktestInv, TypeOK
  <2>2. \/ \E c \in Candles : HitsStop(c) \/ HitsTarget(c)
        \/ ForceClose
    BY <1>1 DEF Next, Holds, Flat, Enter, MayEnter, Skip, Report, vars
  <2>3. PICK time, exit, reason : trades' = Append(trades, Closed(position, time, exit, reason))
    BY <2>2 DEF HitsStop, HitsTarget, CloseTrade, ForceClose
  <2>4. Closed(position, time, exit, reason).entryTime = position.entryTime
    BY DEF Closed
  <2> QED
    BY <2>1, <2>3, <2>4
<1>2. BacktestInv /\ [Next]_vars => [Reported]_vars
  BY <1>1
<1> HIDE DEF Reported
<1>3. Spec => [][Reported]_vars
  BY <1>2, BacktestInvariant, PTL DEF Spec
<1> QED
  BY <1>3 DEF EveryTradeIsReported, Reported

(* No trade is opened on an account that is used up.                       *)
THEOREM BustStays == Spec => BustIsFinal
<1>1. ASSUME BacktestInv, [Next]_vars, equity <= 0
      PROVE  equity' = equity /\ position' = NoTrade
  <2>1. TypeOK /\ equity \in Int /\ position = NoTrade
    BY <1>1 DEF BacktestInv, TypeOK, PositionIsSound
  <2>2. ASSUME NEW dir \in Directions, NEW risk \in Risks, Enter(dir, risk) PROVE FALSE
    <3>1. pc = "decide" /\ bar < Length /\ Entered(dir, risk).size > 0
      BY <2>2 DEF Enter, MayEnter
    <3>2. equity > 0
      BY <2>1, <3>1, EntryIsSound
    <3> QED
      BY <1>1, <2>1, <3>2
  <2>3. \/ \E c \in Candles : Flat(c)
        \/ Skip
        \/ Report
        \/ UNCHANGED vars
    BY <1>1, <2>1, <2>2 DEF Next, HitsStop, HitsTarget, Holds, ForceClose
  <2> QED
    BY <2>1, <2>3 DEF Flat, Record, Skip, Report, vars, portfolio
<1>2. BacktestInv /\ [Next]_vars => [equity <= 0 => equity' = equity /\ position' = NoTrade]_vars
  BY <1>1
<1> QED
  BY <1>2, BacktestInvariant, PTL DEF Spec, BustIsFinal

-----------------------------------------------------------------------------
(* The statistics of the report.                                           *)

(* Gross(amounts) is the last of the partial sums of the amounts.          *)
AreGrossSums(s, amounts) ==
    s[0] = 0 /\ \A k \in 1..Len(amounts) : s[k] = s[k - 1] + amounts[k]

LEMMA GrossSums ==
    ASSUME NEW amounts, Len(amounts) \in Nat, \A k \in 1..Len(amounts) : amounts[k] \in Int
    PROVE  \E s \in [0..Len(amounts) -> Int] :
              AreGrossSums(s, amounts) /\ Gross(amounts) = s[Len(amounts)]
<1> DEFINE n == Len(amounts)
           Is(s) == s = [k \in 0..n |-> IF k = 0 THEN 0 ELSE s[k - 1] + amounts[k]]
           step == [k \in 1..n |-> [x \in Int |-> x + amounts[k]]]
           sums == CHOOSE s : Is(s)
<1>1. n \in Int /\ 0 \in Int /\ 0 <= n
  OBVIOUS
<1> HIDE DEF n
<1>2. ASSUME NEW k \in (0 + 1)..n, NEW x \in Int
      PROVE  step[k][x] = x + amounts[k] /\ step[k][x] \in Int
  BY DEF n
<1> HIDE DEF step
<1>3. IsStep(step, (0 + 1)..n, Int)
  BY <1>2 DEF IsStep
<1>4. \A k \in (0 + 1)..n : k \in 0..n /\ k - 1 \in 0..n /\ k # 0
  BY <1>1
<1>5. PICK s \in [0..n -> Int] : Follows(s, 0, n, 0, step)
  BY <1>1, <1>3, RecursiveFunctionExists
<1>6. \A k \in 0..n : s[k] = IF k = 0 THEN 0 ELSE s[k - 1] + amounts[k]
  <2> SUFFICES ASSUME NEW k \in 0..n PROVE s[k] = IF k = 0 THEN 0 ELSE s[k - 1] + amounts[k]
    OBVIOUS
  <2>1. CASE k = 0
    BY <2>1, <1>1, <1>5 DEF Follows
  <2>2. CASE k # 0
    <3>1. k \in (0 + 1)..n
      BY <2>2, <1>1
    <3> QED BY <2>2, <3>1, <1>2, <1>4, <1>5 DEF Follows
  <2> QED BY <2>1, <2>2
<1>7. Is(s)
  BY <1>6
<1>8. Is(sums)
  <2> HIDE DEF Is
  <2> QED BY <1>7
<1> HIDE DEF sums
<1>9. \A k \in 0..n : sums[k] = IF k = 0 THEN 0 ELSE sums[k - 1] + amounts[k]
  BY <1>8
<1>10. Obeys(sums, 0, n, Int, 0, step)
  <2>1. sums = [k \in 0..n |-> sums[k]]
    BY <1>8
  <2>2. sums[0] = 0
    BY <1>1, <1>9
  <2>3. ASSUME NEW k \in (0 + 1)..n, sums[k - 1] \in Int PROVE sums[k] = step[k][sums[k - 1]]
    BY <2>3, <1>2, <1>4, <1>9
  <2> QED BY <2>1, <2>2, <2>3 DEF Obeys
<1>11. sums \in [0..n -> Int] /\ Follows(sums, 0, n, 0, step)
  BY <1>1, <1>3, <1>10, RecursiveFunctionTyped
<1>12. AreGrossSums(sums, amounts)
  BY <1>1, <1>4, <1>9 DEF AreGrossSums, n
<1>13. Gross(amounts) = sums[n]
  BY DEF Gross, sums, n
<1> QED BY <1>11, <1>12, <1>13 DEF n

Streaks == [current : Nat, best : Nat]

(* s[k] is the streak after k of the trades.                               *)
AreStreaks(s) ==
    s[0] = NoStreak /\ \A k \in 1..Len(trades) : s[k] = Streak(s[k - 1], trades[k])

LEMMA StreakIn ==
    ASSUME NEW t, NEW x \in Streaks
    PROVE  /\ Streak(x, t) \in Streaks
           /\ Streak(x, t).current = IF Lost(t) THEN x.current + 1 ELSE 0
           /\ Streak(x, t).best = Larger(x.best, Streak(x, t).current)
<1>1. Streak(x, t).current = IF Lost(t) THEN x.current + 1 ELSE 0
  BY DEF Streak
<1>2. Streak(x, t).best = Larger(x.best, Streak(x, t).current)
  BY DEF Streak
<1>3. Streak(x, t).current \in Nat
  BY <1>1 DEF Streaks
<1>4. Streak(x, t).best \in Nat
  BY <1>2, <1>3 DEF Streaks, Larger
<1>5. Streak(x, t) = [current |-> Streak(x, t).current, best |-> Streak(x, t).best]
  BY DEF Streak
<1> QED BY <1>1, <1>2, <1>3, <1>4, <1>5 DEF Streaks

LEMMA StreaksOfTrades ==
    ASSUME Len(trades) \in Nat
    PROVE  \E s \in [0..Len(trades) -> Streaks] :
              AreStreaks(s) /\ MaxConsecutiveLosses = s[Len(trades)].best
<1> DEFINE n == Len(trades)
           Is(s) == s = [k \in 0..n |-> IF k = 0 THEN NoStreak ELSE Streak(s[k - 1], trades[k])]
           step == [k \in 1..n |-> [x \in Streaks |-> Streak(x, trades[k])]]
           streaks == CHOOSE s : Is(s)
<1>1. n \in Int /\ 0 \in Int /\ 0 <= n /\ NoStreak \in Streaks
  BY DEF NoStreak, Streaks
<1> HIDE DEF n
<1>2. ASSUME NEW k \in (0 + 1)..n, NEW x \in Streaks
      PROVE  step[k][x] = Streak(x, trades[k]) /\ step[k][x] \in Streaks
  BY StreakIn
<1> HIDE DEF step
<1>3. IsStep(step, (0 + 1)..n, Streaks)
  BY <1>2 DEF IsStep
<1>4. \A k \in (0 + 1)..n : k \in 0..n /\ k - 1 \in 0..n /\ k # 0
  BY <1>1
<1>5. PICK s \in [0..n -> Streaks] : Follows(s, 0, n, NoStreak, step)
  BY <1>1, <1>3, RecursiveFunctionExists
<1>6. \A k \in 0..n : s[k] = IF k = 0 THEN NoStreak ELSE Streak(s[k - 1], trades[k])
  <2> SUFFICES ASSUME NEW k \in 0..n
               PROVE  s[k] = IF k = 0 THEN NoStreak ELSE Streak(s[k - 1], trades[k])
    OBVIOUS
  <2>1. CASE k = 0
    BY <2>1, <1>1, <1>5 DEF Follows
  <2>2. CASE k # 0
    <3>1. k \in (0 + 1)..n
      BY <2>2, <1>1
    <3> QED BY <2>2, <3>1, <1>2, <1>4, <1>5 DEF Follows
  <2> QED BY <2>1, <2>2
<1>7. Is(s)
  BY <1>6
<1>8. Is(streaks)
  <2> HIDE DEF Is
  <2> QED BY <1>7
<1> HIDE DEF streaks
<1>9. \A k \in 0..n : streaks[k] = IF k = 0 THEN NoStreak ELSE Streak(streaks[k - 1], trades[k])
  BY <1>8
<1>10. Obeys(streaks, 0, n, Streaks, NoStreak, step)
  <2>1. streaks = [k \in 0..n |-> streaks[k]]
    BY <1>8
  <2>2. streaks[0] = NoStreak
    BY <1>1, <1>9
  <2>3. ASSUME NEW k \in (0 + 1)..n, streaks[k - 1] \in Streaks
        PROVE  streaks[k] = step[k][streaks[k - 1]]
    BY <2>3, <1>2, <1>4, <1>9
  <2> QED BY <2>1, <2>2, <2>3 DEF Obeys
<1>11. streaks \in [0..n -> Streaks] /\ Follows(streaks, 0, n, NoStreak, step)
  BY <1>1, <1>3, <1>10, RecursiveFunctionTyped
<1>12. AreStreaks(streaks)
  BY <1>1, <1>4, <1>9 DEF AreStreaks, n
<1>13. MaxConsecutiveLosses = streaks[n].best
  BY DEF MaxConsecutiveLosses, streaks, n
<1> QED BY <1>11, <1>12, <1>13 DEF n

-----------------------------------------------------------------------------
(* All of the trades from a to b lost.                                     *)
Run(a, b) == \A i \in a..b : Lost(trades[i])

(* After k trades: the current streak is the run of losses that ends with  *)
(* them, and the best one is the longest run among them.                   *)
CountsRuns(x, k) ==
    /\ x.current <= k
    /\ Run(k - x.current + 1, k)
    /\ x.current < k => ~Lost(trades[k - x.current])
    /\ \A a, b \in 1..k : Run(a, b) => b - a + 1 <= x.best
    /\ x.best = 0 \/ \E a, b \in 1..k : Run(a, b) /\ b - a + 1 = x.best

LEMMA StreakCounts ==
    ASSUME NEW k \in Nat, NEW x \in Streaks, CountsRuns(x, k)
    PROVE  CountsRuns(Streak(x, trades[k + 1]), k + 1)
<1> DEFINE t == trades[k + 1]
           y == Streak(x, t)
           c == x.current
<1>1. /\ y \in Streaks /\ y.current = IF Lost(t) THEN c + 1 ELSE 0
      /\ y.best = IF x.best > y.current THEN x.best ELSE y.current
  BY StreakIn DEF Larger
<1>2. c \in Nat /\ x.best \in Nat /\ y.current \in Nat /\ y.best \in Nat
  BY <1>1 DEF Streaks
<1>3. /\ c <= k /\ Run(k - c + 1, k) /\ (c < k => ~Lost(trades[k - c]))
      /\ \A a, b \in 1..k : Run(a, b) => b - a + 1 <= x.best
      /\ x.best = 0 \/ \E a, b \in 1..k : Run(a, b) /\ b - a + 1 = x.best
  BY DEF CountsRuns
<1> HIDE DEF y, c
<1>4. y.best >= x.best /\ y.best >= y.current
  BY <1>1, <1>2
<1>5. CASE Lost(t)
  <2>1. y.current = c + 1 /\ (k + 1) - y.current + 1 = k - c + 1 /\ (k + 1) - y.current = k - c
    BY <1>1, <1>2, <1>5
  <2>2. Run(k - c + 1, k + 1)
    <3> SUFFICES ASSUME NEW i \in (k - c + 1)..(k + 1) PROVE Lost(trades[i])
      BY DEF Run
    <3>1. CASE i = k + 1
      BY <3>1, <1>5
    <3>2. CASE i # k + 1
      <4>1. i \in (k - c + 1)..k
        BY <3>2, <1>2
      <4> QED BY <4>1, <1>3 DEF Run
    <3> QED BY <3>1, <3>2
  <2>3. ASSUME NEW a \in 1..(k + 1), NEW b \in 1..(k + 1), Run(a, b) PROVE b - a + 1 <= y.best
    <3>1. CASE b <= k /\ a <= k
      <4>1. a \in 1..k /\ b \in 1..k
        BY <3>1
      <4>2. b - a + 1 <= x.best
        BY <4>1, <2>3, <1>3
      <4> QED BY <4>2, <1>2, <1>4
    <3>2. CASE b = k + 1
      <4>1. a >= k - c + 1
        <5> SUFFICES ASSUME a <= k - c PROVE FALSE
          BY <1>2
        <5>1. c < k /\ k - c \in a..b
          BY <3>2, <1>2
        <5> QED BY <5>1, <1>3, <2>3 DEF Run
      <4> QED BY <4>1, <3>2, <2>1, <1>2, <1>4
    <3>3. CASE b <= k /\ a = k + 1
      BY <3>3, <1>2
    <3> QED BY <3>1, <3>2, <3>3
  <2>4. \E a, b \in 1..(k + 1) : Run(a, b) /\ b - a + 1 = y.best
    <3>1. CASE y.best = y.current
      <4>1. k - c + 1 \in 1..(k + 1) /\ k + 1 \in 1..(k + 1) /\ (k + 1) - (k - c + 1) + 1 = y.best
        BY <3>1, <2>1, <1>2, <1>3
      <4> QED BY <4>1, <2>2
    <3>2. CASE y.best # y.current
      <4>1. y.best = x.best /\ x.best # 0
        BY <3>2, <2>1, <1>1, <1>2
      <4>2. PICK a \in 1..k, b \in 1..k : Run(a, b) /\ b - a + 1 = x.best
        BY <4>1, <1>3
      <4>3. a \in 1..(k + 1) /\ b \in 1..(k + 1)
        OBVIOUS
      <4> QED BY <4>1, <4>2, <4>3
    <3> QED BY <3>1, <3>2
  <2>5. y.current <= k + 1 /\ (y.current < k + 1 => ~Lost(trades[(k + 1) - y.current]))
    BY <2>1, <1>2, <1>3
  <2>6. Run((k + 1) - y.current + 1, k + 1)
    BY <2>1, <2>2
  <2> QED BY <2>3, <2>4, <2>5, <2>6 DEF CountsRuns, y
<1>6. CASE ~Lost(t)
  <2>1. y.current = 0 /\ y.best = x.best
    BY <1>1, <1>2, <1>6
  <2>2. Run((k + 1) - y.current + 1, k + 1)
    BY <2>1 DEF Run
  <2>3. (k + 1) - y.current = k + 1 /\ ~Lost(trades[(k + 1) - y.current]) /\ y.current <= k + 1
    BY <2>1, <1>6
  <2>4. ASSUME NEW a \in 1..(k + 1), NEW b \in 1..(k + 1), Run(a, b) PROVE b - a + 1 <= y.best
    <3>1. CASE b <= k /\ a <= k
      <4>1. a \in 1..k /\ b \in 1..k
        BY <3>1
      <4> QED BY <4>1, <2>1, <2>4, <1>3
    <3>2. CASE b = k + 1
      <4>1. k + 1 \in a..b
        BY <3>2
      <4> QED BY <4>1, <1>6, <2>4 DEF Run
    <3>3. CASE b <= k /\ a = k + 1
      BY <3>3, <1>2
    <3> QED BY <3>1, <3>2, <3>3
  <2>5. y.best = 0 \/ \E a, b \in 1..(k + 1) : Run(a, b) /\ b - a + 1 = y.best
    <3> SUFFICES ASSUME y.best # 0 PROVE \E a, b \in 1..(k + 1) : Run(a, b) /\ b - a + 1 = y.best
      OBVIOUS
    <3>1. PICK a \in 1..k, b \in 1..k : Run(a, b) /\ b - a + 1 = x.best
      BY <2>1, <1>3
    <3>2. a \in 1..(k + 1) /\ b \in 1..(k + 1)
      OBVIOUS
    <3> QED BY <3>1, <3>2, <2>1
  <2> QED BY <2>2, <2>3, <2>4, <2>5 DEF CountsRuns, y
<1> QED BY <1>5, <1>6

LEMMA LongestRun ==
    ASSUME Len(trades) \in Nat
    PROVE  \E x \in Streaks : CountsRuns(x, Len(trades)) /\ MaxConsecutiveLosses = x.best
<1>1. PICK s \in [0..Len(trades) -> Streaks] :
         AreStreaks(s) /\ MaxConsecutiveLosses = s[Len(trades)].best
  BY StreaksOfTrades
<1> DEFINE n == Len(trades)
           T == {k \in 0..n : CountsRuns(s[k], k)}
<1>2. 0 \in T
  <2>1. s[0] = NoStreak
    BY <1>1 DEF AreStreaks
  <2>2. CountsRuns(NoStreak, 0)
    BY DEF CountsRuns, NoStreak, Run
  <2> QED BY <2>1, <2>2
<1>3. ASSUME NEW k \in 0..(n - 1), k \in T PROVE k + 1 \in T
  <2>1. k \in Nat /\ k \in 0..n /\ k + 1 \in 0..n /\ k + 1 \in 1..n /\ (k + 1) - 1 = k
    OBVIOUS
  <2>2. s[k] \in Streaks /\ s[k + 1] = Streak(s[k], trades[k + 1])
    BY <1>1, <2>1 DEF AreStreaks
  <2>3. CountsRuns(s[k + 1], k + 1)
    BY <1>3, <2>1, <2>2, StreakCounts
  <2> QED BY <2>1, <2>3
<1>4. 0 \in Int /\ n \in Int /\ n \in 0..n
  OBVIOUS
<1> HIDE DEF T
<1>5. n \in T
  BY <1>2, <1>3, <1>4, IntervalInduction
<1> QED BY <1>1, <1>4, <1>5 DEF T

(* Profits less losses are what the trades made of the initial equity.     *)
LEMMA GrossNets ==
    ASSUME TypeOK, AccountsBalance
    PROVE  GrossProfit - GrossLoss = equity - InitialEquity
<1> DEFINE n == Len(trades)
           gains == [k \in 1..n |-> IF Lost(trades[k]) THEN 0 ELSE trades[k].pnl]
           losses == [k \in 1..n |-> IF Lost(trades[k]) THEN -trades[k].pnl ELSE 0]
<1>1. /\ n \in Nat /\ InitialEquity \in Int
      /\ \A k \in 1..n : trades[k].pnl \in Int /\ trades[k].equityAfter \in Int
  <2>1. trades \in Seq(ClosedTrades)
    BY DEF TypeOK
  <2>2. n \in Nat /\ \A k \in 1..n : trades[k] \in ClosedTrades
    BY <2>1
  <2>3. InitialEquity \in Int
    BY BacktestAssumption DEF BacktestAssumption
  <2> QED BY <2>2, <2>3, ClosedTradeFields
<1>2. /\ Len(gains) = n /\ Len(losses) = n
      /\ \A k \in 1..n : gains[k] \in Int /\ losses[k] \in Int /\ gains[k] - losses[k] = trades[k].pnl
  BY <1>1
<1>3. \A k \in 1..n : EquityAfter(k) = EquityAfter(k - 1) + trades[k].pnl
  <2> SUFFICES ASSUME NEW k \in 1..n
               PROVE  EquityAfter(k) = EquityAfter(k - 1) + trades[k].pnl
    OBVIOUS
  <2>1. EquityAfter(k) = trades[k].equityAfter
    BY DEF EquityAfter
  <2> QED BY <2>1 DEF AccountsBalance
<1>4. \A k \in 0..n : EquityAfter(k) \in Int
  BY <1>1 DEF EquityAfter
<1> HIDE DEF gains, losses
<1>5. PICK p \in [0..n -> Int] : AreGrossSums(p, gains) /\ Gross(gains) = p[n]
  BY <1>1, <1>2, GrossSums
<1>6. PICK l \in [0..n -> Int] : AreGrossSums(l, losses) /\ Gross(losses) = l[n]
  BY <1>1, <1>2, GrossSums
<1> DEFINE T == {k \in 0..n : p[k] - l[k] = EquityAfter(k) - InitialEquity}
<1>7. 0 \in T
  <2>1. p[0] = 0 /\ l[0] = 0
    BY <1>5, <1>6 DEF AreGrossSums
  <2>2. EquityAfter(0) = InitialEquity
    BY DEF EquityAfter
  <2>3. 0 \in 0..n
    BY <1>1
  <2> QED BY <2>1, <2>2, <2>3, <1>1
<1>8. ASSUME NEW k \in 0..(n - 1), k \in T PROVE k + 1 \in T
  <2>1. k \in 0..n /\ k + 1 \in 0..n /\ k + 1 \in 1..n /\ (k + 1) - 1 = k
    BY <1>1
  <2>2. p[k + 1] = p[k] + gains[k + 1] /\ l[k + 1] = l[k] + losses[k + 1]
    BY <1>2, <1>5, <1>6, <2>1 DEF AreGrossSums
  <2>3. EquityAfter(k + 1) = EquityAfter(k) + trades[k + 1].pnl
    BY <1>3, <2>1
  <2>4. /\ p[k] \in Int /\ l[k] \in Int /\ EquityAfter(k) \in Int /\ trades[k + 1].pnl \in Int
        /\ gains[k + 1] \in Int /\ losses[k + 1] \in Int
        /\ gains[k + 1] - losses[k + 1] = trades[k + 1].pnl
    BY <1>1, <1>2, <1>4, <1>5, <1>6, <2>1
  <2>5. p[k] - l[k] = EquityAfter(k) - InitialEquity
    BY <1>8
  <2>6. p[k + 1] - l[k + 1] = EquityAfter(k + 1) - InitialEquity
    <3>1. p[k + 1] - l[k + 1] = (p[k] - l[k]) + (gains[k + 1] - losses[k + 1])
      BY <2>2, <2>4
    <3>2. p[k + 1] - l[k + 1] = (EquityAfter(k) - InitialEquity) + trades[k + 1].pnl
      BY <3>1, <2>4, <2>5
    <3> QED BY <3>2, <2>3, <2>4, <1>1
  <2> QED BY <2>1, <2>6
<1>9. 0 \in Int /\ n \in Int /\ n \in 0..n
  BY <1>1
<1> HIDE DEF T
<1>10. n \in T
  BY <1>7, <1>8, <1>9, IntervalInduction
<1>11. GrossProfit = p[n] /\ GrossLoss = l[n]
  BY <1>5, <1>6 DEF GrossProfit, GrossLoss, gains, losses
<1>12. equity = EquityAfter(n)
  BY DEF AccountsBalance
<1> QED BY <1>10, <1>11, <1>12 DEF T

(* What the report says it says of the trades and the equity it ends with. *)
ReportIsCurrent ==
    pc = "done" =>
        /\ stats.grossProfit = GrossProfit /\ stats.grossLoss = GrossLoss
        /\ stats.netProfit = equity - InitialEquity
        /\ stats.maxConsecutiveLosses = MaxConsecutiveLosses

LEMMA ReportStays == ReportIsCurrent /\ [Next]_vars => ReportIsCurrent'
<1> SUFFICES ASSUME ReportIsCurrent, [Next]_vars, pc' = "done" PROVE ReportIsCurrent'
  BY DEF ReportIsCurrent
<1>1. CASE Report
  BY <1>1 DEF Report, ReportIsCurrent, GrossProfit, GrossLoss, MaxConsecutiveLosses, portfolio
<1>2. CASE UNCHANGED vars
  BY <1>2 DEF vars, portfolio, ReportIsCurrent, GrossProfit, GrossLoss, MaxConsecutiveLosses
<1>3. ASSUME NEW c \in Candles, HitsStop(c) \/ HitsTarget(c) \/ Holds(c) \/ Flat(c) PROVE FALSE
  BY <1>3 DEF HitsStop, HitsTarget, Holds, Flat, BarCloses
<1>4. ASSUME NEW dir \in Directions, NEW risk \in Risks, Enter(dir, risk) PROVE FALSE
  BY <1>4 DEF Enter, NextBar
<1>5. CASE Skip
  BY <1>5 DEF Skip, NextBar
<1>6. CASE ForceClose
  BY <1>6 DEF ForceClose
<1> QED BY <1>1, <1>2, <1>3, <1>4, <1>5, <1>6 DEF Next

LEMMA StatsFollow ==
    ASSUME TypeOK, AccountsBalance, ReportIsCurrent
    PROVE  StatsAreRight
<1> SUFFICES ASSUME pc = "done" PROVE StatsAreRight
  BY DEF StatsAreRight
<1>1. stats.grossProfit - stats.grossLoss = stats.netProfit
  BY GrossNets DEF ReportIsCurrent
<1>2. Len(trades) \in Nat
  BY DEF TypeOK
<1>3. PICK x \in Streaks : CountsRuns(x, Len(trades)) /\ MaxConsecutiveLosses = x.best
  BY <1>2, LongestRun
<1>4. stats.maxConsecutiveLosses = x.best
  BY <1>3 DEF ReportIsCurrent
<1> DEFINE streaks == {r \in (1..Len(trades)) \X (1..Len(trades)) :
                       \A i \in r[1]..r[2] : Lost(trades[i])}
<1>5. \A r \in streaks : r[2] - r[1] + 1 <= x.best
  BY <1>3 DEF CountsRuns, Run
<1>6. x.best = 0 \/ \E r \in streaks : r[2] - r[1] + 1 = x.best
  <2> SUFFICES ASSUME x.best # 0 PROVE \E r \in streaks : r[2] - r[1] + 1 = x.best
    OBVIOUS
  <2>1. PICK a \in 1..Len(trades), b \in 1..Len(trades) : Run(a, b) /\ b - a + 1 = x.best
    BY <1>3 DEF CountsRuns
  <2>2. <<a, b>> \in streaks
    BY <2>1 DEF Run
  <2> QED BY <2>1, <2>2
<1> QED BY <1>1, <1>4, <1>5, <1>6 DEF StatsAreRight

(* The gross figures of the report net to the profit, and its longest run  *)
(* of losses is that of the trades (compute_stats,                         *)
(* _max_consecutive_losses).                                               *)
THEOREM StatisticsAreRight == Spec => []StatsAreRight
<1>1. Init => ReportIsCurrent
  BY DEF Init, ReportIsCurrent
<1>2. BacktestInv /\ ReportIsCurrent => StatsAreRight
  BY StatsFollow DEF BacktestInv
<1> QED BY <1>1, <1>2, ReportStays, BacktestInvariant, PTL DEF Spec

-----------------------------------------------------------------------------
(* Whatever the handler of POST /backtest does around the walk, the walk   *)
(* takes its own steps only: the theorems above hold of it.                *)
THEOREM RequestIsBacktest == RequestSpec => Spec
<1>1. RequestInit => Init
  BY DEF RequestInit
<1>2. [RequestNext]_allVars => [Next]_vars
  BY DEF RequestNext, allVars, LoadTimeframe, Walk, Insert, InsertFails, Refresh, DatabaseFails
<1> QED
  BY <1>1, <1>2, PTL DEF RequestSpec, Spec

(* The books of a run that is stored are balanced.                         *)
THEOREM RequestKeepsBooks == RequestSpec => []AccountsBalance
BY RequestIsBacktest, BooksBalance, PTL

(* What the walk owes to the answer: the curve has a point as soon as a    *)
(* bar has closed, its last one is the equity, and so are the statistics.  *)
CurveEnds ==
    /\ bar = 0 => pc = "bar" /\ position = NoTrade
    /\ bar > 0 => curve # <<>>
    /\ curve # <<>> => curve[Len(curve)].equity = equity
    /\ pc = "done" => stats.total = Len(trades) /\ stats.netProfit = equity - InitialEquity

LEMMA RecordEndsCurve ==
    ASSUME TypeOK, NEW time \in 1..Length, NEW value \in Int, NEW times \in {1, 2},
           Record(time, value, times)
    PROVE  curve' # <<>> /\ curve'[Len(curve')].equity = equity'
<1>1. /\ equity' = value /\ Len(curve) \in Nat /\ Len(curve') = Len(curve) + times
      /\ \A k \in (Len(curve) + 1)..(Len(curve) + times) :
            curve'[k] = [time |-> time, equity |-> value]
  BY Recorded
<1>2. Len(curve') \in (Len(curve) + 1)..(Len(curve) + times) /\ Len(curve') > 0
  BY ONLY <1>1
<1> QED BY <1>1, <1>2

LEMMA WalkEndsCurve ==
    ASSUME BacktestInv, CurveEnds, Next
    PROVE  CurveEnds'
<1>0. TypeOK /\ bar \in Nat /\ equity \in Int /\ Length \in Nat \ {0}
  BY BacktestAssumption DEF BacktestInv, TypeOK, BacktestAssumption
<1>1. ASSUME NEW c \in Candles, HitsStop(c) \/ HitsTarget(c)
      PROVE  CurveEnds'
  <2>1. PICK exit \in Int, reason \in {"SL", "TP1"} : CloseTrade(exit, reason)
    <3>1. position \in OpenTrades
      BY <1>0, <1>1 DEF TypeOK, HitsStop, HitsTarget
    <3>2. StopFill(position) \in Int /\ position.target \in Int
      BY <3>1, OpenTradeFields, BacktestAssumption DEF StopFill, BacktestAssumption
    <3> QED BY <1>1, <3>2 DEF HitsStop, HitsTarget
  <2>2. bar' = bar + 1 /\ bar' \in 1..Length /\ pc' = "decide"
    BY <1>0, <1>1 DEF HitsStop, HitsTarget, BarCloses, TypeOK
  <2>3. equity + Pnl(position, exit) \in Int
    BY <1>0, <1>1, PnlIsInt DEF TypeOK, HitsStop, HitsTarget
  <2>4. Record(bar', equity + Pnl(position, exit), 2)
    BY <2>1 DEF CloseTrade
  <2>5. curve' # <<>> /\ curve'[Len(curve')].equity = equity'
    BY <1>0, <2>2, <2>3, <2>4, RecordEndsCurve
  <2> QED BY <1>0, <2>2, <2>5 DEF CurveEnds
<1>2. ASSUME NEW c \in Candles, Holds(c)
      PROVE  CurveEnds'
  <2>1. bar' = bar + 1 /\ pc' = "decide" /\ position # NoTrade
        /\ curve' = curve /\ equity' = equity
    BY <1>2 DEF Holds, BarCloses, portfolio
  <2>2. bar > 0
    BY <1>0, <2>1 DEF CurveEnds
  <2> QED BY <1>0, <2>1, <2>2 DEF CurveEnds
<1>3. ASSUME NEW c \in Candles, Flat(c)
      PROVE  CurveEnds'
  <2>1. bar' = bar + 1 /\ bar' \in 1..Length /\ pc' = "decide" /\ Record(bar', equity, 1)
    BY <1>0, <1>3 DEF Flat, BarCloses, TypeOK
  <2>2. curve' # <<>> /\ curve'[Len(curve')].equity = equity'
    BY <1>0, <2>1, RecordEndsCurve
  <2> QED BY <1>0, <2>1, <2>2 DEF CurveEnds
<1>4. ASSUME Skip \/ \E dir \in Directions, risk \in Risks : Enter(dir, risk)
      PROVE  CurveEnds'
  <2>1. bar' = bar /\ curve' = curve /\ equity' = equity /\ pc' \in {"report", "bar"}
        /\ pc = "decide"
    BY <1>4 DEF Skip, Enter, NextBar, portfolio
  <2>2. bar > 0
    BY <1>0, <2>1 DEF TypeOK
  <2> QED BY <1>0, <2>1, <2>2 DEF CurveEnds
<1>5. CASE ForceClose
  <2>1. bar' = bar /\ pc' = "report" /\ bar \in 1..Length
        /\ Record(bar, equity + Pnl(position, close), 1)
    BY <1>0, <1>5 DEF ForceClose, TypeOK
  <2>2. equity + Pnl(position, close) \in Int
    <3>1. position \in OpenTrades
      BY <1>0, <1>5 DEF ForceClose, TypeOK
    <3>2. close \in Prices
      BY <1>0, <2>1 DEF TypeOK
    <3>3. close \in Int
      BY <3>2, BacktestAssumption DEF BacktestAssumption
    <3> QED BY <1>0, <3>1, <3>3, PnlIsInt
  <2>3. curve' # <<>> /\ curve'[Len(curve')].equity = equity'
    BY <1>0, <2>1, <2>2, RecordEndsCurve
  <2> QED BY <1>0, <2>1, <2>3 DEF CurveEnds
<1>6. CASE Report
  <2>1. /\ stats'.total = Len(trades) /\ stats'.netProfit = equity - InitialEquity
        /\ UNCHANGED <<bar, position, trades, equity, curve>>
        /\ pc = "report" /\ pc' = "done"
    BY <1>6 DEF Report, portfolio
  <2>2. bar > 0
    BY <1>0, <2>1 DEF TypeOK
  <2> QED BY <1>0, <2>1, <2>2 DEF CurveEnds
<1> QED BY <1>1, <1>2, <1>3, <1>4, <1>5, <1>6 DEF Next

(* Where the handler is when the walk is where it is, and what is stored.  *)
HandlerInv ==
    /\ handler \in {"load", "walk", "insert", "refresh", "answered"}
    /\ status \in {0, 200, 400, 500} /\ (status # 0) = (handler = "answered")
    /\ handler = "load" \/ status = 400 => pc = "bar" /\ bar = 0
    /\ handler = "walk" => pc # "done"
    /\ handler \in {"insert", "refresh"} \/ status = 200 => pc = "done"
    /\ handler = "answered" => pc = "done" \/ bar = 0
    /\ handler = "refresh" \/ status = 200 => runs = <<Row>>
    /\ \/ runs = <<>>
       \/ runs = <<Row>> /\ pc = "done" /\ (handler = "refresh" \/ status \in {200, 500})

RequestIInv == BacktestInv /\ CurveEnds /\ HandlerInv

LEMMA RequestStepKeeps == RequestIInv /\ [RequestNext]_allVars => RequestIInv'
<1> SUFFICES ASSUME RequestIInv, [RequestNext]_allVars PROVE RequestIInv'
  OBVIOUS
<1>0. BacktestInv /\ CurveEnds /\ HandlerInv
  BY DEF RequestIInv
<1>1. BacktestInv'
  <2>1. [Next]_vars
    BY DEF RequestNext, allVars, LoadTimeframe, Walk, Insert, InsertFails, Refresh, DatabaseFails
  <2> QED BY <1>0, <2>1, BacktestStepKeeps
<1>2. CASE Walk
  <2>1. CurveEnds'
    BY <1>0, <1>2, WalkEndsCurve DEF Walk
  <2>2. HandlerInv'
    BY <1>0, <1>2 DEF Walk, HandlerInv
  <2> QED BY <1>1, <2>1, <2>2 DEF RequestIInv
<1>3. CASE UNCHANGED vars
  <2>1. UNCHANGED <<pc, bar, position, trades, equity, curve, stats>>
    BY <1>3 DEF vars, portfolio
  <2>2. CurveEnds' /\ Row' = Row
    BY <1>0, <2>1 DEF CurveEnds, Row
  <2>3. HandlerInv'
    <3>1. CASE \E size \in {"none", "short", "enough"} : LoadTimeframe(size)
      <4>1. handler = "load" /\ runs' = runs
            /\ \/ UNCHANGED <<handler, status>>
               \/ handler' = "answered" /\ status' = 400
               \/ handler' = "walk" /\ status' = status
        BY <3>1 DEF LoadTimeframe, Answer
      <4> QED BY <1>0, <2>1, <2>2, <4>1 DEF HandlerInv
    <3>2. CASE Insert
      <4>1. handler = "insert" /\ handler' = "refresh" /\ status' = status
            /\ runs' = Append(runs, Row)
        BY <3>2 DEF Insert
      <4>2. runs = <<>>
        BY <1>0, <4>1 DEF HandlerInv
      <4>3. runs' = <<Row>>
        BY <4>1, <4>2
      <4> QED BY <1>0, <2>1, <2>2, <4>1, <4>3 DEF HandlerInv
    <3>3. CASE InsertFails \/ Refresh \/ DatabaseFails
      <4>1. /\ handler' = "answered" /\ runs' = runs
            /\ \/ handler \in {"load", "insert", "refresh"} /\ status' = 500
               \/ handler = "refresh" /\ status' = 200
        BY <3>3 DEF InsertFails, Refresh, DatabaseFails, Answer
      <4> QED BY <1>0, <2>1, <2>2, <4>1 DEF HandlerInv
    <3>4. CASE UNCHANGED requestVars
      BY <1>0, <2>1, <2>2, <3>4 DEF HandlerInv, requestVars
    <3>5. CASE Walk
      BY <1>0, <2>1, <2>2, <3>5 DEF HandlerInv, Walk
    <3> QED BY <3>1, <3>2, <3>3, <3>4, <3>5 DEF RequestNext, allVars
  <2> QED BY <1>1, <2>2, <2>3 DEF RequestIInv
<1> QED
  BY <1>2, <1>3
     DEF RequestNext, allVars, LoadTimeframe, Insert, InsertFails, Refresh, DatabaseFails

(* What the client is told of a run is what its row, its trades and its    *)
(* curve say (submit_backtest, BacktestRepository.insert).                 *)
THEOREM AnswersAreTrue == RequestSpec => []RequestInv
<1>1. RequestInit => RequestIInv
  <2> SUFFICES ASSUME RequestInit PROVE RequestIInv
    OBVIOUS
  <2>1. BacktestInv
    BY InitialBacktest DEF RequestInit
  <2>2. CurveEnds
    BY DEF RequestInit, Init, CurveEnds
  <2>3. HandlerInv
    BY DEF RequestInit, Init, HandlerInv
  <2> QED BY <2>1, <2>2, <2>3 DEF RequestIInv
<1>2. ASSUME RequestIInv PROVE RequestInv
  <2>0. BacktestInv /\ CurveEnds /\ HandlerInv /\ TypeOK /\ bar \in Nat
    BY <1>2 DEF RequestIInv, BacktestInv, TypeOK
  <2>1. /\ handler \in {"load", "walk", "insert", "refresh", "answered"}
        /\ status \in {0, 200, 400, 500} /\ (status # 0) = (handler = "answered")
    BY <2>0 DEF HandlerInv
  <2>2. Len(runs) <= 1
    <3>1. runs = <<>> \/ runs = <<Row>>
      BY <2>0 DEF HandlerInv
    <3>2. Len(<<>>) = 0 /\ Len(<<Row>>) = 1
      OBVIOUS
    <3>3. Len(runs) = 0 \/ Len(runs) = 1
      BY ONLY <3>1, <3>2, Zenon
    <3> QED BY ONLY <3>3
  <2>3. pc \in {"bar", "decide", "report"} /\ bar + Len(curve) > 0 => handler = "walk"
    <3>1. bar = 0 => curve = <<>>
      <4> SUFFICES ASSUME bar = 0, curve # <<>> PROVE FALSE
        OBVIOUS
      <4>1. curve \in Seq(Points)
        BY <2>0 DEF TypeOK, Points
      <4>2. 1 \in 1..Len(curve) /\ curve[1] \in Points
        BY <4>1
      <4>3. curve[1].time \in 1..Length /\ Length \in Nat
        BY <4>2, BacktestAssumption DEF Points, BacktestAssumption
      <4>4. curve[1].time <= bar
        BY <2>0, <4>2 DEF BacktestInv, HistoryIsPast
      <4> QED BY ONLY <4>3, <4>4, bar = 0
    <3>2. pc \in {"bar", "decide", "report"} /\ handler # "walk" => bar = 0
      BY <2>0 DEF HandlerInv
    <3> QED BY <3>1, <3>2
  <2>4. /\ status = 400 \/ handler \in {"load", "walk", "insert"} => runs = <<>>
        /\ status = 400 => bar = 0
    BY <2>0 DEF HandlerInv
  <2>5. status = 200 => runs # <<>>
    BY <2>0 DEF HandlerInv
  <2>6. ASSUME runs # <<>>
        PROVE  /\ ListBacktests(1) = <<GetBacktest(1)>>
               /\ GetBacktest(1).tradeCount = stats.total
               /\ GetBacktest(1).finalEquity = InitialEquity + stats.netProfit
               /\ GetBacktest(1).finalEquity =
                     IF runs[1].trades = <<>> THEN InitialEquity
                     ELSE runs[1].trades[Len(runs[1].trades)].equityAfter
               /\ GetBacktest(1).finalEquity = runs[1].curve[Len(runs[1].curve)].equity
    <3>1. runs = <<Row>> /\ Len(runs) = 1 /\ runs[1] = Row /\ pc = "done"
      BY <2>0, <2>6 DEF HandlerInv
    <3>2. GetBacktest(1) = Summary(1)
      BY <3>1 DEF GetBacktest
    <3>3. ListBacktests(1) = <<Summary(1)>>
      BY <3>1 DEF ListBacktests
    <3>4. /\ Summary(1).tradeCount = Len(trades) /\ Summary(1).finalEquity = equity
          /\ runs[1].trades = trades /\ runs[1].curve = curve
      BY <3>1 DEF Summary, Row
    <3>5. stats.total = Len(trades) /\ InitialEquity + stats.netProfit = equity
      BY <2>0, <3>1, BacktestAssumption DEF CurveEnds, TypeOK, BacktestAssumption
    <3>6. equity = IF trades = <<>> THEN InitialEquity ELSE trades[Len(trades)].equityAfter
      BY <2>0 DEF BacktestInv, AccountsBalance, EquityAfter, TypeOK
    <3>7. curve[Len(curve)].equity = equity
      BY <2>0, <3>1, BacktestAssumption DEF CurveEnds, TypeOK, BacktestAssumption
    <3> QED BY <3>2, <3>3, <3>4, <3>5, <3>6, <3>7
  <2> QED BY <2>1, <2>2, <2>3, <2>4, <2>5, <2>6 DEF RequestInv
<1> QED BY <1>1, <1>2, RequestStepKeeps, PTL DEF RequestSpec
=============================================================================
