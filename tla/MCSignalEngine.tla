--------------------------- MODULE MCSignalEngine ---------------------------
(* Small charts for SignalEngine: a price unit that the averages of seven  *)
(* candles divide, prices from 6 to 13 units, five shapes of candle, and   *)
(* charts of the other timeframes.                                         *)
EXTENDS SignalEngine

Unit == 38880

Shape(high, low, close) == [high |-> Unit * high, low |-> Unit * low, close |-> Unit * close]

c1 == Shape(9, 7, 8)
c2 == Shape(10, 8, 9)
c3 == Shape(11, 9, 10)
c4 == Shape(12, 9, 12)
c5 == Shape(9, 6, 6)

MCCandles == {c1, c2, c3, c4, c5}

(* The third is a chart whose next candle can turn SELL into BUY. *)
MCStarts ==
    {<<c1, c2>>, <<c3, c2, c3>>,
     <<Shape(12, 10, 10), Shape(8, 6, 7), c3, Shape(10, 7, 9), Shape(12, 9, 9)>>}

MCVolatilityBounds == <<2200, 2800, 4000>>

MCPivot == 18 * Unit

Rise == <<c4, c5, c3, c1, c4, c2, c4>>
Fall == <<c4, c4, c2, c4, c1, c3, c5>>
RiseInDoubt == <<c1, c2, c1, c2, c4, c1, c2>>
FallInDoubt == <<c1, c2, c2, c5, c5, c2, c1>>
(* The trend is up, momentum and structure are down. *)
Split == <<Shape(12, 9, 9), Shape(10, 7, 7), Shape(12, 9, 10), Shape(10, 6, 6),
           Shape(11, 10, 11), Shape(10, 7, 9)>>
Unclear == <<c1, c2, c1, c1, c4, c5, c1>>

MCOthers ==
    {("4h" :> Rise) @@ ("1h" :> Rise) @@ ("5m" :> Fall),
     ("4h" :> Fall) @@ ("1h" :> RiseInDoubt),
     ("4h" :> Rise) @@ ("1h" :> Fall),
     ("4h" :> FallInDoubt),
     ("4h" :> Split) @@ ("1h" :> Unclear)}
=============================================================================
