---------------------------- MODULE MCCandleFeed ----------------------------
(* Two timeframes stand for the six: the 15m candle and one of twice its   *)
(* length, polled after it as 1h is.                                       *)
EXTENDS CandleFeed

MCOrder == <<"15m", "1h">>
MCTimeframes == {"15m", "1h"}
MCSpan == [tf \in MCTimeframes |-> IF tf = "15m" THEN 1 ELSE 2]
MCOneOrder == <<"15m">>
MCOneTimeframes == {"15m"}
MCOneSpan == [tf \in MCOneTimeframes |-> 1]
=============================================================================
