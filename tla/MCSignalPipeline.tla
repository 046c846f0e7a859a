-------------------------- MODULE MCSignalPipeline --------------------------
(* As MCCandleFeed; the worker loads the longer timeframe first and the    *)
(* trigger last, as the code loads 4h, 1h, 15m.                            *)
EXTENDS SignalPipeline

MCOrder == <<"15m", "1h">>
MCTimeframes == {"15m", "1h"}
MCSpan == [tf \in MCTimeframes |-> IF tf = "15m" THEN 1 ELSE 2]
MCLoadOrder == <<"1h", "15m">>
MCOneOrder == <<"15m">>
MCOneTimeframes == {"15m"}
MCOneSpan == [tf \in MCOneTimeframes |-> 1]
=============================================================================
