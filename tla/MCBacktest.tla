---------------------------- MODULE MCBacktest ----------------------------
(* Values of the constants of Backtest and BacktestRequest for TLC. *)
EXTENDS BacktestRequest

MCPrices == {9, 10, 14, 15}
MCRequired == <<"4h", "15m">>
============================================================================
