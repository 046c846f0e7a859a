------------------------- MODULE MCVisibleCandles -------------------------
(* Values of the constants of VisibleCandles for TLC. *)
EXTENDS VisibleCandles

MCDurations == {1, 2}
MCTimes == 0..7
============================================================================
