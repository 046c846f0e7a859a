-------------------------- MODULE MCWorkerRuntime --------------------------
(* The tasks of workers/main.py.  The poller outlives every error, the     *)
(* price stream ends on refused credentials, the signal worker on a Redis  *)
(* error outside its handler; the poller calls the exchange with the       *)
(* shared client, the price stream has one of its own.                     *)
EXTENDS WorkerRuntime

MCWorkers == {"price_stream", "candle_poller", "signal_worker"}
MCFragile == {"price_stream", "signal_worker"}
MCCallers == {"candle_poller"}
============================================================================
