--------------------------- MODULE WorkerRuntime ---------------------------
(***************************************************************************)
(* The worker process: three tasks on one event loop, supervised by        *)
(* _amain, which waits until one of them ends or a signal arrives, then    *)
(* cancels and gathers all of them, closes the HTTP client they share and  *)
(* returns.  The platform (Railway) starts the process again when it fails.*)
(* What the tasks do in between is the subject of CandleFeed,              *)
(* SignalPipeline and PriceStream; here a task works, awaiting one thing   *)
(* after the other, until it fails or is cancelled.                        *)
(***************************************************************************)
EXTENDS Integers, FiniteSets

CONSTANTS
    Workers,     \* the tasks
    Fragile,     \* those that some error ends (401/403, a lost subscription)
    Callers,     \* those that call the exchange with the shared client
    MaxRetries   \* restartPolicyMaxRetries

ASSUME RuntimeAssumption ==
    /\ IsFiniteSet(Workers)
    /\ Fragile \subseteq Workers
    /\ Callers \subseteq Workers
    /\ MaxRetries \in Nat

VARIABLES
    pc,         \* "boot", "wait", "gather", "close" or "exited"
    task,       \* task[t]: "none", "idle", "call", "cancelled" or "ended"
    failed,     \* tasks that ended with an exception of their own
    done,       \* what asyncio.wait returned
    stopped,    \* stop_event
    client,     \* the shared client is "open" or "closed"
    status,     \* exit status, -1 while the process runs
    restarts    \* restarts by the platform

runtimeVars == <<pc, task, failed, done, stopped, client, status, restarts>>

-----------------------------------------------------------------------------
Alive(t) == task[t] \in {"idle", "call"}

Finished == {t \in Workers : task[t] = "ended"}

(* Check the settings, create the client and the tasks. *)
Boot ==
    /\ pc = "boot"
    /\ pc' = "wait"
    /\ task' = [t \in Workers |-> "idle"]
    /\ client' = "open"
    /\ UNCHANGED <<failed, done, stopped, status, restarts>>

(* A setting is missing, or the process dies of what it cannot catch. *)
Crash ==
    /\ pc # "exited"
    /\ pc' = "exited"
    /\ status' = 1
    /\ task' = [t \in Workers |-> "none"]
    /\ UNCHANGED <<failed, done, stopped, client, restarts>>

StopSignal ==
    /\ pc \in {"wait", "gather", "close"}
    /\ ~stopped
    /\ stopped' = TRUE
    /\ UNCHANGED <<pc, task, failed, done, client, status, restarts>>

(* A task calls the exchange, and the call returns or fails. *)
Call(t) ==
    /\ t \in Callers
    /\ task[t] = "idle"
    /\ task' = [task EXCEPT ![t] = "call"]
    /\ UNCHANGED <<pc, failed, done, stopped, client, status, restarts>>

Return(t) ==
    /\ task[t] = "call"
    /\ task' = [task EXCEPT ![t] = "idle"]
    /\ UNCHANGED <<pc, failed, done, stopped, client, status, restarts>>

TaskFails(t) ==
    /\ t \in Fragile
    /\ Alive(t)
    /\ task' = [task EXCEPT ![t] = "ended"]
    /\ failed' = failed \cup {t}
    /\ UNCHANGED <<pc, done, stopped, client, status, restarts>>

(* A cancelled task runs its finally clauses and ends. *)
TaskStops(t) ==
    /\ task[t] = "cancelled"
    /\ task' = [task EXCEPT ![t] = "ended"]
    /\ UNCHANGED <<pc, failed, done, stopped, client, status, restarts>>

(* Mutants of WaitReturns: waits for all tasks, as ALL_COMPLETED would;    *)
(* waits for the tasks only.                                               *)
WaitReturnsLate ==
    /\ pc = "wait"
    /\ stopped \/ Finished = Workers
    /\ done' = Finished
    /\ task' = [t \in Workers |-> IF Alive(t) THEN "cancelled" ELSE task[t]]
    /\ pc' = "gather"
    /\ UNCHANGED <<failed, stopped, client, status, restarts>>

WaitReturnsDeaf ==
    /\ pc = "wait"
    /\ Finished # {}
    /\ done' = Finished
    /\ task' = [t \in Workers |-> IF Alive(t) THEN "cancelled" ELSE task[t]]
    /\ pc' = "gather"
    /\ UNCHANGED <<failed, stopped, client, status, restarts>>

(* FIRST_COMPLETED: log what died and cancel the others. *)
WaitReturns ==
    /\ pc = "wait"
    /\ stopped \/ Finished # {}
    /\ done' = Finished
    /\ task' = [t \in Workers |-> IF Alive(t) THEN "cancelled" ELSE task[t]]
    /\ pc' = "gather"
    /\ UNCHANGED <<failed, stopped, client, status, restarts>>

(* Mutant: does not gather. *)
GatherNot ==
    /\ pc = "gather"
    /\ pc' = "close"
    /\ UNCHANGED <<task, failed, done, stopped, client, status, restarts>>

Gather ==
    /\ pc = "gather"
    /\ Finished = Workers
    /\ pc' = "close"
    /\ UNCHANGED <<task, failed, done, stopped, client, status, restarts>>

(* provider.aclose(), and _amain returns: what the tasks raised is logged. *)
Close ==
    /\ pc = "close"
    /\ client' = "closed"
    /\ status' = 0
    /\ pc' = "exited"
    /\ UNCHANGED <<task, failed, done, stopped, restarts>>

(* restartPolicyType = "ON_FAILURE" *)
Restart ==
    /\ pc = "exited"
    /\ status # 0
    /\ restarts < MaxRetries
    /\ restarts' = restarts + 1
    /\ pc' = "boot"
    /\ task' = [t \in Workers |-> "none"]
    /\ failed' = {}
    /\ done' = {}
    /\ stopped' = FALSE
    /\ client' = "closed"
    /\ status' = -1

Init ==
    /\ pc = "boot"
    /\ task = [t \in Workers |-> "none"]
    /\ failed = {}
    /\ done = {}
    /\ stopped = FALSE
    /\ client = "closed"
    /\ status = -1
    /\ restarts = 0

Next ==
    \/ Boot
    \/ Crash
    \/ StopSignal
    \/ \E t \in Workers : Call(t) \/ Return(t) \/ TaskFails(t) \/ TaskStops(t)
    \/ WaitReturns
    \/ Gather
    \/ Close
    \/ Restart

Spec == Init /\ [][Next]_runtimeVars

(* The event loop runs what is ready; a cancelled task ends. *)
FairSpec ==
    /\ Spec
    /\ WF_runtimeVars(Boot \/ WaitReturns \/ Gather \/ Close)
    /\ \A t \in Workers : WF_runtimeVars(TaskStops(t))

-----------------------------------------------------------------------------
(* Every variable stays in the set its declaration describes. *)
TypeOK ==
    /\ pc \in {"boot", "wait", "gather", "close", "exited"}
    /\ task \in [Workers -> {"none", "idle", "call", "cancelled", "ended"}]
    /\ failed \subseteq Workers
    /\ done \subseteq Workers
    /\ stopped \in BOOLEAN
    /\ client \in {"open", "closed"}
    /\ status \in {-1, 0, 1}
    /\ restarts \in 0..MaxRetries

(* No task still uses the shared client when it is closed: not even a      *)
(* cancelled task that is in the middle of a request.                      *)
ClientOutlivesTasks ==
    \A t \in Workers : task[t] \in {"idle", "call", "cancelled"} => client = "open"

(* The strengthening of ClientOutlivesTasks that every step preserves. *)
RuntimeInv ==
    /\ TypeOK
    /\ ClientOutlivesTasks
    /\ pc \in {"boot", "close"} => \A t \in Workers : task[t] \in {"none", "ended"}
    /\ pc = "exited" => \A t \in Workers : task[t] \in {"none", "ended"}

(* No worker dies in silence while the others go on: the process ends, so  *)
(* that the platform at least sees it.                                     *)
DeathIsNoticed == (pc = "wait" /\ Finished # {}) ~> (pc = "exited")

(* SIGTERM and SIGINT end the process, whatever its tasks are doing.       *)
ShutdownEnds == stopped ~> (pc = "exited")

(* "Both are independent -- if one crashes, the other keeps running": a    *)
(* task that did not fail itself stops on a signal only.                   *)
WorkersAreIndependent ==
    \A t \in Workers : task[t] \in {"cancelled", "ended"} /\ t \notin failed => stopped
=============================================================================
