------------------------ MODULE WorkerRuntimeProofs ------------------------
(***************************************************************************)
(* The supervisor closes the shared client only when all tasks have ended, *)
(* for any set of tasks, through failures, signals, crashes and restarts,  *)
(* and ends for a cause: a signal or a task that failed.  The second cause *)
(* leaves the same exit status as the first, and no restart follows.       *)
(***************************************************************************)
EXTENDS WorkerRuntime, TLAPS

(* The shared client outlives the tasks: _amain gathers them before it      *)
(* closes the provider (workers/main.py).                                   *)
THEOREM RuntimeInvariant == Spec => []RuntimeInv
<1>1. Init => RuntimeInv
  <2> SUFFICES ASSUME Init PROVE RuntimeInv
    OBVIOUS
  <2>1. 0 \in 0..MaxRetries
    BY RuntimeAssumption DEF RuntimeAssumption
  <2>2. \A t \in Workers : task[t] = "none"
    BY DEF Init
  <2>3. TypeOK
    BY <2>1 DEF Init, TypeOK
  <2> QED BY <2>2, <2>3 DEF Init, RuntimeInv, ClientOutlivesTasks
<1>2. RuntimeInv /\ [Next]_runtimeVars => RuntimeInv'
  <2> SUFFICES ASSUME RuntimeInv, [Next]_runtimeVars PROVE RuntimeInv'
    OBVIOUS
  <2> USE DEF RuntimeInv, TypeOK, ClientOutlivesTasks
  <2>1. CASE Boot
    BY <2>1 DEF Boot
  <2>2. CASE Crash
    BY <2>2 DEF Crash
  <2>3. CASE StopSignal
    BY <2>3 DEF StopSignal
  <2>4. ASSUME NEW t \in Workers, Call(t) \/ Return(t)
        PROVE  RuntimeInv'
    <3>1. /\ task[t] \in {"idle", "call"} /\ pc \in {"wait", "gather"}
          /\ UNCHANGED <<pc, failed, done, stopped, client, status, restarts>>
          /\ \/ task' = [task EXCEPT ![t] = "call"]
             \/ task' = [task EXCEPT ![t] = "idle"]
      BY <2>4 DEF Call, Return
    <3> QED BY <3>1
  <2>5. ASSUME NEW t \in Workers, TaskFails(t)
        PROVE  RuntimeInv'
    BY <2>5 DEF TaskFails, Alive
  <2>6. ASSUME NEW t \in Workers, TaskStops(t)
        PROVE  RuntimeInv'
    BY <2>6 DEF TaskStops
  <2>7. CASE WaitReturns
    <3>1. /\ pc = "wait" /\ pc' = "gather" /\ done' \subseteq Workers
          /\ task' = [t \in Workers |-> IF Alive(t) THEN "cancelled" ELSE task[t]]
          /\ UNCHANGED <<failed, stopped, client, status, restarts>>
      BY <2>7 DEF WaitReturns, Finished
    <3>2. \A t \in Workers : task'[t] = "cancelled" \/ task'[t] = task[t]
      BY <3>1
    <3>3. \A t \in Workers : task'[t] = "cancelled" => task[t] \in {"idle", "call", "cancelled"}
      BY <3>1 DEF Alive
    <3>4. task' \in [Workers -> {"none", "idle", "call", "cancelled", "ended"}]
      BY <3>1
    <3> QED BY <3>1, <3>2, <3>3, <3>4
  <2>8. CASE Gather
    <3>1. \A t \in Workers : task[t] = "ended"
      BY <2>8 DEF Gather, Finished
    <3> QED BY <2>8, <3>1 DEF Gather
  <2>9. CASE Close
    BY <2>9 DEF Close
  <2>10. CASE Restart
    <3>1. restarts' \in 0..MaxRetries
      BY <2>10, RuntimeAssumption DEF Restart, RuntimeAssumption
    <3> QED BY <2>10, <3>1 DEF Restart
  <2>11. CASE UNCHANGED runtimeVars
    BY <2>11 DEF runtimeVars
  <2> QED BY <2>1, <2>2, <2>3, <2>4, <2>5, <2>6, <2>7, <2>8, <2>9, <2>10, <2>11 DEF Next
<1> QED BY <1>1, <1>2, PTL DEF Spec

-----------------------------------------------------------------------------
(* A task is cancelled or ended, and _amain past its wait, only after a    *)
(* signal or when some task has failed; the process ends with status 0     *)
(* only after that, and with all its tasks.                                *)
EndsForACause ==
    /\ \A t \in Workers : task[t] \in {"cancelled", "ended"} => stopped \/ failed # {}
    /\ pc \in {"gather", "close"} => stopped \/ failed # {}
    /\ pc = "close" => \A t \in Workers : task[t] = "ended"
    /\ status = 0 => /\ pc = "exited"
                     /\ stopped \/ failed # {}
                     /\ \A t \in Workers : task[t] = "ended"

(* Whoever stops the workers: without a signal it was one of them.  This   *)
(* is what remains of "if one crashes, the other keeps running"            *)
(* (WorkersAreIndependent, which the code violates).                       *)
THEOREM EndsHaveCauses == Spec => []EndsForACause
<1>1. Init => EndsForACause
  BY DEF Init, EndsForACause
<1>2. RuntimeInv /\ EndsForACause /\ [Next]_runtimeVars => EndsForACause'
  <2> SUFFICES ASSUME RuntimeInv, EndsForACause, [Next]_runtimeVars PROVE EndsForACause'
    OBVIOUS
  <2>0. task \in [Workers -> {"none", "idle", "call", "cancelled", "ended"}]
    BY DEF RuntimeInv, TypeOK
  <2>00. pc # "exited" => status # 0
    BY DEF EndsForACause
  <2> HIDE DEF RuntimeInv
  <2>1. CASE Boot
    BY <2>1, <2>00 DEF Boot, EndsForACause
  <2>2. CASE Crash
    BY <2>2 DEF Crash, EndsForACause
  <2>3. CASE StopSignal
    BY <2>3 DEF StopSignal, EndsForACause
  <2>4. ASSUME NEW t \in Workers, Call(t) \/ Return(t)
        PROVE  EndsForACause'
    <3>1. /\ task[t] \in {"idle", "call"}
          /\ UNCHANGED <<pc, failed, stopped, status>>
          /\ \/ task' = [task EXCEPT ![t] = "call"]
             \/ task' = [task EXCEPT ![t] = "idle"]
      BY <2>4 DEF Call, Return
    <3>2. \A u \in Workers : task'[u] \in {"cancelled", "ended"} => task'[u] = task[u]
      BY <2>0, <3>1
    <3>3. pc # "close" /\ status # 0
      BY <3>1 DEF EndsForACause
    <3> QED BY <3>1, <3>2, <3>3 DEF EndsForACause
  <2>5. ASSUME NEW t \in Workers, TaskFails(t)
        PROVE  EndsForACause'
    <3>1. /\ task[t] \in {"idle", "call"} /\ failed' # {}
          /\ UNCHANGED <<pc, stopped, status>>
      BY <2>5 DEF TaskFails, Alive
    <3>2. pc # "close" /\ status # 0
      BY <3>1 DEF EndsForACause
    <3> QED BY <3>1, <3>2 DEF EndsForACause
  <2>6. ASSUME NEW t \in Workers, TaskStops(t)
        PROVE  EndsForACause'
    <3>1. /\ task[t] = "cancelled" /\ task' = [task EXCEPT ![t] = "ended"]
          /\ UNCHANGED <<pc, failed, stopped, status>>
      BY <2>6 DEF TaskStops
    <3>2. stopped \/ failed # {}
      BY <3>1 DEF EndsForACause
    <3>3. pc # "close" /\ status # 0
      BY <3>1 DEF EndsForACause
    <3> QED BY <2>0, <3>1, <3>2, <3>3 DEF EndsForACause
  <2>7. CASE WaitReturns
    <3>1. /\ pc = "wait" /\ pc' = "gather"
          /\ stopped \/ Finished # {}
          /\ UNCHANGED <<failed, stopped, status>>
      BY <2>7 DEF WaitReturns
    <3>2. stopped \/ failed # {}
      BY <3>1 DEF EndsForACause, Finished
    <3>3. stopped' \/ failed' # {}
      BY <3>1, <3>2
    <3>4. status' # 0 /\ pc' # "close"
      BY <2>00, <3>1
    <3> QED BY <3>3, <3>4 DEF EndsForACause
  <2>8. CASE Gather
    <3>1. \A t \in Workers : task[t] = "ended"
      BY <2>8 DEF Gather, Finished
    <3> QED BY <2>8, <2>00, <3>1 DEF Gather, EndsForACause
  <2>9. CASE Close
    BY <2>9 DEF Close, EndsForACause
  <2>10. CASE Restart
    BY <2>10, <2>0 DEF Restart, EndsForACause
  <2>11. CASE UNCHANGED runtimeVars
    BY <2>11 DEF runtimeVars, EndsForACause
  <2> QED BY <2>1, <2>2, <2>3, <2>4, <2>5, <2>6, <2>7, <2>8, <2>9, <2>10, <2>11 DEF Next
<1> QED BY <1>1, <1>2, RuntimeInvariant, PTL DEF Spec

(* An end with status 0 is final.  _amain returns normally whatever its    *)
(* tasks raised, so restartPolicyType = "ON_FAILURE" (railway.toml) does   *)
(* not start a process again that ended because a worker died: with        *)
(* EndsHaveCauses, refused credentials of the price stream stop the poller *)
(* and the signal worker for good.                                         *)
THEOREM CleanEndIsFinal == Spec => [][status # 0]_runtimeVars
<1>1. EndsForACause /\ [Next]_runtimeVars => [status # 0]_runtimeVars
  <2> SUFFICES ASSUME EndsForACause, Next, status = 0 PROVE UNCHANGED runtimeVars
    OBVIOUS
  <2>1. pc = "exited" /\ \A t \in Workers : task[t] = "ended"
    BY DEF EndsForACause
  <2> QED
    BY <2>1 DEF Next, Boot, Crash, StopSignal, Call, Return, TaskFails, Alive, TaskStops,
                WaitReturns, Gather, Close, Restart
<1> QED BY <1>1, EndsHaveCauses, PTL DEF Spec
=============================================================================
