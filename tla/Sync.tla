-------------------------------- MODULE Sync ---------------------------------
(***************************************************************************)
(* The blocking primitives of kernel/src/sync/wait.rs together: tasks that *)
(* use a mutex and a semaphore, in any order and one inside the other.     *)
(* Both park the same tasks, and a task has one wakeup_pending flag, so a  *)
(* wakeup meant for one primitive could disturb the other.                 *)
(***************************************************************************)
EXTENDS Mutex, Semaphore

\* Each primitive has a `waiters` of its own.
ASSUME SyncAssumption == MutexQueue # SemaphoreQueue

vars == <<parkingVars, queueVars, pc, self, mutexVars, semaphoreVars>>

Init == QueueInit /\ MutexInit /\ SemaphoreInit

Continue(t) ==
  \/ MutexContinue(t) /\ UNCHANGED semaphoreVars
  \/ SemaphoreContinue(t) /\ UNCHANGED mutexVars

Next == \E t \in Tasks :
  \/ MutexCall(t) /\ UNCHANGED semaphoreVars
  \/ SemaphoreCall(t) /\ UNCHANGED mutexVars
  \/ Continue(t)

Spec == Init /\ [][Next]_vars

=============================================================================
