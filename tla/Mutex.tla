-------------------------------- MODULE Mutex --------------------------------
(***************************************************************************)
(* Mutex of kernel/src/sync/wait.rs: a flag taken with compare_exchange, a *)
(* wait queue for those who found it taken, and a guard whose drop clears  *)
(* the flag and wakes one waiter.                                          *)
(***************************************************************************)
EXTENDS WaitQueue

CONSTANT MutexQueue    \* Mutex::waiters

ASSUME MutexAssumption == MutexQueue \in Queues

VARIABLES
  locked,      \* Mutex::locked
  guards       \* the tasks that own a MutexGuard

mutexVars == <<locked, guards>>

\* a task that owns no guard calls lock()
Lock(t) ==
  /\ t \notin guards
  /\ Call(t, MutexQueue, "try")
  /\ UNCHANGED <<parkingVars, queueVars, mutexVars>>

\* lock: compare_exchange, and return if it succeeded
CompareExchange(t) ==
  /\ Step(t, MutexQueue, "try", IF locked THEN "check" ELSE "idle")
  /\ guards' = IF locked THEN guards ELSE guards \cup {t}
  /\ locked' = TRUE
  /\ UNCHANGED <<parkingVars, queueVars>>

\* try_lock: the same compare_exchange, and no waiting
TryLock(t) ==
  /\ t \notin guards
  /\ Call(t, MutexQueue, "idle")
  /\ guards' = IF locked THEN guards ELSE guards \cup {t}
  /\ locked' = TRUE
  /\ UNCHANGED <<parkingVars, queueVars>>

\* mutant of WaitUntilFree: the wakeup is taken to hand the lock over
WaitHandsOver(t) ==
  /\ Step(t, MutexQueue, "check", IF locked THEN "push" ELSE "idle")
  /\ guards' = IF locked THEN guards ELSE guards \cup {t}
  /\ UNCHANGED <<parkingVars, queueVars, locked>>

\* lock: the condition given to wait_until
WaitUntilFree(t) == WaitCheck(t, MutexQueue, ~locked) /\ UNCHANGED mutexVars

\* MutexGuard::drop, the store; wake_one follows
Unlock(t) ==
  /\ t \in guards
  /\ Call(t, MutexQueue, "pop")
  /\ locked' = FALSE
  /\ guards' = guards \ {t}
  /\ UNCHANGED <<parkingVars, queueVars>>

MutexInit == locked = FALSE /\ guards = {}

\* What a task may ask of the mutex.
MutexCall(t) == Lock(t) \/ TryLock(t) \/ Unlock(t)

\* The rest of a call that has begun.
MutexContinue(t) ==
  \/ CompareExchange(t) \/ WaitUntilFree(t)
  \/ QueueStep(t, MutexQueue) /\ UNCHANGED mutexVars

------------------------------------------------------------------------------
(* Properties                                                                 *)

\* A guard is exclusive, and the flag is set exactly while there is one, whatever
\* the waiters and the wakeups are doing (MutexGuard: "holding the guard proves
\* exclusive access").
MutualExclusion ==
  /\ \A t, u \in guards : t = u
  /\ locked <=> guards # {}

=============================================================================
