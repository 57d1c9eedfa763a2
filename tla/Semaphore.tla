------------------------------ MODULE Semaphore ------------------------------
(***************************************************************************)
(* Semaphore of kernel/src/sync/wait.rs: a counter under a SpinLock and a  *)
(* wait queue.  release needs no earlier acquire, so any task may call it. *)
(***************************************************************************)
EXTENDS WaitQueue

CONSTANTS
  SemaphoreQueue,  \* Semaphore::waiters
  Initial,         \* Semaphore::new(initial)
  MaxCount         \* bound: no task releases past this many permits

ASSUME SemaphoreAssumption == SemaphoreQueue \in Queues /\ Initial \in 0 .. MaxCount

VARIABLES
  count,       \* Semaphore::count
  holders      \* the tasks that took a permit and have not given one back

semaphoreVars == <<count, holders>>

\* a task without a permit calls acquire()
Acquire(t) ==
  /\ t \notin holders
  /\ Call(t, SemaphoreQueue, "try")
  /\ UNCHANGED <<parkingVars, queueVars, semaphoreVars>>

\* mutant of Available: the test lets the counter go below zero
AvailableAtZero == count >= 0

Available == count > 0

\* acquire: test and decrement under the lock
TakePermit(t) ==
  /\ \/ /\ Available
        /\ Step(t, SemaphoreQueue, "try", "idle")
        /\ count' = count - 1
        /\ holders' = holders \cup {t}
     \/ /\ ~Available
        /\ Step(t, SemaphoreQueue, "try", "check")
        /\ UNCHANGED semaphoreVars
  /\ UNCHANGED <<parkingVars, queueVars>>

\* acquire: the condition given to wait_until
WaitUntilPermit(t) == WaitCheck(t, SemaphoreQueue, Available) /\ UNCHANGED semaphoreVars

\* release: the increment; wake_one follows
Release(t) ==
  /\ count < MaxCount
  /\ Call(t, SemaphoreQueue, "pop")
  /\ count' = count + 1
  /\ holders' = holders \ {t}
  /\ UNCHANGED <<parkingVars, queueVars>>

SemaphoreInit == count = Initial /\ holders = {}

\* What a task may ask of the semaphore.
SemaphoreCall(t) == Acquire(t) \/ Release(t)

\* The rest of a call that has begun.
SemaphoreContinue(t) ==
  \/ TakePermit(t) \/ WaitUntilPermit(t)
  \/ QueueStep(t, SemaphoreQueue) /\ UNCHANGED semaphoreVars

------------------------------------------------------------------------------
(* Properties                                                                 *)

P == INSTANCE Permits

\* Permits are neither invented nor taken twice, however acquire, release and
\* the wakeups between them interleave: Semaphore implements Permits.
ImplementsPermits == P!PermitsSpec

=============================================================================
