------------------------------ MODULE WaitQueue ------------------------------
(***************************************************************************)
(* WaitQueue of kernel/src/sync/wait.rs on top of Parking.                 *)
(*                                                                         *)
(* A blocking primitive embeds these steps in its own code.  pc says where *)
(* a task is in such a call and self which queue the call is about; a task *)
(* that is not parked may take its next step at any time, because the      *)
(* timer preempts it between any two of them.  The labels of the queue are *)
(* push, park and unqueue (wait), check (the test of wait_until), pop and  *)
(* wake (wake_one); a task at idle is in no call.                          *)
(***************************************************************************)
EXTENDS Parking, Integers, Sequences

CONSTANTS Queues, None

ASSUME WaitQueueAssumption == None \notin Tasks /\ None \notin Queues

VARIABLES
  waiters,     \* WaitQueue::waiters of each queue
  waking,      \* wake_one: `waiter`, between the pop and the call of wake
  pc,
  self         \* the queue the task's call is about

queueVars == <<waiters, waking>>

\* t executes the code between two labels of a call on queue q.
Step(t, q, from, to) ==
  /\ t \notin parked
  /\ self[t] = q
  /\ pc[t] = from
  /\ pc' = [pc EXCEPT ![t] = to]
  /\ self' = [self EXCEPT ![t] = IF to = "idle" THEN None ELSE q]

\* t makes a call on queue q.
Call(t, q, to) ==
  /\ t \notin parked
  /\ pc[t] = "idle"
  /\ pc' = [pc EXCEPT ![t] = to]
  /\ self' = [self EXCEPT ![t] = IF to = "idle" THEN None ELSE q]

Contains(s, e) == \E i \in 1 .. Len(s) : s[i] = e

\* s without its first e
Without(s, e) ==
  LET first == CHOOSE i \in 1 .. Len(s) : s[i] = e /\ \A j \in 1 .. i - 1 : s[j] # e
  IN  IF Contains(s, e) THEN SubSeq(s, 1, first - 1) \o SubSeq(s, first + 1, Len(s)) ELSE s

\* wait: queue the caller
WaitPush(t, q) ==
  /\ Step(t, q, "push", "park")
  /\ waiters' = [waiters EXCEPT ![q] = Append(@, t)]
  /\ UNCHANGED <<waking, parkingVars>>

\* wait: block_current
WaitPark(t, q) ==
  /\ Step(t, q, "park", "unqueue")
  /\ Park(t)
  /\ UNCHANGED queueVars

\* wait: drop the entry a wakeup left behind, and go back to wait_until
WaitUnqueue(t, q) ==
  /\ Step(t, q, "unqueue", "check")
  /\ waiters' = [waiters EXCEPT ![q] = Without(@, t)]
  /\ UNCHANGED <<waking, parkingVars>>

\* wait_until: the loop condition
WaitCheck(t, q, condition) ==
  /\ Step(t, q, "check", IF condition THEN "try" ELSE "push")
  /\ UNCHANGED <<queueVars, parkingVars>>

\* mutant of Popped: the most recent waiter is served first
PoppedLast(s) == <<s[Len(s)], SubSeq(s, 1, Len(s) - 1)>>

\* mutant of Popped: the entry stays in the queue
PoppedPeeks(s) == <<Head(s), s>>

\* pop_front: the waiter, and the queue without it
Popped(s) == <<Head(s), Tail(s)>>

\* wake_one: pop_front
WakePop(t, q) ==
  /\ \/ /\ waiters[q] = <<>>
        /\ Step(t, q, "pop", "idle")
        /\ UNCHANGED queueVars
     \/ /\ waiters[q] # <<>>
        /\ Step(t, q, "pop", "wake")
        /\ waking' = [waking EXCEPT ![t] = Popped(waiters[q])[1]]
        /\ waiters' = [waiters EXCEPT ![q] = Popped(@)[2]]
  /\ UNCHANGED parkingVars

\* wake_one: scheduler::wake
WakeWaiter(t, q) ==
  /\ Step(t, q, "wake", "idle")
  /\ Unpark(waking[t])
  /\ waking' = [waking EXCEPT ![t] = None]
  /\ UNCHANGED waiters

\* The steps of wait and wake_one, which are the same in every primitive.
QueueStep(t, q) ==
  \/ WaitPush(t, q) \/ WaitPark(t, q) \/ WaitUnqueue(t, q)
  \/ WakePop(t, q) \/ WakeWaiter(t, q)

QueueInit ==
  /\ ParkingInit
  /\ waiters = [q \in Queues |-> <<>>]
  /\ waking = [t \in Tasks |-> None]
  /\ pc = [t \in Tasks |-> "idle"]
  /\ self = [t \in Tasks |-> None]

------------------------------------------------------------------------------
(* Properties of every primitive built from these steps.                      *)

\* A sleeping task can still be reached: it has an entry in the queue it waits
\* on, or the wake_one that took the entry has not called wake yet.  A wakeup that
\* overtakes the waiter between its push_back and its block_current is not lost.
SleeperIsHeld ==
  \A t \in parked : Contains(waiters[self[t]], t) \/ \E u \in Tasks : waking[u] = t

\* No wake_one is spent on a task that has stopped waiting on its queue (wait: "a
\* later wake_one could spend itself on a task that is no longer waiting"), no
\* task has two entries, and a note in wakeup_pending never outlives the wait it
\* is for, so it cannot cut short a wait on another queue.
NoWakeWasted ==
  /\ \A q \in Queues : \A i \in 1 .. Len(waiters[q]) :
       self[waiters[q][i]] = q /\ pc[waiters[q][i]] \in {"park", "unqueue"}
  /\ \A q \in Queues : \A i, j \in 1 .. Len(waiters[q]) : waiters[q][i] = waiters[q][j] => i = j
  /\ \A t \in pending : pc[t] = "park"

\* A queue is fair: as long as wake_one keeps taking waiters from it, the turn of
\* every waiter comes, whoever else joins the queue meanwhile and however the
\* tasks are scheduled.  (From there SleeperIsHeld: a wake_one has it in hand.)
TurnComes ==
  \A t \in Tasks, q \in Queues :
    []<><<\E u \in Tasks : WakePop(u, q)>>_waiters =>
      (Contains(waiters[q], t) ~> ~Contains(waiters[q], t))

=============================================================================
