------------------------------- MODULE Parking -------------------------------
(***************************************************************************)
(* What the scheduler promises the blocking primitives: a task parks       *)
(* itself (scheduler::block_current) and somebody unparks it               *)
(* (scheduler::wake).  A wakeup that finds its target awake is remembered  *)
(* in TaskInner::wakeup_pending and consumed by the target's next attempt  *)
(* to park, so parking and waking commute and no wakeup is dropped.        *)
(*                                                                         *)
(* Scheduler is shown to implement this module.  WaitQueue, Mutex,         *)
(* Semaphore and Process are built on it: preemption then appears as the   *)
(* free interleaving of the tasks that are not parked.                     *)
(***************************************************************************)

CONSTANT Tasks

VARIABLES
  parked,    \* tasks whose TaskInner::state is Blocked
  pending    \* tasks whose TaskInner::wakeup_pending is set

parkingVars == <<parked, pending>>

\* mutant of Park: the note is not read
ParkRegardless(t) ==
  /\ t \notin parked
  /\ parked' = parked \cup {t}
  /\ UNCHANGED pending

\* block_current: give up the CPU unless a wakeup is already owed.
Park(t) ==
  /\ t \notin parked
  /\ \/ /\ t \in pending
        /\ pending' = pending \ {t}
        /\ UNCHANGED parked
     \/ /\ t \notin pending
        /\ parked' = parked \cup {t}
        /\ UNCHANGED pending

\* wake: make a parked task runnable, or leave it a note.
Unpark(t) ==
  \/ /\ t \in parked
     /\ parked' = parked \ {t}
     /\ UNCHANGED pending
  \/ /\ t \notin parked
     /\ pending' = pending \cup {t}
     /\ UNCHANGED parked

ParkingInit ==
  /\ parked = {}
  /\ pending = {}

ParkingNext == \E t \in Tasks : Park(t) \/ Unpark(t)

ParkingSpec == ParkingInit /\ [][ParkingNext]_parkingVars

=============================================================================
