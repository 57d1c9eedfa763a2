------------------------------ MODULE SpinLock -------------------------------
(***************************************************************************)
(* SpinLock of kernel/src/sync/spin.rs on the only hart: the lock words,   *)
(* the interrupt enable bit of sstatus, and what each guard remembers of   *)
(* it.  lock() reads the bit, clears it and only then swaps the word;      *)
(* dropping the guard clears the word and only then restores the bit.      *)
(* Each of these is a step, because an interrupt may come between any two  *)
(* of them while the bit is set.  th is the thread of control that takes   *)
(* the step; it has finished its operation when it is back at "go".        *)
(***************************************************************************)
CONSTANTS Locks, Threads

VARIABLES
  intr,          \* sstatus.SIE
  locked,        \* the locks whose word is true
  restore_intr,  \* SpinLockGuard::restore_intr of each lock, while it is held
  at,            \* where th is inside its operation; "go": at its start
  saved          \* lock: `restore_intr`

lockVars == <<locked, restore_intr>>

Goto(th, label) == at' = [at EXCEPT ![th] = label]

\* mutant of LockRead: interrupts are left on
LockReadOnly(th, l) ==
  /\ at[th] = "go" /\ Goto(th, "swap")
  /\ saved' = [saved EXCEPT ![th] = intr]
  /\ UNCHANGED <<intr, lockVars>>

\* lock: intr_enabled
LockRead(th, l) ==
  /\ at[th] = "go"
  /\ Goto(th, IF intr THEN "mask" ELSE "swap")
  /\ saved' = [saved EXCEPT ![th] = intr]
  /\ UNCHANGED <<intr, lockVars>>

\* lock: intr_disable
LockMask(th, l) ==
  /\ at[th] = "mask" /\ Goto(th, "swap")
  /\ intr' = FALSE
  /\ UNCHANGED <<lockVars, saved>>

\* mutant of Guard: every guard enables interrupts when it is dropped
GuardEnables(th, l) == [restore_intr EXCEPT ![l] = TRUE]

\* the guard that lock returns
Guard(th, l) == [restore_intr EXCEPT ![l] = saved[th]]

\* lock: the compare_exchange that succeeds; until then the thread spins
LockSwap(th, l) ==
  /\ at[th] = "swap" /\ Goto(th, "go")
  /\ l \notin locked
  /\ locked' = locked \cup {l}
  /\ restore_intr' = Guard(th, l)
  /\ saved' = [saved EXCEPT ![th] = FALSE]
  /\ UNCHANGED intr

\* SpinLockGuard::drop: the store
DropRelease(th, l) ==
  /\ at[th] = "go"
  /\ Goto(th, IF restore_intr[l] THEN "unmask" ELSE "go")
  /\ locked' = locked \ {l}
  /\ restore_intr' = [restore_intr EXCEPT ![l] = FALSE]
  /\ UNCHANGED <<intr, saved>>

\* SpinLockGuard::drop: intr_enable
DropRestore(th, l) ==
  /\ at[th] = "unmask" /\ Goto(th, "go")
  /\ intr' = TRUE
  /\ UNCHANGED <<lockVars, saved>>

=============================================================================
