# A TLA+ model of AlexOS

AlexOS is a small preemptive kernel for RISC-V 64: a feedback scheduler, blocking
primitives, processes with `fork`/`exec`/`waitpid`, Sv39 address spaces on a buddy
allocator, and an interrupt-driven console. This directory models the parts of it
that are hard to test, because what they do depends on when an interrupt comes,
who is preempted where, or which allocation fails. TLC checks the models on small
instances; TLAPS proves, for every instance, the safety of the scheduler, of the lock
discipline that all the other models stand on, of the blocking primitives, the
process tree, the trap frames and console input, and three of the four refinements.

Paths below are relative to `src/kernel/src/`.

## The system

The kernel runs on one hart; `entry.S` parks the others. Kernel code is
interrupted only where `sstatus.SIE` is set, and a `SpinLock` clears it, so a
critical section is atomic towards everything else (`Hart` shows that it is, and
that no lock is waited for in vain). All concurrency comes from
interrupts between critical sections: a tick preempts a task, a device handler
runs, other tasks run, and the task goes on with whatever it read before.

| Part | Code | Module | How it meets the others |
|---|---|---|---|
| scheduler, context switch, tick | `task/scheduler.rs`, `task/switch.S`, `task/context.rs`, `trap/trap.S`, `trap/mod.rs`, `timer.rs` | `Scheduler` | everything below runs on it |
| spin locks, interrupt state, panic | `sync/spin.rs`, `arch.rs`, `lang_items.rs`, `trap/mod.rs`, and every function that takes a lock | `SpinLock`, `Hart`, `KernelPaths` | the grain of the steps everywhere else |
| timer | `timer.rs` | `Timer`, composed in `Hart` | its handler is delayed by whatever masks interrupts |
| wait queues | `sync/wait.rs` | `WaitQueue`, and in `Scheduler` | `block_current`, `wake` |
| mutex, semaphore | `sync/wait.rs` | `Mutex`, `Semaphore`, composed in `Sync` | wait queues; one `wakeup_pending` per task for all of them |
| process tree | `task/process.rs`, `syscall/mod.rs`, `task/mod.rs` | `Process` | one wait queue per task, `Arc`/`Weak` references |
| trap entry, return, trap frames | `trap/user.S`, `trap/mod.rs`, `trap/context.rs`, `task/process.rs` | `UserTrap` | frames are heap blocks; preemption inside system calls |
| page tables, address spaces, loader | `mm/page_table.rs`, `mm/space.rs`, `mm/addr.rs`, `loader.rs`, `task/process.rs` | `PageTable`, `AddressSpace` | frames from the allocator; the scheduler switches `satp` |
| frame allocator | `mm/frame.rs` | `Buddy` | |
| kernel heap | `mm/heap.rs` | `Heap` (extends `Buddy`) | refilled from frames |
| console input | `drivers/uart.rs`, `drivers/plic.rs`, `syscall/mod.rs` | `Console` | a wait queue woken by an interrupt |

`PROJECT.json` lists every component with its status; what is left out, and why,
is under "Not modelled" below.

## The modules

Abstract specifications say what a component promises, and a detailed one is
checked to implement it:

* `Parking` - blocking and waking as two atomic operations: `Park` sleeps unless a
  wakeup is noted, `Unpark` wakes or leaves a note. `Scheduler` implements it
  (`ImplementsParking`); `WaitQueue`, `Mutex`, `Semaphore`, `Process` and `Console`
  are built on it, so they need not carry the scheduler along.
* `Permits` - a number of permits that are taken and given back; `Semaphore`
  implements it (`ImplementsPermits`).
* `PrivateMemory` - every process has a memory of its own; `AddressSpace`
  implements it (`ImplementsPrivateMemory`).
* `InputLine` - a bounded line of bytes that drops only when full; `Console`
  implements it (`ImplementsInputLine`).

The detailed modules:

* `Scheduler`. One hart executes on one stack: a task's or the idle loop's. Each
  stack has a base thread and, while `trapped`, a trap thread, each with a program
  counter. The fields of `TaskInner` are functions on tasks, `levels` is the run
  queue, `current` and `previous` are those of `Cpu`, `ctx` the saved contexts.
  `SwMask` ... `SwResumed` are the steps of `switch_to_idle`, `IdlePrevious` ...
  `IdleSwitch` those of `run`, `WakeState` and `WakePush` the two critical sections
  of `wake`. `TimerInterrupt` and `ExternalInterrupt` are enabled wherever `intr`
  is. `Init` is the loop after its first masking.
* `SpinLock`, `Timer`, `Hart`. `lock` reads `SIE`, clears it and swaps the word;
  the guard's drop clears the word and then restores `SIE`; an interrupt may come
  between any two of these. `on_tick` counts, computes the deadline and arms the
  comparator, each a step, while the counter runs on. `Hart` executes paths: a
  thread per stack and one for a handler on it, each at a position of a sequence
  of operations, with switches between stacks and interrupts wherever `SIE` is
  set. `Assertion` and `Fault` may strike at any step of kernel code and send the
  hart down through `panic` or `fatal`.
* `KernelPaths`. Every system call, handler, the idle loop, `switch_to_idle`, exit,
  `kill_current`, `fatal` and `panic` as such sequences, function by function: the
  locks they take and drop, with guards living as long as Rust keeps them, the
  switches, and where interrupts are enabled and disabled. `Annotated` adds to each
  operation what the code there counts on (the locks held, whether interrupts
  should be on); the runs and the proofs show it is right to.
* `WaitQueue`, `Mutex`, `Semaphore`, `Sync`. One step per critical section of
  `wait`, `wait_until`, `wake_one`, `lock`, `try_lock`, the guard's drop, `acquire`
  and `release`. `Sync` lets tasks use both primitives, one inside the other.
* `Process`. `fork`, the sections of `exit_current` and `on_exit`, `kill_current`,
  and `sys_waitpid` with its scan, its reaping and its sleep. `InMemory` is what
  reference counting keeps alive: a task referred to by the scheduler, a wait queue
  or a local, or by the child list of a task in memory. It is the least set closed
  under these.
* `UserTrap`. Trap frames are blocks of the heap, `sscratch` and `stvec` are
  variables, and the registers of a program are the point it has reached and `a0`.
  `arg` is the reference to the frame that `user_trap_handler` holds throughout.
  `sscratch` names a frame only in user mode: the entry swaps the program's stack
  pointer into it, and `user_trap_return` puts a frame back.
* `PageTable`, `AddressSpace`. Page tables lie in frames: an entry is a word of
  memory, a table is whatever the frame holds, and a frame that was freed holds the
  allocator's links. `descend` is the loop of `walk_create_to`, `walk` that of
  `walk_ptr`; `hart_walk` is the hardware's own walk from `satp`, which stops at a
  leaf of any level. `Boot` is `init_kernel_space`, run on the empty pool: the
  kernel's sections, the pool and the devices, with superpages where they fit. A
  space is its root, the frames of its tables and its regions with their frames.
  `exec` builds the new space in steps, each of which can fail.
* `Buddy`, `Heap`. The free lists with their links, the bitmap as numbered bits
  (the regions of the orders follow one another, so a bit looked up past the end of
  one belongs to the next), and the size-class lists. Heap users, and users of whole frames, allocate and free in any order.
* `Console`. The ring with its indices, the device's receiver, `READERS`, and
  `sys_read` in its sections. The interrupt is one step.

`MC...` modules add the constants and symmetries TLC needs. `SchedulerInv`,
`SchedulerProofs`, `SchedulerWaits`, `HartProofs`, `SyncProofs`, `UserTrapProofs`,
`ProcessProofs` and `ConsoleProofs` hold the proofs; they extend the modules they are
about and change nothing in them.

## The runs

Every run has a `.cfg` of its own. A property's comment in its module says which
code it is about; every property of a passing run has a mutant, a version of one
definition with a plausible bug that makes TLC report the property.

| Run | Shows | Bounds |
|---|---|---|
| `scheduler` | Three tasks yield, wait, wake, spawn and exit under interrupts: no task is queued before it left its stack, queued twice or lost; a blocked task can be woken; no switch with interrupts on; blocking and waking implement `Parking` | 3 tasks, 1 queue, 2 levels, 2 ticks per level; 1.3 million states |
| `scheduler_fair` | While nobody blocks, every runnable task runs again and again (`ReadyRuns`) | the same, without waiting |
| `hart` | On its only hart the kernel never spins on a lock that it holds itself; interrupts are masked exactly where they should be; ticks are neither early nor drifting, a late handler skips what it missed, and ticks are always handled; a panic or fault stops the machine | a task, a peer whose locks are taken, and the idle loop; all the paths; period 2, time to 4, 2 faults; 559 thousand states |
| `sync` | The guard is exclusive, permits are not invented, a sleeper can be reached, no wakeup is spent on a task that is not waiting, and every waiter's turn comes | 3 tasks, a mutex, 1 permit |
| `process` | A status is delivered once and to the parent; nothing freed comes back; a process that exits is freed | 3 processes, 2 exit codes |
| `process_sleep` | violated, see below | 2 processes |
| `heap` | Blocks and objects never overlap, lists and bitmap agree, merging is complete, the accounts balance | 5 frames, orders 0-2, 2 classes, 2 objects and any number of frame runs |
| `address_space` | No frame is lost or owned twice, nothing is mapped that is not owned, the hart never runs on freed tables or a stale translation, every table it runs on leads to the whole kernel, memory is private | 2 processes, 3 levels of 4 entries (32 user and 32 kernel pages), 20 frames, 1 TLB entry, 2 `fork` or `exec` calls; 71 thousand states |
| `address_space_sbrk` | violated, see below | one frame is left, `sbrk` by two pages |
| `console` | Bytes arrive once and in order, are dropped only when the ring is full; a queued reader does not sleep through input | ring of 3, receiver of 3, 2 readers, 2 byte values |
| `usertrap` | Every program resumes with its registers, kernel code runs on its own stack, no frame leaks | 3 processes, 4 blocks, 2 points |
| `usertrap_entry` | violated, see below | the same |

Why these bounds. Three tasks give a waker, a sleeper and a third party in
between; two levels and two ticks reach both clamps and a tick that does not
demote. Five frames are no power of two, so the buddy beyond the end is tried,
and every split and merge of three orders occurs. The frames of `address_space`
run out during `fork`, `exec` and `sbrk`: a process with one page of heap can be
forked, one with two cannot. Two calls let a child `exec` while its parent grows,
and a freed root be used again by the next `fork`; with three (`MAX_CALLS = 3`, 304
thousand states, several minutes) the same holds. Tables of four entries leave two entries
of the root to each half, and the window of the pool begins and ends in the middle
of a superpage. In `hart` interrupts do not nest, so a task, its handler and the
idle loop give every interleaving of two stacks; period 2 and time 4 give a tick
in time, a late one and one that has to be skipped; the second fault strikes on
the way down from the first. A ring of three slots wraps, fills and
overflows within one burst of three bytes, and two byte values show a change of
order. Three tasks and four blocks let a frame that `exec` freed become another
process's. Two points suffice to tell "before the `ecall`" from "after".

Deadlock is checked in `scheduler`, `heap` and `console`. In the others the system
may stop: all processes have exited, every task has been left asleep, the bound
on calls is reached, or the machine has been switched off.

**Assumptions on the environment.** One hart. A device or a tick may interrupt
whenever `SIE` is set. `usertrap` assumes that no interrupt falls in the window of
`user_entry` described below (`QuietSpec`); `usertrap_entry` drops the assumption.
`scheduler` and `hart` start after the first masking of the idle loop (see below).
`address_space` grows the heap by at most one page at a time;
`address_space_sbrk` by two.

**Fairness.** `scheduler_fair` assumes that kernel code keeps executing
(`WF(KernelStep)`) and that the timer, which `on_tick` always rearms, fires
again and again while interrupts are on again and again (`SF(TimerInterrupt)`: the
interrupt stays pending while it is masked). `hart` assumes the same two, and so
that devices do not interrupt in an endless storm that never lets the hart take
the timer's interrupt. `process` assumes weak
fairness of each task's steps inside a call. That is what `ReadyRuns` says of the
scheduler while tasks compute and yield; with tasks that block and wake each other
for ever at the top level the feedback queue can starve a lower one, so there the
fairness is an assumption about the load and not a guarantee of the code. `sync`
assumes none: `TurnComes` has as its premise that `wake_one` keeps taking waiters
from the queue, and concludes that it comes to each of them. That the waker, once it
has taken a waiter, gets to run is not claimed: it may be a task that the feedback
queue starves.

## What is proved

`SchedulerInv` and `SchedulerProofs` prove, for any set of tasks, any wait queues,
any number of levels and any quantum, from `SchedulerAssumption` alone (the idle
stack is no task, `None` is neither, levels and quantum are positive):

| Theorem | Statement |
|---|---|
| `Invariance` | the inductive invariant `IInv` always holds |
| `TypeCorrect` | `TypeOK`; among other things a level is always an index of the run queue |
| `SwitchedOff` | no task is queued before it has switched off its stack |
| `QueuedAtMostOnce` | a task is queued at most once, and then it is Ready and in the queue of its level |
| `NothingLost` | a Ready task is queued, or held by the code about to queue or run it |
| `CurrentTask` | `current_task()` names the caller; a zombie is never resumed |
| `Masked` | interrupts are off throughout a switch |

None of these is inductive by itself. That a task is queued once depends on
nobody else holding it, which depends on where each thread of control is. `IInv`
therefore adds to `TypeOK`: `Control`, where the code on each stack can be (a
stack that is not executing is in `sw_resumed`, at its entry, or at the top of the
idle loop; interrupts are on only at certain labels); `Cpus`, how `current`,
`previous` and the locals of a switch follow from that; `States`, the task states
that go with it; and `Places`, that a Ready task has exactly one of its possible
places: the run queue, the hart, `previous`, `next`, or the hands of one waker.
There is a lemma per conjunct (`TypeStep`, `ControlStep`, `CpusStep`,
`StatesStep`, `PlacesStep`), each with one step per action.

`SchedulerWaits` goes on from there, with the same generality and no further
assumption:

| Theorem | Statement |
|---|---|
| `WaitsInvariance` | `IInv` together with `Waits` always holds |
| `SleepersHeld` | `BlockedIsHeld`: a Blocked task is in a wait queue or on a waker's list |
| `WakeupsFresh` | `NoStaleWakeup`: entries, wakers and notes belong to tasks still inside `wait` |
| `ParkingRefinement` | `Scheduler` implements `Parking` |

The heart of `Waits` is the moment at which `switch_to_idle` looks at
`wakeup_pending`. Until then (`Undecided`) a waiting task is held by exactly one of
its queue entry, a waker that took the entry, and its note; from then on
(`Decided`) it is held exactly while it is Blocked. Under the refinement mapping this
moment is `Park`, the first section of `wake` is `Unpark`, and every other step
stutters. What makes this hard is that the waiter may be preempted on either side of
that moment, so a task can be Ready, queued or running at any stage of its wait; the
invariant of `SchedulerProofs` says which.

`HartProofs` proves, for any tasks, locks, period and bound on faults, and for any
code paths that keep the lock discipline:

| Theorem | Statement |
|---|---|
| `LockInductive` | the inductive invariant `LockInv` always holds |
| `NoDeadlock` | `NoSelfDeadlock`: nothing spins on a lock held by code that was interrupted, switched away from, or is spinning itself |
| `Masking` | `MaskingIsExact` |
| `TimeInductive` | the inductive invariant `TimeInv` always holds |
| `Rate` | `TickRate`, however late a tick is handled |

The discipline is `PathsAssumption`: on every path no lock is taken while it is
held, the first of several held locks is dropped last, none is held across a
switch, a change of the interrupt state or the end of the path, and each path
starts masked. Run `hart` evaluates it, with the other assumptions
(`StackAssumption`, `NamesAssumption`, `TimerAssumption`), on the paths of
`KernelPaths`, for one task and its peer; a task's paths differ from another's only
in which task's locks they name. The argument has three parts.
`ActiveInv`, the running thread holds exactly the locks its path says, and only its
outermost guard remembers that interrupts were on; `BeneathInv`, a thread under a
handler was interrupted where interrupts were on, so it holds no lock; `AwayInv`, a
thread that switched away holds none either. So whatever is locked, the running
thread has locked itself, and by the discipline it does not lock that again. The
discipline is needed in full: a guard that saved `SIE` and is dropped before an
inner one would enable interrupts with a lock held. `TimeInv` says how far the
deadline and the count are apart at each point of `on_tick`, and that no thread
that is not running is inside `on_tick`.

`SyncProofs` proves, for any tasks, any initial number of permits and either
primitive used inside the other, from the assumptions that name the queues (`WaitQueueAssumption`,
`MutexAssumption`, `SemaphoreAssumption`, and `SyncAssumption`: the mutex and the
semaphore have queues of their own):

| Theorem | Statement |
|---|---|
| `Invariance` | the inductive invariant `IInv` always holds |
| `Exclusion` | `MutualExclusion` |
| `SleepersHeld` | `SleeperIsHeld` |
| `WakesNotWasted` | `NoWakeWasted` |
| `PermitsRefinement` | `Semaphore`, used beside the mutex, implements `Permits` |

The note in `wakeup_pending` is one per task and says nothing of the queue it came
from, so that a note of the mutex is not taken by a wait on the semaphore has to be
shown. `IInv` follows a wait through its stages, as `Waits` does above: `Entries`
(who is queued is inside the wait on that queue, once), `Popping` (whom a `wake_one`
has popped has no entry and no note, and nobody else coming), `Notes`, and `Waits`
(about to park, a task is held or has its note; after it, it is held exactly while
it sleeps).

`UserTrapProofs` proves, for any processes, heap blocks and program points, from
`UserTrapAssumption`, and under `QuietSpec` as in the run (without it
`HandlerHasFrame` and `OwnStack` are false, see `usertrap_entry`):

| Theorem | Statement |
|---|---|
| `Invariance` | the inductive invariant `IInv` always holds |
| `FramesSafe` | `FramesOwned` |
| `ContextSafe` | `ContextKept` |
| `StackSafe` | `OwnStack` |
| `VectorSafe` | `VectorFits` |
| `HandlerSafe` | `HandlerHasFrame` |

Here the claims depend on each other: a trap saves the registers in the frame
`sscratch` names, so where they go is a matter of `VectorFits`; the stack it
continues on is read from that frame, so `OwnStack` is a matter of who owns it; and
frames are freed by `exec` while `user_trap_handler` still holds a reference to one.
`IInv` therefore has them all, with `Owners`, `Stacks`, `Control` and `Contexts` in
between, and there is one lemma per action.

`ProcessProofs` proves, for any processes and exit codes, from `ProcessAssumption`
(the root is a process, the ones that may fault are, `None` is not, and `Killed` is
not a code a program passes to `exit`):

| Theorem | Statement |
|---|---|
| `Invariance` | the inductive invariant `IInv` always holds |
| `StatusOnce` | `StatusDeliveredOnce` |
| `FreedForGood` | `FreedStaysFreed` |

`IInv` says of every process that was forked that it is in its parent's child list,
in the hands of its parent's `waitpid`, or collected (`Kept`), that these exclude each
other (`Lists`, `Reaps`, `Collects`), and that a zombie has its exit code (`Exits`).
`FreedForGood` is an action property. Since `InMemory` is the least closed set, it is
enough to find after each step some closed set without the freed task: the tasks that
were in memory before, and for `fork` the new child. The case that matters is
`on_exit`, where the weak reference is upgraded only if its target is in memory.

`ConsoleProofs` proves, for any ring, any receiver, any readers and lengths, from
`ConsoleAssumption` (the ring has a slot, the receiver has a size, and a `read` of
length 0 does not get as far as the ring):

| Theorem | Statement |
|---|---|
| `Invariance` | the inductive invariant `IInv` always holds |
| `ReadersAwake` | `AwakeForInput` |
| `LineRefinement` | `Console` implements `InputLine` |

The refinement rests on lemmas about the ring: `RingLength` (how many bytes it has,
and that it is full with one slot free), `PushLine` and `PopLine` (a push appends to
the line and a pop takes its head, across the wrap of the indices). The interrupt
handler pushes all the bytes of the receiver in one step, a recursive function in
the model, and the abstract step appends as many of them as fit. That these agree
(`PushedLine`) is an induction on the number of bytes. The library's induction
theorems cannot be used, but a set of numbers has a least element (`Least`, from the
well-foundedness of `<`), and the least number of bytes for which the two would differ
leads to a contradiction.

Only model-checked:

* the liveness properties (`ReadyRuns`, `TurnComes`, `ExitedIsFreed`,
  `TickHandled`, `PanicStops`), which TLAPS cannot prove;
* everything about `PageTable` and `AddressSpace`, which use recursive operators for
  the walks, and with them the refinement of `PrivateMemory`: TLAPS loses its main
  prover in such modules;
* everything about `Buddy` and `Heap`. Their invariants speak of what a list reached
  through links contains, and their proofs need induction over these lists.

## Where the code and its comments part

The violation runs each show one:

* `process_sleep` - `sys_waitpid` scans its children and then goes to sleep, and a
  child wakes its parent before it is a zombie. The parent may sleep beside the
  zombie it waits for, and nothing need ever wake it.
* `address_space_sbrk` - when mapping a region fails half way because the frames
  run out, those it had go back and the entries already written stay.
* `usertrap_entry` - `user_entry` sets the user vector with interrupts on. An
  interrupt before `sstatus` is written enters through `user_trap_entry`, which
  takes `sscratch` for a frame; in the kernel it is 0 or a program's stack pointer,
  so the first store faults and comes in again, now with the task's own kernel
  stack pointer in the place of the frame. The registers are stored over the live
  stack and `sp` is loaded from a word that nobody set up. If that is a stack, the
  new process is killed for the fault; otherwise the hart faults for ever. The run
  reports `HandlerHasFrame`; as long as no interrupt falls in the window it holds
  (`HandlerSafe`).

Met while modelling and not the subject of a run:

* `kmain` enables interrupts (`main.rs:64`) and nothing masks them before `run()`,
  so the first iteration is not in "the masked state the loop body expects"
  (`task/scheduler.rs:316`). A tick after `cpu.current` is set and before
  `switch_context` has saved the idle context would switch to the zeroed context
  that `context.rs` starts with. The models start after the first masking.
* `lang_items.rs:26` and `console.rs:48` say that a panic inside a console critical
  section does not deadlock. The message does get out, but `backtrace::print` uses
  `println!`, which takes `CONSOLE_LOCK`, so the machine then spins instead of
  switching off; a supervisor fault inside such a section spins before its first
  message, since `fatal` uses `error!`. `PanicStops` excepts these cases and no
  others.
* `wait_until` checks its condition and queues in separate sections, so
  `Mutex::lock`, `Semaphore::acquire` and `sys_read` can sleep although the
  condition has come true, until the next wakeup. `AwakeForInput` and
  `SleeperIsHeld` state what does hold. If the receive ring fills in that window,
  no later byte is queued and no later interrupt wakes the reader.
* After `exec`, `user_trap_handler` writes the result through the freed frame. If
  `exec` is preempted first the block may be another process's frame; `ContextKept`
  excepts exactly that `a0`.
* The entry that `WaitQueue::wait` takes out after it wakes, "if a wakeup left it
  behind" (`sync/wait.rs:51`), is never there: only a wait queue calls `wake`, and
  it pops the entry first. The model has the removal all the same; it never fires.
* `kill_current` leaves an `Arc` on the dead stack, so a process that faults is
  never freed; `ExitedIsFreed` excepts it.
* `init.rs` says orphans are reparented to init; no code does that.
* `README.md` of the repository says one full quantum demotes a task; the code
  demotes after `QUANTA_PER_LEVEL` ticks.
* The comment in `sys_exec` that the old image is gone when memory runs out does
  not hold: `exec_current` fails before it replaces anything.
* Two readers woken by one byte: the second returns 0 bytes. Bytes taken from the
  ring are lost if `copy_to_user` then fails.

## Not modelled

* `SpinLock::try_lock`, `force_unlock` and `get_mut`, `Once`, `PageTable::protect`
  and `entry_mut`: nothing outside `Debug` and the tests calls them.
* The locks inside `Mutex` and `Semaphore` are not in `KernelPaths`: only kernel
  tests use these types. `Sync` has their sections as steps.
* The first iteration of `run()`, see above. The order of initialisation at boot,
  the trampoline and the boot page table: straight-line code that runs once.
* The contents of console output, SBI calls, device registers, the walk of a
  backtrace, the in-kernel tests, the table of embedded programs: I/O or data
  without state that anything here depends on.
* The stack canary, the parsing of ELF headers, the checks of system call
  arguments, `copy_from_user` and `read_cstr`: they change nothing or only refuse.
* The bits of a page table entry and of typed addresses: conversions whose
  results the models use as records and numbers.
* The user runtime and programs. They are sequential and share nothing; the models
  let a program make any call at any time.

## Plan

1. Proofs about `Buddy`: `Partition` first, with the contents of the lists as sets.
2. `copy_from_user`, `read_cstr` and the argument checks as operators against a
   reference definition; `push_args` and the layout of the user stack.
