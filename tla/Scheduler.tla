------------------------------ MODULE Scheduler ------------------------------
(***************************************************************************)
(* kernel/src/task/scheduler.rs and WaitQueue of kernel/src/sync/wait.rs:  *)
(* the feedback run queue, the idle loop every switch goes through, the    *)
(* timer tick, and blocking and waking tasks.                              *)
(*                                                                         *)
(* A step of the model is one critical section of the code (a SpinLock     *)
(* section or a run of instructions no other party can tell apart).  A     *)
(* SpinLock masks interrupts on its hart, so an interrupt falls between    *)
(* two steps, and only where SIE is set.                                   *)
(*                                                                         *)
(* The kernel runs one hart (the others are parked at boot), and that hart *)
(* executes on one stack at a time: a task's kernel stack or the idle      *)
(* stack.  A stack holds at most two threads of control: the base code     *)
(* and, while `trapped`, the trap handler that interrupted it.             *)
(***************************************************************************)
EXTENDS Integers, Sequences

CONSTANTS
  Tasks,              \* every task that may ever be created
  Idle,               \* the boot stack, which becomes the hart's idle loop
  First,              \* the task kmain admits before it calls run()
  Queues,             \* the wait queues
  Ops,                \* the scheduler calls that tasks make
  PRIORITY_LEVELS,
  QUANTA_PER_LEVEL,
  None

Stacks   == Tasks \cup {Idle}
Threads  == Stacks \X {"base", "trap"}
Levels   == 0 .. PRIORITY_LEVELS - 1
AllOps   == {"yield", "wait", "wake_one", "wake_all", "spawn", "exit"}

ASSUME SchedulerAssumption ==
  /\ Idle \notin Tasks
  /\ None \notin Stacks
  /\ None \notin Queues
  /\ First \in Tasks
  /\ Ops \subseteq AllOps
  /\ PRIORITY_LEVELS \in Nat \ {0}
  /\ QUANTA_PER_LEVEL \in Nat \ {0}

VARIABLES
  \* TaskInner
  state,           \* "Unborn" stands for a task not yet constructed
  level, ticks, needs_resched, wakeup_pending,
  ctx,             \* saved contexts (TaskInner::ctx, Cpu::idle): the stack that loading one resumes
  \* RUN_QUEUE, and the waiters of each WaitQueue
  levels, waiters,
  \* Cpu, and the hart's registers
  current, previous,
  stack,           \* the stack sp points into; None once a zeroed context was loaded
  intr,            \* sstatus.SIE
  \* control and locals of the code running on each stack
  trapped, pc,
  want,            \* switch_to_idle: `state`
  was_enabled,     \* switch_to_idle: `was_enabled`
  taken,           \* switch_to_idle: `task`, later `ctx_ptr`
  drained,         \* wake_one / wake_all: waiters popped and not woken yet
  waiting_on,      \* WaitQueue::wait: `self`
  next             \* run: `task`, later `ctx`

taskVars  == <<state, level, ticks, needs_resched, wakeup_pending>>
cpuVars   == <<current, previous>>
hartVars  == <<stack, ctx, intr, trapped>>
localVars == <<want, was_enabled, taken, drained, waiting_on, next>>
vars      == <<taskVars, levels, waiters, cpuVars, hartVars, pc, localVars>>

Contains(s, e) == \E i \in 1 .. Len(s) : s[i] = e
RemoveAt(s, i) == SubSeq(s, 1, i - 1) \o SubSeq(s, i + 1, Len(s))

\* The thread of control the hart is executing.
Active == <<stack, IF trapped[stack] THEN "trap" ELSE "base">>

At(label) == stack # None /\ pc[Active] = label
Goto(label) == pc' = [pc EXCEPT ![Active] = label]

\* mutant of Push: the clamp is off by one and the bottom level falls through
PushDropsBottom(t, l) ==
  IF l = PRIORITY_LEVELS - 1 THEN levels ELSE [levels EXCEPT ![l] = Append(@, t)]

\* RunQueue::push; a level is always in range, so that its clamp never bites
Push(t, l) == [levels EXCEPT ![l] = Append(@, t)]

\* mutant of TopLevel: the levels are searched from the bottom
BottomLevel(l) == levels[l] # <<>> /\ \A k \in Levels : k > l => levels[k] = <<>>

\* RunQueue::pop: the level it takes from
TopLevel(l) == levels[l] # <<>> /\ \A k \in Levels : k < l => levels[k] = <<>>

------------------------------------------------------------------------------
(* What a task does between scheduler calls is its own business: it may      *)
(* compute for as long as it likes, or make any of the calls in Ops.         *)

InTask(op) == op \in Ops /\ stack \in Tasks /\ At("run")

\* mutant of YieldNow: the task requeues itself before it switches
YieldQueuesItself ==
  /\ InTask("yield")
  /\ want' = [want EXCEPT ![Active] = "Ready"]
  /\ levels' = Push(stack, level[stack])
  /\ Goto("sw_mask")
  /\ UNCHANGED <<taskVars, waiters, cpuVars, hartVars,
                 was_enabled, taken, drained, waiting_on, next>>

\* yield_now
YieldNow ==
  /\ InTask("yield")
  /\ want' = [want EXCEPT ![Active] = "Ready"]
  /\ Goto("sw_mask")
  /\ UNCHANGED <<taskVars, levels, waiters, cpuVars, hartVars,
                 was_enabled, taken, drained, waiting_on, next>>

\* WaitQueue::wait, up to the call of block_current
WaitPush(q) ==
  /\ InTask("wait")
  /\ waiters' = [waiters EXCEPT ![q] = Append(@, stack)]
  /\ waiting_on' = [waiting_on EXCEPT ![stack] = q]
  /\ want' = [want EXCEPT ![Active] = "Blocked"]
  /\ Goto("sw_mask")
  /\ UNCHANGED <<taskVars, levels, cpuVars, hartVars,
                 was_enabled, taken, drained, next>>

\* WaitQueue::wait, after block_current: drop our entry if it was left behind
WaitUnqueue ==
  LET q == waiting_on[stack]
  IN  /\ At("unqueue")
      /\ \/ /\ ~Contains(waiters[q], stack)
            /\ UNCHANGED waiters
         \/ \E pos \in 1 .. Len(waiters[q]) :
              /\ waiters[q][pos] = stack
              /\ \A i \in 1 .. pos - 1 : waiters[q][i] # stack
              /\ waiters' = [waiters EXCEPT ![q] = RemoveAt(@, pos)]
      /\ waiting_on' = [waiting_on EXCEPT ![stack] = None]
      /\ Goto("run")
      /\ UNCHANGED <<taskVars, levels, cpuVars, hartVars,
                     want, was_enabled, taken, drained, next>>

\* mutant of WakeOne: the head is read, not popped
WakeOnePeeks(q) ==
  /\ InTask("wake_one")
  /\ waiters[q] # <<>>
  /\ drained' = [drained EXCEPT ![Active] = <<Head(waiters[q])>>]
  /\ Goto("wake")
  /\ UNCHANGED <<taskVars, levels, waiters, cpuVars, hartVars,
                 want, was_enabled, taken, waiting_on, next>>

\* WaitQueue::wake_one, up to the call of wake
WakeOne(q) ==
  /\ InTask("wake_one")
  /\ waiters[q] # <<>>
  /\ drained' = [drained EXCEPT ![Active] = <<Head(waiters[q])>>]
  /\ waiters' = [waiters EXCEPT ![q] = Tail(@)]
  /\ Goto("wake")
  /\ UNCHANGED <<taskVars, levels, cpuVars, hartVars,
                 want, was_enabled, taken, waiting_on, next>>

Drain(q) ==
  /\ drained' = [drained EXCEPT ![Active] = waiters[q]]
  /\ waiters' = [waiters EXCEPT ![q] = <<>>]
  /\ Goto("wake")
  /\ UNCHANGED <<taskVars, levels, cpuVars, hartVars,
                 want, was_enabled, taken, waiting_on, next>>

\* WaitQueue::wake_all, up to the loop over the drained waiters
WakeAll(q) == InTask("wake_all") /\ waiters[q] # <<>> /\ Drain(q)

\* spawn: construct a task (Task::new_kernel) and admit it
Spawn(t) ==
  /\ InTask("spawn")
  /\ state[t] = "Unborn"
  /\ state' = [state EXCEPT ![t] = "Ready"]
  /\ level' = [level EXCEPT ![t] = 0]
  /\ ticks' = [ticks EXCEPT ![t] = 0]
  /\ needs_resched' = [needs_resched EXCEPT ![t] = FALSE]
  /\ wakeup_pending' = [wakeup_pending EXCEPT ![t] = FALSE]
  /\ levels' = Push(t, 0)
  /\ UNCHANGED <<waiters, cpuVars, hartVars, pc, localVars>>

\* exit_current: its last act, the switch that never comes back
ExitCurrent ==
  /\ InTask("exit")
  /\ want' = [want EXCEPT ![Active] = "Zombie"]
  /\ Goto("sw_mask")
  /\ UNCHANGED <<taskVars, levels, waiters, cpuVars, hartVars,
                 was_enabled, taken, drained, waiting_on, next>>

\* task_entry
TaskEntry ==
  /\ At("entry")
  /\ intr' = TRUE
  /\ Goto("run")
  /\ UNCHANGED <<taskVars, levels, waiters, cpuVars, stack, ctx, trapped, localVars>>

------------------------------------------------------------------------------
(* wake, called for each drained waiter in turn, by a task or by the handler  *)
(* of a device interrupt.                                                     *)

\* mutant of Wakeable: wake does not look at the state
AlwaysWakeable(t) == TRUE

Wakeable(t) == state[t] = "Blocked"

\* wake, the TaskInner section: a task that is not blocked is left a note
WakeState ==
  LET th == Active
      t  == Head(drained[th])
  IN  /\ At("wake")
      /\ drained[th] # <<>>
      /\ \/ /\ ~Wakeable(t)
            /\ wakeup_pending' = [wakeup_pending EXCEPT ![t] = TRUE]
            /\ drained' = [drained EXCEPT ![th] = Tail(@)]
            /\ UNCHANGED <<state, level, ticks, pc>>
         \/ /\ Wakeable(t)
            /\ state' = [state EXCEPT ![t] = "Ready"]
            /\ level' = [level EXCEPT ![t] = IF @ = 0 THEN 0 ELSE @ - 1]
            /\ ticks' = [ticks EXCEPT ![t] = 0]
            /\ Goto("wake_push")
            /\ UNCHANGED <<wakeup_pending, drained>>
      /\ UNCHANGED <<needs_resched, levels, waiters, cpuVars, hartVars,
                     want, was_enabled, taken, waiting_on, next>>

\* wake, the RUN_QUEUE section
WakePush ==
  LET th == Active
      t  == Head(drained[th])
  IN  /\ At("wake_push")
      /\ levels' = Push(t, level[t])
      /\ drained' = [drained EXCEPT ![th] = Tail(@)]
      /\ Goto("wake")
      /\ UNCHANGED <<taskVars, waiters, cpuVars, hartVars,
                     want, was_enabled, taken, waiting_on, next>>

\* the loop over the drained waiters ends
WakeDone ==
  /\ At("wake")
  /\ drained[Active] = <<>>
  /\ Goto(IF trapped[stack] THEN "resched" ELSE "run")
  /\ UNCHANGED <<taskVars, levels, waiters, cpuVars, hartVars, localVars>>

------------------------------------------------------------------------------
(* switch_to_idle                                                             *)

\* mutant of SwMask: interrupts are left as they are
SwUnmasked ==
  /\ At("sw_mask")
  /\ was_enabled' = [was_enabled EXCEPT ![Active] = intr]
  /\ Goto("sw_take")
  /\ UNCHANGED <<taskVars, levels, waiters, cpuVars, hartVars,
                 want, taken, drained, waiting_on, next>>

SwMask ==
  /\ At("sw_mask")
  /\ was_enabled' = [was_enabled EXCEPT ![Active] = intr]
  /\ intr' = FALSE
  /\ Goto("sw_take")
  /\ UNCHANGED <<taskVars, levels, waiters, cpuVars, stack, ctx, trapped,
                 want, taken, drained, waiting_on, next>>

\* `expect`: with no current task the kernel panics, and the model stops
SwTake ==
  /\ At("sw_take")
  /\ current # None
  /\ taken' = [taken EXCEPT ![Active] = current]
  /\ current' = None
  /\ Goto("sw_state")
  /\ UNCHANGED <<taskVars, levels, waiters, previous, hartVars,
                 want, was_enabled, drained, waiting_on, next>>

\* mutant of Owed: the note of wake is not read
NeverOwed(th) == FALSE

\* A wakeup came after the caller queued itself and before it got here.
Owed(th) == want[th] = "Blocked" /\ wakeup_pending[taken[th]]

\* the TaskInner section: a pending wakeup turns blocking into yielding
SwState ==
  LET th == Active
      t  == taken[th]
  IN  /\ At("sw_state")
      /\ state' = [state EXCEPT ![t] = IF Owed(th) THEN "Ready" ELSE want[th]]
      /\ wakeup_pending' = [wakeup_pending EXCEPT ![t] = @ /\ ~Owed(th)]
      /\ Goto("sw_prev")
      /\ UNCHANGED <<level, ticks, needs_resched, levels, waiters, cpuVars,
                     hartVars, localVars>>

SwPrev ==
  /\ At("sw_prev")
  /\ previous' = taken[Active]
  /\ Goto("sw_ctx")
  /\ UNCHANGED <<taskVars, levels, waiters, current, hartVars, localVars>>

\* switch_context(ctx_ptr, cpu.idle)
SwContext ==
  LET th == Active
  IN  /\ At("sw_ctx")
      /\ ctx' = [ctx EXCEPT ![taken[th]] = stack]
      /\ stack' = ctx[Idle]
      /\ taken' = [taken EXCEPT ![th] = None]
      /\ Goto("sw_resumed")
      /\ UNCHANGED <<taskVars, levels, waiters, cpuVars, intr, trapped,
                     want, was_enabled, drained, waiting_on, next>>

\* What follows switch_to_idle(state) in the task: a zombie reaches unreachable!()
AfterSwitch(to) ==
  CASE to = "Ready" -> "run" [] to = "Blocked" -> "unqueue" [] to = "Zombie" -> "unreachable"

\* somebody has switched back to this stack; the locals are dead from here on
SwResumed ==
  LET th == Active
  IN  /\ At("sw_resumed")
      /\ intr' = (intr \/ was_enabled[th])
      /\ Goto(IF trapped[stack] THEN "trap_ret" ELSE AfterSwitch(want[th]))
      /\ want' = [want EXCEPT ![th] = "Ready"]
      /\ was_enabled' = [was_enabled EXCEPT ![th] = FALSE]
      /\ UNCHANGED <<taskVars, levels, waiters, cpuVars, stack, ctx, trapped,
                     taken, drained, waiting_on, next>>

------------------------------------------------------------------------------
(* run, the idle loop                                                         *)

\* Deal with whoever just switched away.  A Running task here reaches
\* unreachable!(), and the model stops.
IdlePrevious ==
  LET t == previous
  IN  /\ At("idle_previous")
      /\ \/ t = None /\ UNCHANGED levels
         \/ t # None /\ state[t] = "Ready" /\ levels' = Push(t, level[t])
         \/ t # None /\ state[t] \in {"Blocked", "Zombie"} /\ UNCHANGED levels
      /\ previous' = None
      /\ Goto("idle_pop")
      /\ UNCHANGED <<taskVars, waiters, current, hartVars, localVars>>

IdlePop ==
  /\ At("idle_pop")
  /\ \E l \in Levels :
       /\ TopLevel(l)
       /\ next' = Head(levels[l])
       /\ levels' = [levels EXCEPT ![l] = Tail(@)]
  /\ Goto("idle_install")
  /\ UNCHANGED <<taskVars, waiters, cpuVars, hartVars,
                 want, was_enabled, taken, drained, waiting_on>>

\* Nothing to run: enable interrupts, and then execute wfi.
IdleEmpty ==
  /\ At("idle_pop")
  /\ \A l \in Levels : levels[l] = <<>>
  /\ intr' = TRUE
  /\ Goto("idle_enabled")
  /\ UNCHANGED <<taskVars, levels, waiters, cpuVars, stack, ctx, trapped, localVars>>

IdleWfi ==
  /\ At("idle_enabled")
  /\ Goto("idle_wfi")
  /\ UNCHANGED <<taskVars, levels, waiters, cpuVars, hartVars, localVars>>

\* wfi is a hint: it may return with no interrupt having arrived.
WfiReturns ==
  /\ At("idle_wfi")
  /\ Goto("idle_mask")
  /\ UNCHANGED <<taskVars, levels, waiters, cpuVars, hartVars, localVars>>

IdleMask ==
  /\ At("idle_mask")
  /\ intr' = FALSE
  /\ Goto("idle_previous")
  /\ UNCHANGED <<taskVars, levels, waiters, cpuVars, stack, ctx, trapped, localVars>>

IdleInstall ==
  /\ At("idle_install")
  /\ state' = [state EXCEPT ![next] = "Running"]
  /\ needs_resched' = [needs_resched EXCEPT ![next] = FALSE]
  /\ Goto("idle_current")
  /\ UNCHANGED <<level, ticks, wakeup_pending, levels, waiters, cpuVars,
                 hartVars, localVars>>

IdleCurrent ==
  /\ At("idle_current")
  /\ current' = next
  /\ Goto("idle_switch")
  /\ UNCHANGED <<taskVars, levels, waiters, previous, hartVars, localVars>>

\* switch_context(cpu.idle, ctx)
IdleSwitch ==
  /\ At("idle_switch")
  /\ ctx' = [ctx EXCEPT ![Idle] = stack]
  /\ stack' = ctx[next]
  /\ next' = None
  /\ Goto("idle_previous")
  /\ UNCHANGED <<taskVars, levels, waiters, cpuVars, intr, trapped,
                 want, was_enabled, taken, drained, waiting_on>>

------------------------------------------------------------------------------
(* Interrupts: kernel_trap_handler, or user_trap_handler when the task was in *)
(* user mode.                                                                 *)

\* Hardware: take an interrupt, clearing SIE.  An interrupt also ends a wfi.
Interrupt(label) ==
  /\ stack # None
  /\ intr
  /\ ~trapped[stack]
  /\ intr' = FALSE
  /\ trapped' = [trapped EXCEPT ![stack] = TRUE]
  /\ pc' = [pc EXCEPT ![<<stack, "trap">>] = label,
                      ![<<stack, "base">>] = IF @ = "idle_wfi" THEN "idle_mask" ELSE @]
  /\ UNCHANGED <<taskVars, levels, waiters, cpuVars, stack, ctx, localVars>>

TimerInterrupt    == Interrupt("tick")
ExternalInterrupt == Interrupt("external")

\* mutant of Demoted: no clamp
DemotedUnclamped(l) == l + 1

Demoted(l) == IF l + 1 \in Levels THEN l + 1 ELSE l

\* on_timer_tick
OnTimerTick ==
  LET t == current
      demote == ticks[t] + 1 >= QUANTA_PER_LEVEL
  IN  /\ At("tick")
      /\ \/ /\ t = None
            /\ UNCHANGED <<level, ticks, needs_resched>>
         \/ /\ t # None
            /\ ticks' = [ticks EXCEPT ![t] = IF demote THEN 0 ELSE @ + 1]
            /\ level' = [level EXCEPT ![t] = IF demote THEN Demoted(@) ELSE @]
            /\ needs_resched' = [needs_resched EXCEPT ![t] = TRUE]
      /\ Goto("resched")
      /\ UNCHANGED <<state, wakeup_pending, levels, waiters, cpuVars, hartVars, localVars>>

\* a device handler wakes everyone on its queue
OnExternal(q) == At("external") /\ Drain(q)

\* resched_if_needed
ReschedIfNeeded ==
  LET due == current # None /\ needs_resched[current]
  IN  /\ At("resched")
      /\ \/ /\ ~due
            /\ Goto("trap_ret")
            /\ UNCHANGED <<needs_resched, want>>
         \/ /\ due
            /\ needs_resched' = [needs_resched EXCEPT ![current] = FALSE]
            /\ want' = [want EXCEPT ![Active] = "Ready"]
            /\ Goto("sw_mask")
      /\ UNCHANGED <<state, level, ticks, wakeup_pending, levels, waiters, cpuVars,
                     hartVars, was_enabled, taken, drained, waiting_on, next>>

\* sret: the interrupt was taken with SIE set, so SPIE sets it again
TrapReturn ==
  /\ At("trap_ret")
  /\ trapped' = [trapped EXCEPT ![stack] = FALSE]
  /\ intr' = TRUE
  /\ UNCHANGED <<taskVars, levels, waiters, cpuVars, stack, ctx, pc, localVars>>

------------------------------------------------------------------------------

\* What every initial state has in common: one task, not yet run, and nobody waiting.
Boot ==
  /\ level = [t \in Tasks |-> 0]
  /\ ticks = [t \in Tasks |-> 0]
  /\ needs_resched = [t \in Tasks |-> FALSE]
  /\ wakeup_pending = [t \in Tasks |-> FALSE]
  /\ waiters = [q \in Queues |-> <<>>]
  /\ previous = None
  /\ trapped = [s \in Stacks |-> FALSE]
  /\ want = [th \in Threads |-> "Ready"]
  /\ was_enabled = [th \in Threads |-> FALSE]
  /\ taken = [th \in Threads |-> None]
  /\ drained = [th \in Threads |-> <<>>]
  /\ waiting_on = [t \in Tasks |-> None]
  /\ next = None

EntryPc == [th \in Threads |-> IF th[2] = "trap" THEN "trap_ret"
                              ELSE IF th[1] = Idle THEN "idle_previous" ELSE "entry"]

\* The first dispatch is over: the idle context is saved, and First begins with
\* interrupts as kmain left them.
Init ==
  /\ Boot
  /\ state = [t \in Tasks |-> IF t = First THEN "Running" ELSE "Unborn"]
  /\ levels = [l \in Levels |-> <<>>]
  /\ current = First
  /\ stack = First
  /\ ctx = [s \in Stacks |-> s]
  /\ intr = TRUE
  /\ pc = EntryPc

\* Steps the kernel takes by itself once it is under way.
KernelStep ==
  \/ WaitUnqueue \/ TaskEntry
  \/ WakeState \/ WakePush \/ WakeDone
  \/ SwMask \/ SwTake \/ SwState \/ SwPrev \/ SwContext \/ SwResumed
  \/ IdlePrevious \/ IdlePop \/ IdleEmpty \/ IdleWfi \/ IdleMask
  \/ IdleInstall \/ IdleCurrent \/ IdleSwitch
  \/ OnTimerTick \/ (\E q \in Queues : OnExternal(q))
  \/ ReschedIfNeeded \/ TrapReturn

\* Steps a task chooses to take.
TaskStep ==
  \/ YieldNow \/ ExitCurrent
  \/ \E q \in Queues : WaitPush(q) \/ WakeOne(q) \/ WakeAll(q)
  \/ \E t \in Tasks : Spawn(t)

Next ==
  \/ KernelStep
  \/ TaskStep
  \/ WfiReturns
  \/ TimerInterrupt
  \/ ExternalInterrupt

Spec == Init /\ [][Next]_vars

\* The timer is re-armed by every tick, so it fires again and again where SIE is
\* set; the code between two calls of a task takes no lock forever.
FairSpec == Spec /\ WF_vars(KernelStep) /\ SF_vars(TimerInterrupt)

------------------------------------------------------------------------------
(* Properties                                                                 *)

TaskStates == {"Unborn", "Ready", "Running", "Blocked", "Zombie"}

KernelLabels ==
  {"entry", "run", "unqueue", "wake", "wake_push", "tick", "external", "resched", "trap_ret",
   "sw_mask", "sw_take", "sw_state", "sw_prev", "sw_ctx", "sw_resumed", "unreachable",
   "idle_previous", "idle_pop", "idle_enabled", "idle_wfi", "idle_mask",
   "idle_install", "idle_current", "idle_switch"}

\* Every variable holds a value of its Rust type.
TypeOK ==
  /\ state \in [Tasks -> TaskStates]
  /\ level \in [Tasks -> Levels]
  /\ ticks \in [Tasks -> 0 .. QUANTA_PER_LEVEL - 1]
  /\ needs_resched \in [Tasks -> BOOLEAN]
  /\ wakeup_pending \in [Tasks -> BOOLEAN]
  /\ ctx \in [Stacks -> Stacks \cup {None}]
  /\ levels \in [Levels -> Seq(Tasks)]
  /\ waiters \in [Queues -> Seq(Tasks)]
  /\ current \in Tasks \cup {None}
  /\ previous \in Tasks \cup {None}
  /\ stack \in Stacks \cup {None}
  /\ intr \in BOOLEAN
  /\ trapped \in [Stacks -> BOOLEAN]
  /\ pc \in [Threads -> KernelLabels]
  /\ want \in [Threads -> {"Ready", "Blocked", "Zombie"}]
  /\ was_enabled \in [Threads -> BOOLEAN]
  /\ taken \in [Threads -> Tasks \cup {None}]
  /\ drained \in [Threads -> Seq(Tasks)]
  /\ waiting_on \in [Tasks -> Queues \cup {None}]
  /\ next \in Tasks \cup {None}

InLevel(t, l) == \E i \in 1 .. Len(levels[l]) : levels[l][i] = t
Queued(t) == \E l \in Levels : InLevel(t, l)

\* t is on its way from the two halves of wake, held by the code that called it.
InTransit(t) == \E th \in Threads :
  pc[th] = "wake_push" /\ drained[th] # <<>> /\ Head(drained[th]) = t

\* A task is only put back on the run queue after it has finished switching off
\* its stack (scheduler.rs, module comment): a queued task is not executing and
\* its saved context resumes its own stack.
SwitchedOffBeforeQueued ==
  \A t \in Tasks : Queued(t) => stack # t /\ current # t /\ ctx[t] = t

\* The run queue holds a task at most once, only while it is Ready, and in the
\* queue of its own priority level: neither two wakers nor a waker and the idle
\* loop ever both enqueue it (wake: "waking a task twice is harmless").
QueuedOnce ==
  /\ \A t \in Tasks, k, l \in Levels :
       \A i \in 1 .. Len(levels[k]), j \in 1 .. Len(levels[l]) :
         levels[k][i] = t /\ levels[l][j] = t => k = l /\ i = j
  /\ \A l \in Levels : \A i \in 1 .. Len(levels[l]) :
       state[levels[l][i]] = "Ready" /\ level[levels[l][i]] = l

\* A runnable task is never mislaid: whoever made it Ready has queued it, or
\* still holds it on the way to the queue or to the CPU.
RunnableNotLost ==
  \A t \in Tasks : state[t] = "Ready" =>
    Queued(t) \/ previous = t \/ next = t \/ InTransit(t) \/ stack = t

\* A Blocked task is held by a wait queue or by somebody about to wake it (the
\* idle loop drops its own reference on the strength of this).
BlockedIsHeld ==
  \A t \in Tasks : state[t] = "Blocked" =>
    \/ \E q \in Queues : Contains(waiters[q], t)
    \/ \E th \in Threads : Contains(drained[th], t)

\* Wakeups and waits are paired: an entry of a wait queue, a waiter about to be
\* woken and a note left by wake all belong to a task still inside wait(), so no
\* wake_one is spent on a task that has stopped waiting (the worry of wait()),
\* and no note survives to make a later wait() return early.
NoStaleWakeup ==
  /\ \A q \in Queues : \A i \in 1 .. Len(waiters[q]) : waiting_on[waiters[q][i]] = q
  /\ \A t \in Tasks : waiting_on[t] = None =>
       /\ ~wakeup_pending[t]
       /\ \A th \in Threads : pc[th] = "wake" => ~Contains(drained[th], t)

\* current_task() names the task whose stack is executing wherever kernel code
\* may ask for it, a handler that interrupted the idle loop finds no task to
\* charge or to switch away from, and a zombie is never scheduled again.
CurrentIsCaller ==
  /\ stack \in Tasks =>
       /\ pc[Active] \notin {"sw_state", "sw_prev", "sw_ctx"} => current = stack
       /\ pc[Active] # "unreachable"
  /\ stack = Idle /\ current # None => At("idle_switch")

\* Interrupts stay masked from the start of a switch until the idle loop is done
\* with it, so that none runs on a half-saved stack (switch_to_idle).
MaskedWhileSwitching ==
  /\ At("sw_take") \/ At("sw_state") \/ At("sw_prev") \/ At("sw_ctx") => ~intr
  /\ \A s \in Stacks : trapped[s] =>
       pc[<<s, "base">>] \notin {"sw_take", "sw_state", "sw_prev", "sw_ctx",
                                 "idle_previous", "idle_pop", "idle_install",
                                 "idle_current", "idle_switch"}

\* Parking a task and waking it commute, whatever interrupts and switches come
\* between: the scheduler implements Parking.
P == INSTANCE Parking WITH
  parked  <- {t \in Tasks : state[t] = "Blocked"},
  pending <- {t \in Tasks : wakeup_pending[t]}

ImplementsParking == P!ParkingSpec

\* Feedback does not starve anyone while nobody blocks: a runnable task runs.
ReadyRuns == \A t \in Tasks : state[t] = "Ready" ~> state[t] = "Running"

=============================================================================
