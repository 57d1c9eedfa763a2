---------------------------- MODULE SchedulerInv ----------------------------
(***************************************************************************)
(* Proofs about Scheduler, for any set of tasks, any wait queues, any      *)
(* number of priority levels and any quantum.                              *)
(*                                                                         *)
(* Control says where the code on each stack can be, Cpus how the per-hart *)
(* record and the locals of a switch agree with it, and Places that every  *)
(* task that can run has exactly one place.  Together with TypeOK they are *)
(* inductive, and the safety properties follow from them.                  *)
(*                                                                         *)
(* This module defines the invariant and shows that every step keeps       *)
(* TypeOK, Control, Cpus and States; SchedulerProofs does Places and draws *)
(* the conclusions.                                                        *)
(***************************************************************************)
EXTENDS Scheduler, SequenceTheorems, TLAPS

\* Labels where an interrupt may land, on a task's stack and in the idle loop.
OpenTask == {"entry", "run", "unqueue", "wake", "wake_push", "sw_mask"}
OpenIdle == {"idle_enabled", "idle_wfi", "idle_mask"}

Switching == {"sw_take", "sw_state", "sw_prev", "sw_ctx"}
TaskBase  == OpenTask \cup Switching \cup {"sw_resumed"}
IdleBase  == OpenIdle \cup {"idle_previous", "idle_pop", "idle_install",
                            "idle_current", "idle_switch"}
IdleTrap  == {"tick", "external", "wake", "wake_push", "resched", "trap_ret"}
TaskTrap  == IdleTrap \cup Switching \cup {"sw_mask", "sw_resumed"}

Base(s) == <<s, "base">>
Trap(s) == <<s, "trap">>

Control ==
  /\ stack \in Stacks
  /\ \A s \in Stacks : ctx[s] = s
  /\ \A s \in Stacks : ~trapped[s] => pc[Trap(s)] = "trap_ret"
  /\ \A t \in Tasks :
       /\ pc[Base(t)] \in TaskBase
       /\ trapped[t] => pc[Base(t)] \in OpenTask /\ pc[Trap(t)] \in TaskTrap
       /\ stack # t /\ trapped[t] => pc[Trap(t)] = "sw_resumed"
       /\ stack # t /\ ~trapped[t] => pc[Base(t)] \in {"entry", "sw_resumed"}
  /\ pc[Base(Idle)] \in IdleBase
  /\ trapped[Idle] => pc[Base(Idle)] \in OpenIdle /\ pc[Trap(Idle)] \in IdleTrap
  /\ stack # Idle => ~trapped[Idle] /\ pc[Base(Idle)] = "idle_previous"
  /\ intr => ~trapped[stack] /\ pc[Base(stack)] \in OpenTask \cup OpenIdle

Cpus ==
  /\ stack \in Tasks =>
       IF pc[Active] \in {"sw_state", "sw_prev", "sw_ctx"}
       THEN current = None /\ taken[Active] = stack
       ELSE current = stack
  /\ stack = Idle => current = IF pc[Base(Idle)] = "idle_switch" THEN next ELSE None
  /\ previous # None =>
       \/ stack = previous /\ pc[Active] = "sw_ctx"
       \/ stack = Idle /\ pc[Base(Idle)] = "idle_previous"
  /\ next # None <=>
       stack = Idle /\ pc[Base(Idle)] \in {"idle_install", "idle_current", "idle_switch"}
  /\ stack \in Tasks /\ pc[Active] = "sw_ctx" => previous = stack
  /\ \A s \in Stacks : ~was_enabled[Trap(s)]

States ==
  /\ stack \in Tasks =>
       IF pc[Active] \in {"sw_prev", "sw_ctx"}
       THEN state[stack] \in {"Ready", "Blocked", "Zombie"}
       ELSE state[stack] = "Running"
  /\ stack \in Tasks /\ ~trapped[stack] /\ pc[Active] \in {"sw_prev", "sw_ctx"} =>
       (want[Active] = "Zombie" => state[stack] = "Zombie")
  /\ previous # None => state[previous] \in {"Ready", "Blocked", "Zombie"}
  /\ next # None => state[next] =
       IF pc[Base(Idle)] = "idle_install" THEN "Ready" ELSE "Running"
  /\ \A t \in Tasks : pc[Base(t)] = "sw_resumed" /\ want[Base(t)] = "Zombie" =>
       state[t] = "Zombie"

\* Thread th has made t Ready and is about to queue it.
Carries(th, t) == pc[th] = "wake_push" /\ Head(drained[th]) = t

OnCpu(t) == stack = t \/ previous = t \/ next = t

Places ==
  /\ \A th \in Threads : pc[th] = "wake_push" => drained[th] # <<>>
  /\ \A t \in Tasks, l \in Levels : InLevel(t, l) =>
       /\ state[t] = "Ready"
       /\ level[t] = l
       /\ ~OnCpu(t)
       /\ \A th \in Threads : ~Carries(th, t)
  /\ \A l \in Levels : \A i, j \in 1 .. Len(levels[l]) : levels[l][i] = levels[l][j] => i = j
  /\ \A th \in Threads, t \in Tasks : Carries(th, t) =>
       /\ state[t] = "Ready"
       /\ ~OnCpu(t)
       /\ \A ph \in Threads : Carries(ph, t) => ph = th
  /\ \A t \in Tasks : state[t] = "Ready" =>
       Queued(t) \/ OnCpu(t) \/ \E th \in Threads : Carries(th, t)

IInv == TypeOK /\ Control /\ Cpus /\ States /\ Places

------------------------------------------------------------------------------
(* Facts about constants and sequences.                                       *)

\* What the assumption on the constants says, ready for use.
LEMMA Constants ==
  /\ Idle \notin Tasks /\ None \notin Stacks /\ None \notin Queues /\ First \in Tasks
  /\ PRIORITY_LEVELS \in Nat /\ PRIORITY_LEVELS > 0
  /\ QUANTA_PER_LEVEL \in Nat /\ QUANTA_PER_LEVEL > 0
BY SchedulerAssumption DEF AllOps

\* Popping, reading and pushing keep a queue of tasks a queue of tasks.
LEMMA Seqs ==
  ASSUME NEW S, NEW s \in Seq(S)
  PROVE  /\ s # <<>> => Head(s) \in S /\ Tail(s) \in Seq(S) /\ Len(s) > 0
         /\ \A e \in S : Append(s, e) \in Seq(S)
BY HeadTailProperties, AppendProperties

\* Removing one entry does too.
LEMMA RemoveAtSeq ==
  ASSUME NEW S, NEW s \in Seq(S), NEW i \in 1 .. Len(s)
  PROVE  RemoveAt(s, i) \in Seq(S)
<1>1. SubSeq(s, 1, i - 1) \in Seq(S)
  BY SubSeqProperties
<1>2. SubSeq(s, i + 1, Len(s)) \in Seq(S)
  BY SubSeqProperties
<1> QED BY <1>1, <1>2, ConcatProperties DEF RemoveAt

\* Queueing a task keeps the run queue a run queue.
LEMMA PushType ==
  ASSUME levels \in [Levels -> Seq(Tasks)], NEW t \in Tasks, NEW l
  PROVE  Push(t, l) \in [Levels -> Seq(Tasks)]
BY Seqs, Zenon DEF Push

\* No step leaves the types.
LEMMA TypeStep == IInv /\ [Next]_vars => TypeOK'
<1> SUFFICES ASSUME TypeOK, Control, Cpus, States, Places, [Next]_vars PROVE TypeOK'
  BY DEF IInv
<1> USE Constants DEF Threads, Stacks, Levels
<1>1. CASE WaitUnqueue
  <2>1. waiters' \in [Queues -> Seq(Tasks)]
    <3>1. CASE UNCHANGED waiters
      BY <3>1 DEF TypeOK
    <3>2. CASE \E pos \in 1 .. Len(waiters[waiting_on[stack]]) :
                 waiters' = [waiters EXCEPT ![waiting_on[stack]] = RemoveAt(@, pos)]
      <4>1. PICK pos \in 1 .. Len(waiters[waiting_on[stack]]) :
              waiters' = [waiters EXCEPT ![waiting_on[stack]] = RemoveAt(@, pos)]
        BY <3>2, Zenon
      <4>2. CASE waiting_on[stack] \in Queues
        <5>1. RemoveAt(waiters[waiting_on[stack]], pos) \in Seq(Tasks)
          BY <4>2, RemoveAtSeq DEF TypeOK
        <5> QED BY <5>1, <4>1, Zenon DEF TypeOK
      <4>3. CASE waiting_on[stack] \notin Queues
        BY <4>3, <4>1, Zenon DEF TypeOK
      <4> QED BY <4>2, <4>3
    <3> QED BY <1>1, <3>1, <3>2 DEF WaitUnqueue
  <2>2. waiting_on' \in [Tasks -> Queues \cup {None}]
    BY <1>1, Zenon DEF WaitUnqueue, TypeOK
  <2> QED BY <1>1, <2>1, <2>2, Zenon DEF WaitUnqueue, TypeOK, taskVars, cpuVars, hartVars, At,
             Goto, Active, KernelLabels
<1>2. CASE TaskEntry
  BY <1>2, Zenon DEF TaskEntry, TypeOK, taskVars, cpuVars, localVars, At, Goto, Active,
     KernelLabels
<1>3. CASE WakeState
  <2>1. Active \in Threads /\ drained[Active] \in Seq(Tasks) /\ drained[Active] # <<>>
    BY <1>3 DEF WakeState, At, Active, Control, TypeOK
  <2>2. Tail(drained[Active]) \in Seq(Tasks)
    BY <2>1, Seqs
  <2>3. PICK t \in Tasks : t = Head(drained[Active])
    BY <2>1, Seqs
  <2>4. drained' \in [Threads -> Seq(Tasks)]
    BY <1>3, <2>1, <2>2, Zenon DEF WakeState, TypeOK
  <2>5. level' \in [Tasks -> Levels]
    <3>1. level \in [Tasks -> Levels] /\ level[t] \in 0 .. PRIORITY_LEVELS - 1
      BY DEF TypeOK
    <3>2. \/ UNCHANGED level
          \/ level' = [level EXCEPT ![t] = IF level[t] = 0 THEN 0 ELSE level[t] - 1]
      BY <1>3, <2>3 DEF WakeState
    <3> QED BY <3>1, <3>2
  <2>6. /\ UNCHANGED ticks \/ ticks' = [ticks EXCEPT ![t] = 0]
        /\ ticks \in [Tasks -> 0 .. QUANTA_PER_LEVEL - 1]
    BY <1>3, <2>3, Zenon DEF WakeState, TypeOK
  <2>7. ticks' \in [Tasks -> 0 .. QUANTA_PER_LEVEL - 1]
    BY <2>6
  <2>8. /\ state' \in [Tasks -> TaskStates]
        /\ wakeup_pending' \in [Tasks -> BOOLEAN]
        /\ pc' \in [Threads -> KernelLabels]
    <3>1. state' \in [Tasks -> TaskStates]
      BY <1>3, <2>3, Zenon DEF WakeState, TypeOK, TaskStates
    <3>2. wakeup_pending' \in [Tasks -> BOOLEAN]
      BY <1>3, <2>3, Zenon DEF WakeState, TypeOK
    <3>3. pc' \in [Threads -> KernelLabels]
      BY <1>3, Zenon DEF WakeState, TypeOK, Goto, KernelLabels
    <3> QED BY <3>1, <3>2, <3>3
  <2> QED BY <1>3, <2>4, <2>5, <2>7, <2>8, Zenon DEF WakeState, TypeOK, cpuVars, hartVars
<1>4. CASE WakePush
  <2>1. Active \in Threads /\ drained[Active] \in Seq(Tasks)
    BY <1>4 DEF WakePush, At, Active, Control, TypeOK
  <2>2. Head(drained[Active]) \in Tasks /\ Tail(drained[Active]) \in Seq(Tasks)
    BY <2>1, Seqs, <1>4 DEF WakePush, At, Places
  <2>3. drained' \in [Threads -> Seq(Tasks)]
    BY <1>4, <2>1, <2>2, Zenon DEF WakePush, TypeOK
  <2>4. levels' \in [Levels -> Seq(Tasks)]
    BY <1>4, <2>2, Seqs, Zenon DEF WakePush, Push, TypeOK
  <2> QED BY <1>4, <2>3, <2>4, Zenon DEF WakePush, TypeOK, taskVars, cpuVars, hartVars, At,
             Goto, Active, Push, KernelLabels
<1>5. CASE WakeDone
  BY <1>5, Zenon DEF WakeDone, TypeOK, taskVars, cpuVars, hartVars, localVars, At, Goto, Active,
     KernelLabels
<1>6. CASE SwMask
  BY <1>6, Zenon DEF SwMask, TypeOK, taskVars, cpuVars, At, Goto, Active, KernelLabels
<1>7. CASE SwTake
  BY <1>7, Zenon DEF SwTake, TypeOK, taskVars, hartVars, At, Goto, Active, KernelLabels
<1>8. CASE SwState
  BY <1>8, Zenon DEF SwState, Owed, TypeOK, cpuVars, hartVars, localVars, At, Goto, Active,
     KernelLabels, TaskStates
<1>9. CASE SwPrev
  BY <1>9, Zenon DEF SwPrev, TypeOK, taskVars, hartVars, localVars, At, Goto, Active, KernelLabels
<1>10. CASE SwContext
  BY <1>10, Zenon DEF SwContext, TypeOK, taskVars, cpuVars, At, Goto, Active, KernelLabels
<1>11. CASE SwResumed
  <2>1. Active \in Threads
    BY DEF Active, Control
  <2>2. AfterSwitch(want[Active]) \in KernelLabels
    BY <2>1 DEF AfterSwitch, TypeOK, KernelLabels
  <2>3. pc' \in [Threads -> KernelLabels]
    BY <1>11, <2>2, Zenon DEF SwResumed, Goto, TypeOK, KernelLabels
  <2> QED BY <1>11, <2>3, Zenon DEF SwResumed, TypeOK, taskVars, cpuVars, At, Goto, Active,
             KernelLabels
<1>12. CASE IdlePrevious
  <2>1. \/ UNCHANGED levels
        \/ /\ previous \in Tasks
           /\ levels' = Push(previous, level[previous])
    BY <1>12 DEF IdlePrevious, TypeOK
  <2>2. levels \in [Levels -> Seq(Tasks)]
    BY DEF TypeOK
  <2>3. levels' \in [Levels -> Seq(Tasks)]
    BY <2>1, <2>2, PushType
  <2> QED BY <1>12, <2>3, Zenon DEF IdlePrevious, TypeOK, taskVars, hartVars, localVars, At,
             Goto, Active, Push, KernelLabels
<1>13. CASE IdlePop
  <2>1. PICK l \in Levels : TopLevel(l) /\ next' = Head(levels[l])
                           /\ levels' = [levels EXCEPT ![l] = Tail(@)]
    BY <1>13, Zenon DEF IdlePop
  <2>2. Head(levels[l]) \in Tasks /\ Tail(levels[l]) \in Seq(Tasks)
    BY <2>1, Seqs DEF TopLevel, TypeOK
  <2> QED BY <1>13, <2>1, <2>2, Zenon DEF IdlePop, TypeOK, taskVars, cpuVars, hartVars, At,
             Goto, Active, KernelLabels
<1>14. CASE IdleEmpty
  BY <1>14, Zenon DEF IdleEmpty, TypeOK, taskVars, cpuVars, localVars, At, Goto, Active,
     KernelLabels
<1>15. CASE IdleWfi
  BY <1>15, Zenon DEF IdleWfi, TypeOK, taskVars, cpuVars, hartVars, localVars, At, Goto, Active,
     KernelLabels
<1>16. CASE IdleMask
  BY <1>16, Zenon DEF IdleMask, TypeOK, taskVars, cpuVars, localVars, At, Goto, Active,
     KernelLabels
<1>17. CASE IdleInstall
  BY <1>17, Zenon DEF IdleInstall, TypeOK, cpuVars, hartVars, localVars, At, Goto, Active,
     KernelLabels, TaskStates
<1>18. CASE IdleCurrent
  BY <1>18, Zenon DEF IdleCurrent, TypeOK, taskVars, hartVars, localVars, At, Goto, Active,
     KernelLabels
<1>19. CASE IdleSwitch
  <2>1. stack = Idle /\ next \in Tasks
    BY <1>19, Zenon DEF IdleSwitch, At, Active, Control, Cpus, Base, Trap, TypeOK, OpenTask,
       OpenIdle,
      Switching, TaskBase, IdleTrap, TaskTrap
  <2> QED BY <1>19, <2>1, Zenon DEF IdleSwitch, TypeOK, taskVars, cpuVars, At, Goto, Active,
             KernelLabels
<1>20. CASE OnTimerTick
  <2>1. CASE current = None
    BY <1>20, <2>1, SMTT(30) DEF OnTimerTick, TypeOK, cpuVars, hartVars, localVars, At, Goto, Active,
       KernelLabels
  <2>2. CASE current \in Tasks
    <3>1. /\ level \in [Tasks -> Levels]
          /\ level[current] \in 0 .. PRIORITY_LEVELS - 1
          /\ ticks \in [Tasks -> 0 .. QUANTA_PER_LEVEL - 1]
          /\ ticks[current] \in 0 .. QUANTA_PER_LEVEL - 1
      BY <2>2 DEF TypeOK
    <3>2. ticks' = [ticks EXCEPT ![current] =
                     IF ticks[current] + 1 >= QUANTA_PER_LEVEL THEN 0 ELSE ticks[current] + 1]
      BY <1>20, <2>2 DEF OnTimerTick
    <3>3. ticks' \in [Tasks -> 0 .. QUANTA_PER_LEVEL - 1]
      <4>1. QUANTA_PER_LEVEL \in Nat /\ ticks[current] \in Nat
        BY <3>1
      <4>2. CASE ticks[current] + 1 >= QUANTA_PER_LEVEL
        <5>1. 0 \in 0 .. QUANTA_PER_LEVEL - 1
          BY <4>1
        <5>2. ticks' = [ticks EXCEPT ![current] = 0]
          BY <3>2, <4>2, Zenon
        <5> QED BY <3>1, <5>1, <5>2, Zenon
      <4>3. CASE ~(ticks[current] + 1 >= QUANTA_PER_LEVEL)
        <5>1. ticks[current] + 1 \in 0 .. QUANTA_PER_LEVEL - 1
          BY <4>1, <4>3
        <5>2. ticks' = [ticks EXCEPT ![current] = ticks[current] + 1]
          BY <3>2, <4>3, Zenon
        <5> QED BY <3>1, <5>1, <5>2, Zenon
      <4> QED BY <4>2, <4>3
    <3>4. \/ level' = [level EXCEPT ![current] = Demoted(level[current])]
          \/ level' = [level EXCEPT ![current] = level[current]]
      BY <1>20, <2>2 DEF OnTimerTick
    <3>5. level' \in [Tasks -> Levels]
      <4>1. Demoted(level[current]) \in Levels
        BY <3>1 DEF Demoted
      <4> QED BY <3>1, <3>4, <4>1
    <3> QED BY <1>20, <2>2, <3>3, <3>5, Zenon DEF OnTimerTick, TypeOK, cpuVars, hartVars,
               localVars, At, Goto, Active, KernelLabels
  <2> QED BY <2>1, <2>2, Zenon DEF TypeOK
<1>21. CASE ReschedIfNeeded
  BY <1>21, ZenonT(40) DEF ReschedIfNeeded, TypeOK, cpuVars, hartVars, At, Goto, Active, KernelLabels
<1>22. CASE TrapReturn
  BY <1>22, Zenon DEF TrapReturn, TypeOK, taskVars, cpuVars, localVars, At, Active
<1>23. CASE YieldNow
  BY <1>23, Zenon DEF YieldNow, TypeOK, taskVars, cpuVars, hartVars, At, Goto, Active, InTask,
     KernelLabels
<1>24. CASE ExitCurrent
  BY <1>24, Zenon DEF ExitCurrent, TypeOK, taskVars, cpuVars, hartVars, At, Goto, Active,
     InTask, KernelLabels
<1>25. CASE WfiReturns
  BY <1>25, Zenon DEF WfiReturns, TypeOK, taskVars, cpuVars, hartVars, localVars, At, Goto,
     Active, KernelLabels
<1>26. CASE TimerInterrupt
  BY <1>26, Zenon DEF TimerInterrupt, Interrupt, TypeOK, taskVars, cpuVars, localVars,
     KernelLabels
<1>27. CASE ExternalInterrupt
  BY <1>27, Zenon DEF ExternalInterrupt, Interrupt, TypeOK, taskVars, cpuVars, localVars,
     KernelLabels
<1>28. ASSUME NEW q \in Queues, WaitPush(q) PROVE TypeOK'
  <2>1. waiters' \in [Queues -> Seq(Tasks)]
    BY <1>28, Seqs DEF WaitPush, InTask, TypeOK
  <2> QED BY <1>28, <2>1, Zenon DEF WaitPush, TypeOK, taskVars, cpuVars, hartVars, At, Goto,
             Active, InTask, KernelLabels
<1>29. ASSUME NEW q \in Queues, WakeOne(q) PROVE TypeOK'
  <2>1. Head(waiters[q]) \in Tasks /\ Tail(waiters[q]) \in Seq(Tasks)
    BY <1>29, Seqs, Zenon DEF WakeOne, TypeOK
  <2>2. <<Head(waiters[q])>> \in Seq(Tasks)
    BY <2>1
  <2> QED BY <1>29, <2>1, <2>2, Zenon DEF WakeOne, TypeOK, taskVars, cpuVars, hartVars, At,
             Goto, Active, InTask, KernelLabels
<1>30. ASSUME NEW q \in Queues, Drain(q) PROVE TypeOK'
  <2>1. Active \in Threads /\ waiters[q] \in Seq(Tasks) /\ <<>> \in Seq(Tasks)
    BY DEF Active, Control, TypeOK
  <2>2. /\ drained' \in [Threads -> Seq(Tasks)]
        /\ waiters' \in [Queues -> Seq(Tasks)]
    BY <1>30, <2>1, Zenon DEF Drain, TypeOK
  <2> QED BY <1>30, <2>2, Zenon DEF Drain, TypeOK, taskVars, cpuVars, hartVars, Goto, Active,
             KernelLabels
<1>31. ASSUME NEW t \in Tasks, Spawn(t) PROVE TypeOK'
  <2>1. levels' \in [Levels -> Seq(Tasks)]
    BY <1>31, Seqs DEF Spawn, Push, TypeOK
  <2>2. 0 \in Levels /\ 0 \in 0 .. QUANTA_PER_LEVEL - 1
    BY DEF Levels
  <2>3. level' \in [Tasks -> Levels] /\ ticks' \in [Tasks -> 0 .. QUANTA_PER_LEVEL - 1]
    BY <1>31, <2>2 DEF Spawn, TypeOK
  <2> QED BY <1>31, <2>1, <2>3, Zenon DEF Spawn, TypeOK, cpuVars, hartVars, localVars, At,
             Active, InTask, Push, TaskStates
<1>32. CASE UNCHANGED vars
  BY <1>32, Zenon DEF vars, TypeOK, taskVars, cpuVars, hartVars, localVars
<1> QED
  BY <1>1, <1>2, <1>3, <1>4, <1>5, <1>6, <1>7, <1>8, <1>9, <1>10, <1>11, <1>12, <1>13, <1>14,
     <1>15, <1>16, <1>17, <1>18, <1>19, <1>20, <1>21, <1>22, <1>23, <1>24, <1>25, <1>26, <1>27,
     <1>28, <1>29, <1>30, <1>31, <1>32 DEF Next, KernelStep, TaskStep, WakeAll, OnExternal

\* The thread that is running moves to a label of its own kind.
LEMMA Move ==
  ASSUME TypeOK, Control, NEW label, Goto(label),
         UNCHANGED <<stack, ctx, trapped>>,
         stack \in Tasks /\ ~trapped[stack] => label \in TaskBase,
         stack \in Tasks /\ trapped[stack] => label \in TaskTrap,
         stack = Idle /\ ~trapped[stack] => label \in IdleBase,
         stack = Idle /\ trapped[stack] => label \in IdleTrap,
         intr' => ~trapped[stack] /\ label \in OpenTask \cup OpenIdle
  PROVE  Control'
<1> USE Constants DEF Stacks, Threads, Base, Trap
<1>1. /\ pc \in [Threads -> KernelLabels]
      /\ trapped \in [Stacks -> BOOLEAN]
      /\ stack \in Stacks
  BY DEF TypeOK, Control
<1>2. CASE trapped[stack]
  <2>1. pc' = [pc EXCEPT ![Trap(stack)] = label]
    BY <1>2 DEF Goto, Active
  <2>2. /\ pc'[Trap(stack)] = label
        /\ \A s \in Stacks : pc'[Base(s)] = pc[Base(s)]
        /\ \A s \in Stacks : s # stack => pc'[Trap(s)] = pc[Trap(s)]
    BY <1>1, <2>1
  <2> QED BY <1>1, <1>2, <2>2 DEF Control
<1>3. CASE ~trapped[stack]
  <2>1. pc' = [pc EXCEPT ![Base(stack)] = label]
    BY <1>3 DEF Goto, Active
  <2>2. /\ pc'[Base(stack)] = label
        /\ \A s \in Stacks : pc'[Trap(s)] = pc[Trap(s)]
        /\ \A s \in Stacks : s # stack => pc'[Base(s)] = pc[Base(s)]
    BY <1>1, <2>1
  <2> QED BY <1>1, <1>3, <2>2 DEF Control
<1> QED BY <1>2, <1>3

\* No step leaves the control structure.
LEMMA ControlStep == IInv /\ [Next]_vars => Control'
<1> SUFFICES ASSUME TypeOK, Control, Cpus, States, Places, [Next]_vars PROVE Control'
  BY DEF IInv
<1> USE Constants DEF Stacks, Threads, OpenTask, OpenIdle, Switching, TaskBase, IdleBase,
       IdleTrap, TaskTrap, Base, Trap
<1>1. CASE WaitUnqueue
  BY <1>1, Zenon DEF WaitUnqueue, Control, TypeOK, Cpus, At, Goto, Active, InTask, taskVars,
     cpuVars, hartVars, localVars
<1>2. CASE TaskEntry
  BY <1>2, Zenon DEF TaskEntry, Control, TypeOK, Cpus, At, Goto, Active, InTask, taskVars,
     cpuVars, hartVars, localVars
<1>3. CASE WakeState
  <2>1. /\ At("wake")
        /\ UNCHANGED pc \/ Goto("wake_push")
        /\ UNCHANGED <<stack, ctx, intr, trapped>>
    BY <1>3 DEF WakeState, hartVars
  <2>2. CASE UNCHANGED pc
    BY <2>1, <2>2 DEF Control
  <2>3. CASE Goto("wake_push")
    BY <2>1, <2>3, Move DEF Control, At, Active
  <2> QED BY <2>1, <2>2, <2>3
<1>4. CASE WakePush
  BY <1>4, Zenon DEF WakePush, Control, TypeOK, Cpus, At, Goto, Active, InTask, taskVars,
     cpuVars, hartVars, localVars
<1>5. CASE WakeDone
  BY <1>5, Zenon DEF WakeDone, Control, TypeOK, Cpus, At, Goto, Active, InTask, taskVars,
     cpuVars, hartVars, localVars
<1>6. CASE SwMask
  <2>1. /\ At("sw_mask")
        /\ Goto("sw_take")
        /\ intr' = FALSE
        /\ UNCHANGED <<stack, ctx, trapped>>
    BY <1>6 DEF SwMask
  <2> QED BY <2>1, Move DEF Control, At, Active
<1>7. CASE SwTake
  BY <1>7, Zenon DEF SwTake, Control, TypeOK, Cpus, At, Goto, Active, InTask, taskVars, cpuVars,
     hartVars, localVars
<1>8. CASE SwState
  BY <1>8, Zenon DEF SwState, Owed, Control, TypeOK, Cpus, At, Goto, Active, InTask, taskVars,
     cpuVars, hartVars, localVars
<1>9. CASE SwPrev
  BY <1>9, Zenon DEF SwPrev, Control, TypeOK, Cpus, At, Goto, Active, InTask, taskVars, cpuVars,
     hartVars, localVars
<1>10. CASE SwContext
  <2>1. /\ stack \in Tasks
        /\ taken[Active] = stack
        /\ pc[Active] = "sw_ctx"
        /\ Active \in Threads
        /\ ~intr
    BY <1>10 DEF SwContext, At, Active, Control, Cpus
  <2>2. /\ stack' = Idle
        /\ \A s \in Stacks : ctx'[s] = s
        /\ Goto("sw_resumed")
        /\ UNCHANGED <<intr, trapped>>
    BY <1>10, <2>1, SMTT(30) DEF SwContext, Control, TypeOK
  <2>3. /\ pc \in [Threads -> KernelLabels]
        /\ trapped \in [Stacks -> BOOLEAN]
    BY DEF TypeOK
  <2>4. CASE trapped[stack]
    <3>1. /\ pc'[Trap(stack)] = "sw_resumed"
          /\ \A s \in Stacks : pc'[Base(s)] = pc[Base(s)]
          /\ \A s \in Stacks : s # stack => pc'[Trap(s)] = pc[Trap(s)]
      BY <2>1, <2>2, <2>3, <2>4 DEF Goto, Active
    <3> QED BY <2>1, <2>2, <2>3, <2>4, <3>1 DEF Control
  <2>5. CASE ~trapped[stack]
    <3>1. /\ pc'[Base(stack)] = "sw_resumed"
          /\ \A s \in Stacks : pc'[Trap(s)] = pc[Trap(s)]
          /\ \A s \in Stacks : s # stack => pc'[Base(s)] = pc[Base(s)]
      BY <2>1, <2>2, <2>3, <2>5 DEF Goto, Active
    <3> QED BY <2>1, <2>2, <2>3, <2>5, <3>1 DEF Control
  <2> QED BY <2>4, <2>5
<1>11. CASE SwResumed
  <2>1. /\ stack \in Tasks
        /\ pc[Active] = "sw_resumed"
        /\ ~trapped[stack] => want[Base(stack)] \in {"Ready", "Blocked"}
    BY <1>11, Zenon DEF SwResumed, At, Active, Control, States, TypeOK
  <2>2. UNCHANGED <<stack, ctx, trapped>>
    BY <1>11 DEF SwResumed
  <2>3. CASE trapped[stack]
    <3>1. Goto("trap_ret")
      BY <1>11, <2>3 DEF SwResumed
    <3>2. ~intr'
      BY <1>11, <2>1, <2>3, Zenon DEF SwResumed, Control, Cpus, Active
    <3> QED BY <2>1, <2>2, <2>3, <3>1, <3>2, Move, Zenon
  <2>4. CASE ~trapped[stack]
    <3>1. Goto("run") \/ Goto("unqueue")
      BY <1>11, <2>1, <2>4 DEF SwResumed, AfterSwitch, Active
    <3> QED BY <2>1, <2>2, <2>4, <3>1, Move
  <2> QED BY <2>3, <2>4
<1>12. CASE IdlePrevious
  BY <1>12, Zenon DEF IdlePrevious, Control, TypeOK, Cpus, At, Goto, Active, InTask, taskVars,
     cpuVars, hartVars, localVars
<1>13. CASE IdlePop
  BY <1>13, Zenon DEF IdlePop, Control, TypeOK, Cpus, At, Goto, Active, InTask, taskVars,
     cpuVars, hartVars, localVars
<1>14. CASE IdleEmpty
  BY <1>14, Zenon DEF IdleEmpty, Control, TypeOK, Cpus, At, Goto, Active, InTask, taskVars,
     cpuVars, hartVars, localVars
<1>15. CASE IdleWfi
  BY <1>15, Zenon DEF IdleWfi, Control, TypeOK, Cpus, At, Goto, Active, InTask, taskVars,
     cpuVars, hartVars, localVars
<1>16. CASE IdleMask
  BY <1>16, ZenonT(40) DEF IdleMask, Control, TypeOK, Cpus, At, Goto, Active, InTask, taskVars,
     cpuVars, hartVars, localVars
<1>17. CASE IdleInstall
  BY <1>17, Zenon DEF IdleInstall, Control, TypeOK, Cpus, At, Goto, Active, InTask, taskVars,
     cpuVars, hartVars, localVars
<1>18. CASE IdleCurrent
  BY <1>18, Zenon DEF IdleCurrent, Control, TypeOK, Cpus, At, Goto, Active, InTask, taskVars,
     cpuVars, hartVars, localVars
<1>19. CASE IdleSwitch
  BY <1>19, Zenon DEF IdleSwitch, Control, TypeOK, Cpus, At, Goto, Active, InTask, taskVars,
     cpuVars, hartVars, localVars
<1>20. CASE OnTimerTick
  BY <1>20, Zenon DEF OnTimerTick, Control, TypeOK, Cpus, At, Goto, Active, InTask, taskVars,
     cpuVars, hartVars, localVars
<1>21. CASE ReschedIfNeeded
  <2>1. /\ At("resched")
        /\ stack = Idle => current = None
        /\ UNCHANGED <<stack, ctx, intr, trapped>>
    BY <1>21 DEF ReschedIfNeeded, hartVars, At, Active, Control, Cpus
  <2>2. CASE Goto("trap_ret")
    BY <2>1, <2>2, Move, Zenon DEF Control, At, Active
  <2>3. CASE current # None /\ Goto("sw_mask")
    BY <2>1, <2>3, Move DEF Control, At, Active
  <2> QED BY <1>21, <2>2, <2>3 DEF ReschedIfNeeded
<1>22. CASE TrapReturn
  BY <1>22, ZenonT(40) DEF TrapReturn, Control, TypeOK, Cpus, At, Goto, Active, InTask, taskVars,
     cpuVars, hartVars, localVars
<1>23. CASE YieldNow
  BY <1>23, Zenon DEF YieldNow, Control, TypeOK, Cpus, At, Goto, Active, InTask, taskVars,
     cpuVars, hartVars, localVars
<1>24. CASE ExitCurrent
  BY <1>24, Zenon DEF ExitCurrent, Control, TypeOK, Cpus, At, Goto, Active, InTask, taskVars,
     cpuVars, hartVars, localVars
<1>25. CASE WfiReturns
  BY <1>25, Zenon DEF WfiReturns, Control, TypeOK, Cpus, At, Goto, Active, InTask, taskVars,
     cpuVars, hartVars, localVars
<1>26. CASE TimerInterrupt
  BY <1>26, Zenon DEF TimerInterrupt, Interrupt, Control, TypeOK, Cpus, At, Goto, Active,
     InTask, taskVars, cpuVars, hartVars, localVars
<1>27. CASE ExternalInterrupt
  BY <1>27, Zenon DEF ExternalInterrupt, Interrupt, Control, TypeOK, Cpus, At, Goto, Active,
     InTask, taskVars, cpuVars, hartVars, localVars
<1>28. ASSUME NEW q \in Queues, WaitPush(q) PROVE Control'
  BY <1>28, Zenon DEF WaitPush, Control, TypeOK, Cpus, At, Goto, Active, InTask, taskVars,
     cpuVars, hartVars, localVars
<1>29. ASSUME NEW q \in Queues, WakeOne(q) PROVE Control'
  BY <1>29, Zenon DEF WakeOne, Control, TypeOK, Cpus, At, Goto, Active, InTask, taskVars,
     cpuVars, hartVars, localVars
<1>30. ASSUME NEW q \in Queues, WakeAll(q) PROVE Control'
  BY <1>30, Zenon DEF WakeAll, Drain, Control, TypeOK, Cpus, At, Goto, Active, InTask, taskVars,
     cpuVars, hartVars, localVars
<1>31. ASSUME NEW q \in Queues, OnExternal(q) PROVE Control'
  BY <1>31, Zenon DEF OnExternal, Drain, Control, TypeOK, Cpus, At, Goto, Active, InTask,
     taskVars, cpuVars, hartVars, localVars
<1>32. ASSUME NEW t \in Tasks, Spawn(t) PROVE Control'
  BY <1>32, Zenon DEF Spawn, Control, TypeOK, Cpus, At, Goto, Active, InTask, taskVars, cpuVars,
     hartVars, localVars
<1>33. CASE UNCHANGED vars
  BY <1>33, Zenon DEF vars, Control, TypeOK, Cpus, At, Goto, Active, InTask, taskVars, cpuVars,
     hartVars, localVars
<1> QED
  BY <1>1, <1>2, <1>3, <1>4, <1>5, <1>6, <1>7, <1>8, <1>9, <1>10, <1>11, <1>12, <1>13, <1>14,
     <1>15, <1>16, <1>17, <1>18, <1>19, <1>20, <1>21, <1>22, <1>23, <1>24, <1>25, <1>26, <1>27,
     <1>28, <1>29, <1>30, <1>31, <1>32, <1>33 DEF Next, KernelStep, TaskStep

\* No step separates the per-hart record from what the hart executes.
LEMMA CpusStep == IInv /\ [Next]_vars => Cpus'
<1> SUFFICES ASSUME TypeOK, Control, Cpus, States, Places, [Next]_vars PROVE Cpus'
  BY DEF IInv
<1> USE Constants DEF Stacks, Threads, OpenTask, OpenIdle, Switching, TaskBase, IdleBase,
       IdleTrap, TaskTrap, Base, Trap
<1>1. CASE WaitUnqueue
  BY <1>1, Zenon DEF WaitUnqueue, Control, TypeOK, Cpus, At, Goto, Active, InTask, taskVars,
     cpuVars, hartVars, localVars
<1>2. CASE TaskEntry
  BY <1>2, Zenon DEF TaskEntry, Control, TypeOK, Cpus, At, Goto, Active, InTask, taskVars,
     cpuVars, hartVars, localVars
<1>3. CASE WakeState
  <2>1. /\ At("wake")
        /\ UNCHANGED pc \/ Goto("wake_push")
        /\ UNCHANGED <<stack, trapped, current, previous, next, taken, was_enabled>>
    BY <1>3 DEF WakeState, hartVars, cpuVars
  <2>2. CASE UNCHANGED pc
    BY <2>1, <2>2 DEF Cpus, Active
  <2>3. CASE Goto("wake_push")
    BY <2>1, <2>3, Zenon DEF Control, TypeOK, Cpus, At, Goto, Active
  <2> QED BY <2>1, <2>2, <2>3
<1>4. CASE WakePush
  BY <1>4, Zenon DEF WakePush, Control, TypeOK, Cpus, At, Goto, Active, InTask, taskVars,
     cpuVars, hartVars, localVars
<1>5. CASE WakeDone
  BY <1>5, Zenon DEF WakeDone, Control, TypeOK, Cpus, At, Goto, Active, InTask, taskVars,
     cpuVars, hartVars, localVars
<1>6. CASE SwMask
  BY <1>6, Zenon DEF SwMask, Control, TypeOK, Cpus, At, Goto, Active, InTask, taskVars, cpuVars,
     hartVars, localVars
<1>7. CASE SwTake
  BY <1>7, Zenon DEF SwTake, Control, TypeOK, Cpus, At, Goto, Active, InTask, taskVars, cpuVars,
     hartVars, localVars
<1>8. CASE SwState
  BY <1>8, Zenon DEF SwState, Owed, Control, TypeOK, Cpus, At, Goto, Active, InTask, taskVars,
     cpuVars, hartVars, localVars
<1>9. CASE SwPrev
  BY <1>9, Zenon DEF SwPrev, Control, TypeOK, Cpus, At, Goto, Active, InTask, taskVars, cpuVars,
     hartVars, localVars
<1>10. CASE SwContext
  BY <1>10, Zenon DEF SwContext, Control, TypeOK, Cpus, At, Goto, Active, InTask, taskVars,
     cpuVars, hartVars, localVars
<1>11. CASE SwResumed
  BY <1>11, Zenon DEF SwResumed, AfterSwitch, Control, TypeOK, Cpus, At, Goto, Active, InTask,
     taskVars, cpuVars, hartVars, localVars
<1>12. CASE IdlePrevious
  BY <1>12, Zenon DEF IdlePrevious, Control, TypeOK, Cpus, At, Goto, Active, InTask, taskVars,
     cpuVars, hartVars, localVars
<1>13. CASE IdlePop
  <2>1. /\ At("idle_pop")
        /\ Goto("idle_install")
        /\ UNCHANGED <<stack, trapped, current, previous, taken, was_enabled>>
    BY <1>13 DEF IdlePop, hartVars, cpuVars
  <2>2. next' # None
    <3>1. PICK l \in Levels : levels[l] # <<>> /\ next' = Head(levels[l])
      BY <1>13 DEF IdlePop, TopLevel
    <3>2. Head(levels[l]) \in Tasks
      BY <3>1, Seqs DEF TypeOK
    <3> QED BY <3>1, <3>2
  <2> QED BY <2>1, <2>2, Zenon DEF Control, TypeOK, Cpus, At, Goto, Active
<1>14. CASE IdleEmpty
  BY <1>14, Zenon DEF IdleEmpty, Control, TypeOK, Cpus, At, Goto, Active, InTask, taskVars,
     cpuVars, hartVars, localVars
<1>15. CASE IdleWfi
  BY <1>15, Zenon DEF IdleWfi, Control, TypeOK, Cpus, At, Goto, Active, InTask, taskVars,
     cpuVars, hartVars, localVars
<1>16. CASE IdleMask
  BY <1>16, Zenon DEF IdleMask, Control, TypeOK, Cpus, At, Goto, Active, InTask, taskVars,
     cpuVars, hartVars, localVars
<1>17. CASE IdleInstall
  BY <1>17, Zenon DEF IdleInstall, Control, TypeOK, Cpus, At, Goto, Active, InTask, taskVars,
     cpuVars, hartVars, localVars
<1>18. CASE IdleCurrent
  BY <1>18, Zenon DEF IdleCurrent, Control, TypeOK, Cpus, At, Goto, Active, InTask, taskVars,
     cpuVars, hartVars, localVars
<1>19. CASE IdleSwitch
  BY <1>19, ZenonT(40) DEF IdleSwitch, Control, TypeOK, Cpus, At, Goto, Active, InTask, taskVars,
     cpuVars, hartVars, localVars
<1>20. CASE OnTimerTick
  BY <1>20, Zenon DEF OnTimerTick, Control, TypeOK, Cpus, At, Goto, Active, InTask, taskVars,
     cpuVars, hartVars, localVars
<1>21. CASE ReschedIfNeeded
  <2>1. /\ At("resched")
        /\ UNCHANGED <<stack, trapped, current, previous, next, taken, was_enabled>>
    BY <1>21 DEF ReschedIfNeeded, hartVars, cpuVars
  <2>2. CASE Goto("trap_ret")
    BY <2>1, <2>2, Zenon DEF Control, TypeOK, Cpus, At, Goto, Active
  <2>3. CASE Goto("sw_mask")
    BY <2>1, <2>3, Zenon DEF Control, TypeOK, Cpus, At, Goto, Active
  <2> QED BY <1>21, <2>2, <2>3 DEF ReschedIfNeeded
<1>22. CASE TrapReturn
  BY <1>22, Zenon DEF TrapReturn, Control, TypeOK, Cpus, At, Goto, Active, InTask, taskVars,
     cpuVars, hartVars, localVars
<1>23. CASE YieldNow
  BY <1>23, Zenon DEF YieldNow, Control, TypeOK, Cpus, At, Goto, Active, InTask, taskVars,
     cpuVars, hartVars, localVars
<1>24. CASE ExitCurrent
  BY <1>24, Zenon DEF ExitCurrent, Control, TypeOK, Cpus, At, Goto, Active, InTask, taskVars,
     cpuVars, hartVars, localVars
<1>25. CASE WfiReturns
  BY <1>25, Zenon DEF WfiReturns, Control, TypeOK, Cpus, At, Goto, Active, InTask, taskVars,
     cpuVars, hartVars, localVars
<1>26. CASE TimerInterrupt
  BY <1>26, Zenon DEF TimerInterrupt, Interrupt, Control, TypeOK, Cpus, At, Goto, Active,
     InTask, taskVars, cpuVars, hartVars, localVars
<1>27. CASE ExternalInterrupt
  BY <1>27, Zenon DEF ExternalInterrupt, Interrupt, Control, TypeOK, Cpus, At, Goto, Active,
     InTask, taskVars, cpuVars, hartVars, localVars
<1>28. ASSUME NEW q \in Queues, WaitPush(q) PROVE Cpus'
  BY <1>28, Zenon DEF WaitPush, Control, TypeOK, Cpus, At, Goto, Active, InTask, taskVars,
     cpuVars, hartVars, localVars
<1>29. ASSUME NEW q \in Queues, WakeOne(q) PROVE Cpus'
  BY <1>29, Zenon DEF WakeOne, Control, TypeOK, Cpus, At, Goto, Active, InTask, taskVars,
     cpuVars, hartVars, localVars
<1>30. ASSUME NEW q \in Queues, WakeAll(q) PROVE Cpus'
  BY <1>30, Zenon DEF WakeAll, Drain, Control, TypeOK, Cpus, At, Goto, Active, InTask, taskVars,
     cpuVars, hartVars, localVars
<1>31. ASSUME NEW q \in Queues, OnExternal(q) PROVE Cpus'
  BY <1>31, Zenon DEF OnExternal, Drain, Control, TypeOK, Cpus, At, Goto, Active, InTask,
     taskVars, cpuVars, hartVars, localVars
<1>32. ASSUME NEW t \in Tasks, Spawn(t) PROVE Cpus'
  BY <1>32, Zenon DEF Spawn, Control, TypeOK, Cpus, At, Goto, Active, InTask, taskVars, cpuVars,
     hartVars, localVars
<1>33. CASE UNCHANGED vars
  BY <1>33, Zenon DEF vars, Control, TypeOK, Cpus, At, Goto, Active, InTask, taskVars, cpuVars,
     hartVars, localVars
<1> QED
  BY <1>1, <1>2, <1>3, <1>4, <1>5, <1>6, <1>7, <1>8, <1>9, <1>10, <1>11, <1>12, <1>13, <1>14,
     <1>15, <1>16, <1>17, <1>18, <1>19, <1>20, <1>21, <1>22, <1>23, <1>24, <1>25, <1>26, <1>27,
     <1>28, <1>29, <1>30, <1>31, <1>32, <1>33 DEF Next, KernelStep, TaskStep

\* No step separates a task's state from what is done with it.
LEMMA StatesStep == IInv /\ [Next]_vars => States'
<1> SUFFICES ASSUME TypeOK, Control, Cpus, States, Places, [Next]_vars PROVE States'
  BY DEF IInv
<1> USE Constants DEF Stacks, Threads, OpenTask, OpenIdle, Switching, TaskBase, IdleBase,
       IdleTrap, TaskTrap, Base, Trap
<1>1. CASE WaitUnqueue
  BY <1>1, Zenon DEF WaitUnqueue, Control, TypeOK, Cpus, States, At, Goto, Active, InTask,
     taskVars, cpuVars, hartVars, localVars
<1>2. CASE TaskEntry
  BY <1>2, Zenon DEF TaskEntry, Control, TypeOK, Cpus, States, At, Goto, Active, InTask,
     taskVars, cpuVars, hartVars, localVars
<1>3. CASE WakeState
  <2>1. /\ At("wake")
        /\ UNCHANGED pc \/ Goto("wake_push")
        /\ UNCHANGED <<stack, trapped, previous, next, want>>
    BY <1>3 DEF WakeState, hartVars, cpuVars
  <2>2. previous = None /\ next = None
    BY <2>1, Zenon DEF At, Active, Control, Cpus
  <2>3. PICK t \in Tasks : UNCHANGED state \/ (/\ state[t] = "Blocked"
                                              /\ state' = [state EXCEPT ![t] = "Ready"])
    <3>1. Head(drained[Active]) \in Tasks
      BY <1>3, Seqs, Zenon DEF WakeState, At, Active, Control, TypeOK
    <3> QED BY <1>3, <3>1 DEF WakeState, Wakeable
  <2>4. /\ \A u \in Tasks : state[u] # "Blocked" => state'[u] = state[u]
        /\ stack \in Tasks => state[stack] = "Running"
    BY <2>1, <2>3, Zenon DEF TypeOK, States, At
  <2>5. \A u \in Tasks : pc'[Base(u)] = "sw_resumed" => pc[Base(u)] = "sw_resumed"
    BY <2>1, Zenon DEF Goto, TypeOK
  <2>6. pc'[Active] \notin {"sw_prev", "sw_ctx"}
    <3>1. Active \in Threads /\ pc[Active] = "wake" /\ DOMAIN pc = Threads
      BY <2>1, Zenon DEF At, Active, Control, TypeOK
    <3>2. CASE UNCHANGED pc
      BY <3>1, <3>2, Zenon
    <3>3. CASE Goto("wake_push")
      <4>1. pc'[Active] = "wake_push"
        BY <3>1, <3>3, Zenon DEF Goto
      <4> QED BY <4>1
    <3> QED BY <2>1, <3>2, <3>3
  <2> QED BY <2>1, <2>2, <2>4, <2>5, <2>6, Zenon DEF States, Active
<1>4. CASE WakePush
  BY <1>4, Zenon DEF WakePush, Control, TypeOK, Cpus, States, At, Goto, Active, InTask,
     taskVars, cpuVars, hartVars, localVars
<1>5. CASE WakeDone
  BY <1>5, Zenon DEF WakeDone, Control, TypeOK, Cpus, States, At, Goto, Active, InTask,
     taskVars, cpuVars, hartVars, localVars
<1>6. CASE SwMask
  BY <1>6, Zenon DEF SwMask, Control, TypeOK, Cpus, States, At, Goto, Active, InTask, taskVars,
     cpuVars, hartVars, localVars
<1>7. CASE SwTake
  BY <1>7, Zenon DEF SwTake, Control, TypeOK, Cpus, States, At, Goto, Active, InTask, taskVars,
     cpuVars, hartVars, localVars
<1>8. CASE SwState
  <2>1. /\ stack \in Tasks
        /\ taken[Active] = stack
        /\ pc[Active] = "sw_state"
        /\ next = None /\ previous = None
        /\ state[stack] = "Running"
        /\ Active \in Threads
    BY <1>8, Zenon DEF SwState, At, Active, Control, Cpus, States
  <2>2. /\ UNCHANGED <<stack, trapped, previous, next, want>>
        /\ Goto("sw_prev")
        /\ \E to \in {"Ready", want[Active]} :
             /\ state' = [state EXCEPT ![stack] = to]
             /\ want[Active] = "Zombie" => to = "Zombie"
    BY <1>8, <2>1, Zenon DEF SwState, Owed, hartVars, cpuVars, localVars
  <2>3. /\ state'[stack] \in {"Ready", "Blocked", "Zombie"}
        /\ want[Active] = "Zombie" => state'[stack] = "Zombie"
        /\ \A u \in Tasks : u # stack => state'[u] = state[u]
    BY <2>1, <2>2, Zenon DEF TypeOK
  <2>4. /\ pc'[Active] = "sw_prev"
        /\ \A u \in Tasks : pc'[Base(u)] = "sw_resumed" => pc[Base(u)] = "sw_resumed"
        /\ pc'[Base(stack)] = "sw_resumed" => FALSE
    BY <2>1, <2>2, Zenon DEF Goto, Active, TypeOK, Control
  <2> QED BY <2>1, <2>2, <2>3, <2>4, ZenonT(40) DEF States, Active
<1>9. CASE SwPrev
  BY <1>9, Zenon DEF SwPrev, Control, TypeOK, Cpus, States, At, Goto, Active, InTask, taskVars,
     cpuVars, hartVars, localVars
<1>10. CASE SwContext
  BY <1>10, Zenon DEF SwContext, Control, TypeOK, Cpus, States, At, Goto, Active, InTask,
     taskVars, cpuVars, hartVars, localVars
<1>11. CASE SwResumed
  BY <1>11, Zenon DEF SwResumed, AfterSwitch, Control, TypeOK, Cpus, States, At, Goto, Active,
     InTask, taskVars, cpuVars, hartVars, localVars
<1>12. CASE IdlePrevious
  BY <1>12, Zenon DEF IdlePrevious, Control, TypeOK, Cpus, States, At, Goto, Active, InTask,
     taskVars, cpuVars, hartVars, localVars
<1>13. CASE IdlePop
  <2>1. /\ stack = Idle
        /\ ~trapped[Idle]
        /\ Goto("idle_install")
        /\ previous = None
        /\ UNCHANGED <<state, stack, trapped, previous, want>>
    BY <1>13, Zenon DEF IdlePop, At, Active, Control, Cpus, hartVars, cpuVars, taskVars
  <2>2. state[next'] = "Ready"
    <3>1. PICK l \in Levels : levels[l] # <<>> /\ next' = Head(levels[l])
      BY <1>13 DEF IdlePop, TopLevel
    <3>2. next' \in Tasks /\ InLevel(next', l)
      BY <3>1, Seqs DEF TypeOK, InLevel
    <3> QED BY <3>1, <3>2 DEF Places
  <2>3. /\ pc'[Base(Idle)] = "idle_install"
        /\ \A u \in Tasks : pc'[Base(u)] = pc[Base(u)]
    BY <2>1 DEF Goto, Active, TypeOK
  <2> QED BY <2>1, <2>2, <2>3, Zenon DEF States
<1>14. CASE IdleEmpty
  BY <1>14, Zenon DEF IdleEmpty, Control, TypeOK, Cpus, States, At, Goto, Active, InTask,
     taskVars, cpuVars, hartVars, localVars
<1>15. CASE IdleWfi
  BY <1>15, Zenon DEF IdleWfi, Control, TypeOK, Cpus, States, At, Goto, Active, InTask,
     taskVars, cpuVars, hartVars, localVars
<1>16. CASE IdleMask
  BY <1>16, Zenon DEF IdleMask, Control, TypeOK, Cpus, States, At, Goto, Active, InTask,
     taskVars, cpuVars, hartVars, localVars
<1>17. CASE IdleInstall
  BY <1>17, ZenonT(40) DEF IdleInstall, Control, TypeOK, Cpus, States, At, Goto, Active, InTask,
     taskVars, cpuVars, hartVars, localVars
<1>18. CASE IdleCurrent
  BY <1>18, Zenon DEF IdleCurrent, Control, TypeOK, Cpus, States, At, Goto, Active, InTask,
     taskVars, cpuVars, hartVars, localVars
<1>19. CASE IdleSwitch
  BY <1>19, ZenonT(40) DEF IdleSwitch, Control, TypeOK, Cpus, States, At, Goto, Active, InTask,
     taskVars, cpuVars, hartVars, localVars
<1>20. CASE OnTimerTick
  BY <1>20, Zenon DEF OnTimerTick, Control, TypeOK, Cpus, States, At, Goto, Active, InTask,
     taskVars, cpuVars, hartVars, localVars
<1>21. CASE ReschedIfNeeded
  <2>1. /\ At("resched")
        /\ UNCHANGED <<state, stack, trapped, previous, next>>
        /\ UNCHANGED want \/ want' = [want EXCEPT ![Active] = "Ready"]
        /\ Goto("trap_ret") \/ Goto("sw_mask")
    BY <1>21 DEF ReschedIfNeeded, hartVars, cpuVars
  <2>2. \A u \in Tasks : want'[Base(u)] = "Zombie" => want[Base(u)] = "Zombie"
    BY <2>1 DEF TypeOK
  <2>3. \A u \in Tasks : pc'[Base(u)] = "sw_resumed" => pc[Base(u)] = "sw_resumed"
    BY <2>1 DEF Goto, TypeOK
  <2>4. pc'[Active] \notin {"sw_prev", "sw_ctx"} /\ pc[Active] = "resched"
    <3>1. Active \in Threads /\ pc[Active] = "resched" /\ DOMAIN pc = Threads
      BY <2>1, Zenon DEF At, Active, Control, TypeOK
    <3>2. pc'[Active] = "trap_ret" \/ pc'[Active] = "sw_mask"
      BY <2>1, <3>1, Zenon DEF Goto
    <3> QED BY <3>1, <3>2
  <2>5. next = None /\ previous = None
    BY <2>1 DEF At, Active, Control, Cpus
  <2> QED BY <2>1, <2>2, <2>3, <2>4, <2>5, Zenon DEF States, Active
<1>22. CASE TrapReturn
  BY <1>22, Zenon DEF TrapReturn, Control, TypeOK, Cpus, States, At, Goto, Active, InTask,
     taskVars, cpuVars, hartVars, localVars
<1>23. CASE YieldNow
  BY <1>23, Zenon DEF YieldNow, Control, TypeOK, Cpus, States, At, Goto, Active, InTask,
     taskVars, cpuVars, hartVars, localVars
<1>24. CASE ExitCurrent
  BY <1>24, Zenon DEF ExitCurrent, Control, TypeOK, Cpus, States, At, Goto, Active, InTask,
     taskVars, cpuVars, hartVars, localVars
<1>25. CASE WfiReturns
  BY <1>25, Zenon DEF WfiReturns, Control, TypeOK, Cpus, States, At, Goto, Active, InTask,
     taskVars, cpuVars, hartVars, localVars
<1>26. CASE TimerInterrupt
  BY <1>26, Zenon DEF TimerInterrupt, Interrupt, Control, TypeOK, Cpus, States, At, Goto,
     Active, InTask, taskVars, cpuVars, hartVars, localVars
<1>27. CASE ExternalInterrupt
  BY <1>27, Zenon DEF ExternalInterrupt, Interrupt, Control, TypeOK, Cpus, States, At, Goto,
     Active, InTask, taskVars, cpuVars, hartVars, localVars
<1>28. ASSUME NEW q \in Queues, WaitPush(q) PROVE States'
  BY <1>28, Zenon DEF WaitPush, Control, TypeOK, Cpus, States, At, Goto, Active, InTask,
     taskVars, cpuVars, hartVars, localVars
<1>29. ASSUME NEW q \in Queues, WakeOne(q) PROVE States'
  BY <1>29, Zenon DEF WakeOne, Control, TypeOK, Cpus, States, At, Goto, Active, InTask,
     taskVars, cpuVars, hartVars, localVars
<1>30. ASSUME NEW q \in Queues, WakeAll(q) PROVE States'
  BY <1>30, Zenon DEF WakeAll, Drain, Control, TypeOK, Cpus, States, At, Goto, Active, InTask,
     taskVars, cpuVars, hartVars, localVars
<1>31. ASSUME NEW q \in Queues, OnExternal(q) PROVE States'
  BY <1>31, Zenon DEF OnExternal, Drain, Control, TypeOK, Cpus, States, At, Goto, Active,
     InTask, taskVars, cpuVars, hartVars, localVars
<1>32. ASSUME NEW t \in Tasks, Spawn(t) PROVE States'
  BY <1>32, Zenon DEF Spawn, Control, TypeOK, Cpus, States, At, Goto, Active, InTask, taskVars,
     cpuVars, hartVars, localVars
<1>33. CASE UNCHANGED vars
  BY <1>33, Zenon DEF vars, Control, TypeOK, Cpus, States, At, Goto, Active, InTask, taskVars,
     cpuVars, hartVars, localVars
<1> QED
  BY <1>1, <1>2, <1>3, <1>4, <1>5, <1>6, <1>7, <1>8, <1>9, <1>10, <1>11, <1>12, <1>13, <1>14,
     <1>15, <1>16, <1>17, <1>18, <1>19, <1>20, <1>21, <1>22, <1>23, <1>24, <1>25, <1>26, <1>27,
     <1>28, <1>29, <1>30, <1>31, <1>32, <1>33 DEF Next, KernelStep, TaskStep

=============================================================================
