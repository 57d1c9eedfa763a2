--------------------------- MODULE SchedulerProofs ---------------------------
(***************************************************************************)
(* Proofs about Scheduler, for any set of tasks, any wait queues, any      *)
(* number of priority levels and any quantum: the invariant of             *)
(* SchedulerInv is inductive, and the safety properties follow.            *)
(***************************************************************************)
EXTENDS SchedulerInv

\* A step that leaves the run queue alone and moves nobody between the places.
LEMMA PlacesKept ==
  ASSUME TypeOK, Places, UNCHANGED levels,
         \A t \in Tasks : Queued(t) => level'[t] = level[t],
         \A t \in Tasks : state'[t] # state[t] =>
           /\ ~Queued(t)
           /\ \A th \in Threads : ~Carries(th, t)
           /\ state'[t] = "Ready" => OnCpu(t)',
         \A t \in Tasks : OnCpu(t)' => OnCpu(t) \/ (~Queued(t) /\ \A th \in Threads : ~Carries(th, t)),
         \A t \in Tasks : state[t] = "Ready" /\ OnCpu(t) => OnCpu(t)' \/ state'[t] # state[t],
         \A th \in Threads : /\ pc'[th] = "wake_push" <=> pc[th] = "wake_push"
                             /\ pc[th] = "wake_push" => drained'[th] = drained[th]
  PROVE  Places'
<1>1. \A th \in Threads, t \in Tasks : Carries(th, t)' <=> Carries(th, t)
  BY DEF Carries
<1>2. \A t \in Tasks, l \in Levels : InLevel(t, l)' <=> InLevel(t, l)
  BY DEF InLevel
<1>3. \A t \in Tasks : Queued(t)' <=> Queued(t)
  BY <1>2 DEF Queued
<1>4. \A th \in Threads : pc'[th] = "wake_push" => drained'[th] # <<>>
  BY DEF Places
<1>5. \A t \in Tasks, l \in Levels : InLevel(t, l)' =>
        /\ state'[t] = "Ready"
        /\ level'[t] = l
        /\ ~OnCpu(t)'
        /\ \A th \in Threads : ~Carries(th, t)'
  <2> SUFFICES ASSUME NEW t \in Tasks, NEW l \in Levels, InLevel(t, l)
               PROVE  /\ state'[t] = "Ready"
                      /\ level'[t] = l
                      /\ ~OnCpu(t)'
                      /\ \A th \in Threads : ~Carries(th, t)'
    BY <1>2
  <2>1. Queued(t)
    BY DEF Queued
  <2> QED BY <2>1, <1>1 DEF Places
<1>6. \A th \in Threads, t \in Tasks : Carries(th, t)' =>
        /\ state'[t] = "Ready"
        /\ ~OnCpu(t)'
        /\ \A ph \in Threads : Carries(ph, t)' => ph = th
  BY <1>1 DEF Places
<1>7. \A t \in Tasks : state'[t] = "Ready" =>
        Queued(t)' \/ OnCpu(t)' \/ \E th \in Threads : Carries(th, t)'
  BY <1>1, <1>3 DEF Places
<1> QED BY <1>4, <1>5, <1>6, <1>7 DEF Places

\* A local move of the running thread, to and from labels outside wake's second half.
LEMMA PlacesLocal ==
  ASSUME TypeOK, Places, NEW label, Goto(label), label # "wake_push", pc[Active] # "wake_push",
         UNCHANGED <<levels, state, level, stack, previous, next>>,
         \A th \in Threads : pc[th] = "wake_push" => drained'[th] = drained[th]
  PROVE  Places'
<1>1. \A th \in Threads : pc'[th] = "wake_push" <=> pc[th] = "wake_push"
  BY DEF Goto, TypeOK
<1>2. \A t \in Tasks : OnCpu(t)' <=> OnCpu(t)
  BY DEF OnCpu
<1> QED BY <1>1, <1>2, PlacesKept

\* Appending to one level of the run queue.
LEMMA PushProperties ==
  ASSUME levels \in [Levels -> Seq(Tasks)], NEW t \in Tasks, NEW k \in Levels,
         levels' = Push(t, k)
  PROVE  /\ \A u \in Tasks, l \in Levels :
              InLevel(u, l)' <=> InLevel(u, l) \/ (u = t /\ l = k)
         /\ (\A l \in Levels : \A i, j \in 1 .. Len(levels[l]) : levels[l][i] = levels[l][j] => i = j)
            /\ ~InLevel(t, k)
            => \A l \in Levels : \A i, j \in 1 .. Len(levels'[l]) : levels'[l][i] = levels'[l][j] => i = j
<1>1. /\ levels'[k] = Append(levels[k], t)
      /\ \A l \in Levels : l # k => levels'[l] = levels[l]
      /\ levels[k] \in Seq(Tasks)
  BY DEF Push
<1>2. /\ Len(levels'[k]) = Len(levels[k]) + 1
      /\ \A i \in 1 .. Len(levels[k]) : levels'[k][i] = levels[k][i]
      /\ levels'[k][Len(levels[k]) + 1] = t
      /\ Len(levels[k]) \in Nat
  BY <1>1, AppendProperties
<1>3. \A u \in Tasks : InLevel(u, k)' <=> InLevel(u, k) \/ u = t
  BY <1>2 DEF InLevel
<1>4. \A u \in Tasks, l \in Levels : l # k => (InLevel(u, l)' <=> InLevel(u, l))
  BY <1>1 DEF InLevel
<1>5. ASSUME \A l \in Levels : \A i, j \in 1 .. Len(levels[l]) : levels[l][i] = levels[l][j] => i = j,
             ~InLevel(t, k), NEW l \in Levels,
             NEW i \in 1 .. Len(levels'[l]), NEW j \in 1 .. Len(levels'[l]),
             levels'[l][i] = levels'[l][j]
      PROVE  i = j
  <2>1. CASE l # k
    BY <2>1, <1>1, <1>5
  <2>2. CASE l = k
    <3>1. \A m \in 1 .. Len(levels[k]) : levels[k][m] # t
      BY <1>5 DEF InLevel
    <3> QED BY <2>2, <3>1, <1>2, <1>5, SMTT(30)
  <2> QED BY <2>1, <2>2
<1> QED BY <1>3, <1>4, <1>5

\* A step that queues a task which has just left its other place.
LEMMA PlacesPush ==
  ASSUME TypeOK, Places, NEW t \in Tasks, NEW k \in Levels, levels' = Push(t, k), level'[t] = k,
         state'[t] = "Ready", ~Queued(t), ~OnCpu(t)',
         \A th \in Threads : ~Carries(th, t)',
         \A u \in Tasks : u # t =>
           state'[u] = state[u] /\ level'[u] = level[u] /\ (OnCpu(u)' <=> OnCpu(u)),
         \A u \in Tasks, th \in Threads : u # t => (Carries(th, u)' <=> Carries(th, u)),
         \A th \in Threads : pc'[th] = "wake_push" => drained'[th] # <<>>
  PROVE  Places'
<1>1. levels \in [Levels -> Seq(Tasks)]
  BY DEF TypeOK
<1>2. \A u \in Tasks, l \in Levels : InLevel(u, l)' <=> InLevel(u, l) \/ (u = t /\ l = k)
  BY <1>1, PushProperties
<1>3. \A l \in Levels : \A i, j \in 1 .. Len(levels'[l]) : levels'[l][i] = levels'[l][j] => i = j
  <2>1. ~InLevel(t, k)
    BY <1>1 DEF Queued
  <2>2. \A l \in Levels : \A i, j \in 1 .. Len(levels[l]) : levels[l][i] = levels[l][j] => i = j
    BY DEF Places
  <2> QED BY <1>1, <2>1, <2>2, PushProperties
<1>4. ASSUME NEW u \in Tasks, NEW l \in Levels, InLevel(u, l)'
      PROVE  state'[u] = "Ready" /\ level'[u] = l /\ ~OnCpu(u)' /\ \A th \in Threads : ~Carries(th, u)'
  <2>1. CASE u = t
    <3>1. l = k
      BY <1>2, <1>4, <2>1 DEF Queued
    <3> QED BY <2>1, <3>1
  <2>2. CASE u # t
    <3>1. InLevel(u, l)
      BY <1>2, <1>4, <2>2
    <3>2. state[u] = "Ready" /\ level[u] = l /\ ~OnCpu(u) /\ \A th \in Threads : ~Carries(th, u)
      BY <3>1 DEF Places
    <3> QED BY <2>2, <3>2
  <2> QED BY <2>1, <2>2
<1>5. ASSUME NEW th \in Threads, NEW u \in Tasks, Carries(th, u)'
      PROVE  state'[u] = "Ready" /\ ~OnCpu(u)' /\ \A ph \in Threads : Carries(ph, u)' => ph = th
  <2>1. u # t /\ Carries(th, u)
    BY <1>5
  <2>2. state[u] = "Ready" /\ ~OnCpu(u) /\ \A ph \in Threads : Carries(ph, u) => ph = th
    BY <2>1 DEF Places
  <2> QED BY <2>1, <2>2
<1>6. ASSUME NEW u \in Tasks, state'[u] = "Ready"
      PROVE  Queued(u)' \/ OnCpu(u)' \/ \E th \in Threads : Carries(th, u)'
  <2>1. CASE u = t
    BY <1>2, <2>1 DEF Queued
  <2>2. CASE u # t
    <3>1. Queued(u) \/ OnCpu(u) \/ \E th \in Threads : Carries(th, u)
      BY <1>6, <2>2 DEF Places
    <3>2. Queued(u) => Queued(u)'
      BY <1>2 DEF Queued
    <3> QED BY <2>2, <3>1, <3>2
  <2> QED BY <2>1, <2>2
<1> QED BY <1>3, <1>4, <1>5, <1>6 DEF Places

\* What the invariant says of the state, by the label the hart is at.
LEMMA Where ==
  ASSUME TypeOK, Control, Cpus, States
  PROVE  /\ Active \in Threads
         /\ pc[Active] \in {"run", "wake", "tick"} => previous = None /\ next = None
         /\ pc[Active] \in {"run", "wake"} /\ stack \in Tasks => state[stack] = "Running"
         /\ pc[Active] = "tick" => current = stack \/ current = None
         /\ pc[Active] \in {"sw_state", "sw_prev"} =>
              stack \in Tasks /\ taken[Active] = stack /\ previous = None
         /\ pc[Active] = "sw_state" => state[stack] = "Running"
         /\ pc[Active] = "sw_ctx" => stack \in Tasks /\ previous = stack /\ ctx[Idle] = Idle
         /\ pc[Active] \in {"idle_previous", "idle_pop"} => stack = Idle /\ next = None
         /\ pc[Active] = "idle_pop" => previous = None
         /\ pc[Active] \in {"idle_install", "idle_switch"} =>
              stack = Idle /\ next \in Tasks /\ ctx[next] = next
<1> USE Constants DEF Stacks, Threads, OpenTask, OpenIdle, Switching, TaskBase, IdleBase,
       IdleTrap,
                      TaskTrap, Base, Trap
<1>1. Active \in Threads /\ next \in Tasks \cup {None} /\ previous \in Tasks \cup {None}
  BY DEF Active, Control, TypeOK
<1>2. CASE stack \in Tasks
  BY <1>1, <1>2, Zenon DEF Active, Control, Cpus, States
<1>3. CASE stack = Idle
  BY <1>1, <1>3 DEF Active, Control, Cpus, States
<1> QED BY <1>2, <1>3 DEF Control

\* No step loses, doubles or misplaces a runnable task.
LEMMA PlacesStep == IInv /\ [Next]_vars => Places'
<1> SUFFICES ASSUME TypeOK, Control, Cpus, States, Places, [Next]_vars PROVE Places'
  BY DEF IInv
<1>0. pc \in [Threads -> KernelLabels] /\ Active \in Threads
  BY Where, SMTT(30) DEF TypeOK
<1>1. CASE WaitUnqueue
  BY <1>1, PlacesLocal DEF WaitUnqueue, InTask, At, taskVars, cpuVars, hartVars, localVars
<1>2. CASE TaskEntry
  BY <1>2, PlacesLocal DEF TaskEntry, InTask, At, taskVars, cpuVars, hartVars, localVars
<1>3. CASE WakeState
  <2>1. pc[Active] = "wake" /\ drained[Active] \in Seq(Tasks) /\ drained[Active] # <<>>
    BY <1>3, <1>0 DEF WakeState, At, TypeOK
  <2>2. PICK t \in Tasks : t = Head(drained[Active])
    BY <2>1, Seqs
  <2>3. UNCHANGED <<levels, stack, previous, next>>
    BY <1>3 DEF WakeState, taskVars, cpuVars, hartVars, localVars
  <2>4. \A u \in Tasks : OnCpu(u)' <=> OnCpu(u)
    BY <2>3, Constants DEF OnCpu, Stacks
  <2>5. CASE state[t] # "Blocked"
    <3>1. /\ UNCHANGED <<state, level, pc>>
          /\ drained' = [drained EXCEPT ![Active] = Tail(@)]
      BY <1>3, <2>2, <2>5 DEF WakeState, Wakeable
    <3>2. \A th \in Threads : pc[th] = "wake_push" => drained'[th] = drained[th]
      BY <3>1, <2>1 DEF TypeOK
    <3> QED BY <2>3, <2>4, <3>1, <3>2, PlacesKept
  <2>6. CASE state[t] = "Blocked"
    <3>1. /\ state' = [state EXCEPT ![t] = "Ready"]
          /\ pc' = [pc EXCEPT ![Active] = "wake_push"]
          /\ UNCHANGED drained
          /\ \A u \in Tasks : u # t => level'[u] = level[u]
      BY <1>3, <2>2, <2>6 DEF WakeState, Wakeable, Goto, TypeOK
    <3>2. ~Queued(t) /\ ~OnCpu(t) /\ \A th \in Threads : ~Carries(th, t)
      <4>1. ~Queued(t) /\ \A th \in Threads : ~Carries(th, t)
        BY <2>6 DEF Places, Queued
      <4>2. previous = None /\ next = None
        BY <2>1, Where
      <4>3. stack # t
        BY <2>1, <2>6, Where
      <4> QED BY <4>1, <4>2, <4>3, Constants DEF OnCpu, Stacks
    <3>3. /\ \A u \in Tasks : u # t => state'[u] = state[u]
          /\ state'[t] = "Ready"
      BY <3>1 DEF TypeOK
    <3>4. \A th \in Threads : /\ pc'[th] = "wake_push" <=> pc[th] = "wake_push" \/ th = Active
                              /\ th = Active => pc[th] # "wake_push"
      BY <1>0, <2>1, <3>1
    <3>5. \A th \in Threads, u \in Tasks : Carries(th, u)' <=> Carries(th, u) \/ (th = Active /\ u = t)
      BY <2>2, <3>1, <3>4 DEF Carries
    <3>6. \A u \in Tasks, l \in Levels : InLevel(u, l)' <=> InLevel(u, l)
      BY <2>3 DEF InLevel
    <3>7. \A th \in Threads : pc'[th] = "wake_push" => drained'[th] # <<>>
      BY <2>1, <3>1, <3>4 DEF Places
    <3>8. \A u \in Tasks, l \in Levels : InLevel(u, l)' =>
            /\ state'[u] = "Ready"
            /\ level'[u] = l
            /\ ~OnCpu(u)'
            /\ \A th \in Threads : ~Carries(th, u)'
      BY <2>4, <3>1, <3>2, <3>3, <3>5, <3>6, SMTT(30) DEF Places, Queued
    <3>9. \A th \in Threads, u \in Tasks : Carries(th, u)' =>
            /\ state'[u] = "Ready"
            /\ ~OnCpu(u)'
            /\ \A ph \in Threads : Carries(ph, u)' => ph = th
      BY <2>4, <3>2, <3>3, <3>5 DEF Places
    <3>10. \A u \in Tasks : state'[u] = "Ready" =>
             Queued(u)' \/ OnCpu(u)' \/ \E th \in Threads : Carries(th, u)'
      <4>1. \A u \in Tasks : Queued(u) => Queued(u)'
        BY <3>6 DEF Queued
      <4> QED BY <1>0, <2>4, <3>3, <3>5, <4>1 DEF Places
    <3> QED BY <2>3, <3>7, <3>8, <3>9, <3>10 DEF Places
  <2> QED BY <2>5, <2>6
<1>4. CASE WakePush
  <2>1. pc[Active] = "wake_push" /\ drained[Active] \in Seq(Tasks) /\ drained[Active] # <<>>
    BY <1>4, <1>0 DEF WakePush, At, TypeOK, Places
  <2>2. PICK t \in Tasks : t = Head(drained[Active])
    BY <2>1, Seqs
  <2>3. /\ UNCHANGED <<state, level, stack, previous, next>>
        /\ levels' = Push(t, level[t])
        /\ pc' = [pc EXCEPT ![Active] = "wake"]
        /\ drained' = [drained EXCEPT ![Active] = Tail(@)]
    BY <1>4, <2>2 DEF WakePush, Goto, taskVars, cpuVars, hartVars, localVars
  <2>4. \A u \in Tasks : OnCpu(u)' <=> OnCpu(u)
    BY <2>3, Constants DEF OnCpu, Stacks
  <2>5. Carries(Active, t)
    BY <2>1, <2>2 DEF Carries
  <2>6. /\ state[t] = "Ready" /\ ~OnCpu(t) /\ ~Queued(t)
        /\ \A th \in Threads : Carries(th, t) => th = Active
    BY <1>0, <2>5 DEF Places, Queued
  <2>7. \A th \in Threads : IF th = Active THEN pc'[th] = "wake"
                            ELSE pc'[th] = pc[th] /\ drained'[th] = drained[th]
    BY <1>0, <2>3 DEF TypeOK
  <2>8. \A th \in Threads, u \in Tasks : Carries(th, u)' <=> Carries(th, u) /\ u # t
    <3>1. \A u \in Tasks : Carries(Active, u) <=> u = t
      BY <2>1, <2>2 DEF Carries
    <3>2. \A th \in Threads, u \in Tasks : th # Active => (Carries(th, u)' <=> Carries(th, u))
      BY <2>7 DEF Carries
    <3>3. \A th \in Threads, u \in Tasks : th = Active => ~Carries(th, u)'
      BY <2>7 DEF Carries
    <3> QED BY <1>0, <3>1, <3>2, <3>3, <2>6
  <2>9. \A th \in Threads : pc'[th] = "wake_push" => drained'[th] # <<>>
    BY <2>7 DEF Places
  <2>10. level[t] \in Levels
    BY DEF TypeOK
  <2> QED BY <2>3, <2>4, <2>6, <2>8, <2>9, <2>10, PlacesPush, SMTT(30)
<1>5. CASE WakeDone
  <2>1. Goto("resched") \/ Goto("run")
    BY <1>5 DEF WakeDone
  <2> QED BY <1>5, <2>1, PlacesLocal DEF WakeDone, At, taskVars, cpuVars, hartVars, localVars
<1>6. CASE SwMask
  BY <1>6, PlacesLocal DEF SwMask, InTask, At, taskVars, cpuVars, hartVars, localVars
<1>7. CASE SwTake
  BY <1>7, PlacesLocal DEF SwTake, InTask, At, taskVars, cpuVars, hartVars, localVars
<1>8. CASE SwState
  <2>1. stack \in Tasks /\ taken[Active] = stack /\ state[stack] = "Running" /\ pc[Active] = "sw_state"
    BY <1>8, Where DEF SwState, At
  <2>2. /\ UNCHANGED <<levels, level, stack, previous, next, drained>>
        /\ Goto("sw_prev")
        /\ \A u \in Tasks : u # stack => state'[u] = state[u]
    BY <1>8, <2>1, SMTT(30) DEF SwState, TypeOK, taskVars, cpuVars, hartVars, localVars
  <2>3. ~Queued(stack) /\ (\A th \in Threads : ~Carries(th, stack)) /\ OnCpu(stack)
    BY <2>1, Constants DEF Places, Queued, OnCpu, Stacks
  <2>4. \A u \in Tasks : OnCpu(u)' <=> OnCpu(u)
    BY <2>2, Constants DEF OnCpu, Stacks
  <2>5. \A th \in Threads : pc'[th] = "wake_push" <=> pc[th] = "wake_push"
    BY <1>0, <2>1, <2>2, SMTT(30) DEF Goto
  <2> QED BY <2>1, <2>2, <2>3, <2>4, <2>5, PlacesKept
<1>9. CASE SwPrev
  <2>1. stack \in Tasks /\ taken[Active] = stack /\ pc[Active] = "sw_prev" /\ previous = None
    BY <1>9, Where DEF SwPrev, At
  <2>2. /\ UNCHANGED <<levels, state, level, stack, next, drained>>
        /\ Goto("sw_ctx")
        /\ previous' = stack
    BY <1>9, <2>1 DEF SwPrev, taskVars, cpuVars, hartVars, localVars
  <2>3. \A u \in Tasks : OnCpu(u)' <=> OnCpu(u)
    BY <2>1, <2>2, Constants DEF OnCpu, Stacks
  <2>4. \A th \in Threads : pc'[th] = "wake_push" <=> pc[th] = "wake_push"
    BY <1>0, <2>1, <2>2 DEF Goto
  <2> QED BY <2>2, <2>3, <2>4, PlacesKept, SMTT(30)
<1>10. CASE SwContext
  <2>1. stack \in Tasks /\ pc[Active] = "sw_ctx" /\ previous = stack /\ ctx[Idle] = Idle
    BY <1>10, Where DEF SwContext, At
  <2>2. /\ UNCHANGED <<levels, state, level, previous, next, drained>>
        /\ Goto("sw_resumed")
        /\ stack' = Idle
    BY <1>10, <2>1 DEF SwContext, taskVars, cpuVars, hartVars, localVars
  <2>3. \A u \in Tasks : OnCpu(u)' <=> OnCpu(u)
    BY <2>1, <2>2, Constants DEF OnCpu, Stacks
  <2>4. \A th \in Threads : pc'[th] = "wake_push" <=> pc[th] = "wake_push"
    BY <1>0, <2>1, <2>2 DEF Goto
  <2> QED BY <2>2, <2>3, <2>4, PlacesKept
<1>11. CASE SwResumed
  <2>1. Goto("trap_ret") \/ Goto("run") \/ Goto("unqueue") \/ Goto("unreachable")
    BY <1>11, <1>0 DEF SwResumed, AfterSwitch, TypeOK
  <2> QED BY <1>11, <2>1, PlacesLocal DEF SwResumed, At, taskVars, cpuVars, hartVars, localVars
<1>12. CASE IdlePrevious
  <2>1. stack = Idle /\ pc[Active] = "idle_previous" /\ next = None
    BY <1>12, Where DEF IdlePrevious, At
  <2>2. /\ UNCHANGED <<state, level, stack, next, drained>>
        /\ Goto("idle_pop")
        /\ previous' = None
    BY <1>12 DEF IdlePrevious, taskVars, cpuVars, hartVars, localVars
  <2>3. \A th \in Threads : pc'[th] = "wake_push" <=> pc[th] = "wake_push"
    BY <1>0, <2>1, <2>2 DEF Goto
  <2>4. \A u \in Tasks : ~OnCpu(u)' /\ (OnCpu(u) <=> u = previous)
    BY <2>1, <2>2, Constants DEF OnCpu, Stacks
  <2>5. CASE previous = None \/ state[previous] # "Ready"
    <3>1. UNCHANGED levels
      BY <1>12, <2>5 DEF IdlePrevious
    <3>2. \A u \in Tasks : state[u] = "Ready" => ~OnCpu(u)
      BY <2>4, <2>5, Constants, SMTT(30) DEF Stacks
    <3> QED BY <2>2, <2>3, <2>4, <3>1, <3>2, PlacesKept
  <2>6. CASE previous # None /\ state[previous] = "Ready"
    <3>1. previous \in Tasks /\ OnCpu(previous)
      BY <2>6, Constants DEF TypeOK, OnCpu, Stacks
    <3>2. ~Queued(previous) /\ \A th \in Threads : ~Carries(th, previous)
      BY <3>1, Zenon DEF Places, Queued
    <3>3. \A u \in Tasks, th \in Threads : Carries(th, u)' <=> Carries(th, u)
      BY <2>2, <2>3 DEF Carries
    <3>4. levels' = Push(previous, level[previous])
      BY <1>12, <2>6 DEF IdlePrevious
    <3>5. \A th \in Threads : pc'[th] = "wake_push" => drained'[th] # <<>>
      BY <2>2, <2>3 DEF Places
    <3>6. PICK t \in Tasks : t = previous /\ level[t] \in Levels
      BY <3>1, SMTT(30) DEF TypeOK
    <3> QED BY <2>2, <2>4, <2>6, <3>2, <3>3, <3>4, <3>5, <3>6, PlacesPush
  <2> QED BY <2>5, <2>6
<1>13. CASE IdlePop
  <2>1. PICK k \in Levels : /\ levels[k] # <<>>
                           /\ next' = Head(levels[k])
                           /\ levels' = [levels EXCEPT ![k] = Tail(@)]
    BY <1>13, Zenon DEF IdlePop, TopLevel
  <2>2. PICK t \in Tasks : t = next'
    BY <2>1, Seqs DEF TypeOK
  <2>3. /\ stack = Idle /\ pc[Active] = "idle_pop" /\ next = None /\ previous = None
        /\ UNCHANGED <<state, level, stack, previous, drained>>
        /\ Goto("idle_install")
    BY <1>13, Where DEF IdlePop, At, taskVars, cpuVars, hartVars, localVars
  <2>4. \A u \in Tasks : ~OnCpu(u) /\ (OnCpu(u)' <=> u = t)
    BY <2>2, <2>3, Constants DEF OnCpu, Stacks
  <2>5. \A th \in Threads : pc'[th] = "wake_push" <=> pc[th] = "wake_push"
    BY <1>0, <2>3 DEF Goto
  <2>6. \A u \in Tasks, th \in Threads : Carries(th, u)' <=> Carries(th, u)
    BY <2>3, <2>5 DEF Carries
  <2>7. /\ levels'[k] = Tail(levels[k])
        /\ \A l \in Levels : l # k => levels'[l] = levels[l]
        /\ levels[k] \in Seq(Tasks)
        /\ Len(levels[k]) \in Nat /\ Len(levels[k]) > 0
        /\ Len(levels'[k]) = Len(levels[k]) - 1
        /\ \A i \in 1 .. Len(levels'[k]) : levels'[k][i] = levels[k][i + 1]
        /\ t = levels[k][1]
    <3>1. levels \in [Levels -> Seq(Tasks)]
      BY DEF TypeOK
    <3>2. levels'[k] = Tail(levels[k]) /\ \A l \in Levels : l # k => levels'[l] = levels[l]
      BY <2>1, <3>1
    <3>3. levels[k] \in Seq(Tasks)
      BY <3>1
    <3>4. PICK s \in Seq(Tasks) : s = levels[k]
      BY <3>3
    <3>5. s # <<>>
      BY <2>1, <3>4
    <3>6. /\ Len(s) \in Nat /\ Len(s) > 0 /\ Len(Tail(s)) = Len(s) - 1
          /\ \A i \in 1 .. Len(Tail(s)) : Tail(s)[i] = s[i + 1]
      BY <3>5, HeadTailProperties
    <3>7. t = s[1]
      BY <2>1, <2>2, <3>4, <3>5
    <3> QED BY <3>2, <3>3, <3>4, <3>6, <3>7
  <2>8. \A l \in Levels : \A i, j \in 1 .. Len(levels[l]) : levels[l][i] = levels[l][j] => i = j
    BY DEF Places
  <2>9. \A u \in Tasks, l \in Levels : InLevel(u, l)' <=> InLevel(u, l) /\ ~(u = t /\ l = k)
    <3>1. \A u \in Tasks, l \in Levels : l # k => (InLevel(u, l)' <=> InLevel(u, l))
      BY <2>7 DEF InLevel
    <3>2. \A u \in Tasks : InLevel(u, k)' => InLevel(u, k) /\ u # t
      BY <2>7, <2>8 DEF InLevel
    <3>3. ASSUME NEW u \in Tasks, InLevel(u, k), u # t PROVE InLevel(u, k)'
      <4>1. PICK i \in 1 .. Len(levels[k]) : levels[k][i] = u
        BY <3>3 DEF InLevel
      <4>2. i - 1 \in 1 .. Len(levels'[k]) /\ levels'[k][i - 1] = u
        BY <4>1, <3>3, <2>7
      <4> QED BY <4>2 DEF InLevel
    <3> QED BY <3>1, <3>2, <3>3
  <2>10. InLevel(t, k) /\ \A l \in Levels : InLevel(t, l) => l = k
    <3>1. InLevel(t, k)
      BY <2>7 DEF InLevel
    <3> QED BY <3>1 DEF Places
  <2>11. \A l \in Levels : \A i, j \in 1 .. Len(levels'[l]) : levels'[l][i] = levels'[l][j] => i = j
    <3> SUFFICES ASSUME NEW l \in Levels,
                        NEW i \in 1 .. Len(levels'[l]), NEW j \in 1 .. Len(levels'[l]),
                        levels'[l][i] = levels'[l][j]
                 PROVE  i = j
      OBVIOUS
    <3>1. CASE l # k
      BY <3>1, <2>7, <2>8
    <3>2. CASE l = k
      <4>1. i + 1 \in 1 .. Len(levels[k]) /\ j + 1 \in 1 .. Len(levels[k])
        BY <3>2, <2>7
      <4>2. levels[k][i + 1] = levels[k][j + 1]
        BY <3>2, <2>7, SMTT(30)
      <4> QED BY <4>1, <4>2, <2>8
    <3> QED BY <3>1, <3>2
  <2>12. \A u \in Tasks, l \in Levels : InLevel(u, l)' =>
           /\ state'[u] = "Ready"
           /\ level'[u] = l
           /\ ~OnCpu(u)'
           /\ \A th \in Threads : ~Carries(th, u)'
    <3>1. \A u \in Tasks, l \in Levels : InLevel(u, l)' => InLevel(u, l) /\ u # t
      BY <2>9, <2>10
    <3> QED BY <3>1, <2>3, <2>4, <2>6 DEF Places
  <2>13. \A th \in Threads, u \in Tasks : Carries(th, u)' =>
           /\ state'[u] = "Ready"
           /\ ~OnCpu(u)'
           /\ \A ph \in Threads : Carries(ph, u)' => ph = th
    <3> SUFFICES ASSUME NEW th \in Threads, NEW u \in Tasks, Carries(th, u)
                 PROVE  /\ state'[u] = "Ready"
                        /\ ~OnCpu(u)'
                        /\ \A ph \in Threads : Carries(ph, u) => ph = th
      BY <2>6, Zenon
    <3>1. /\ state[u] = "Ready"
          /\ \A ph \in Threads : Carries(ph, u) => ph = th
      BY Zenon DEF Places
    <3>2. ~Carries(th, t)
      BY <2>1, <2>10, Zenon DEF Places
    <3>3. u # t
      BY <3>2, Zenon
    <3> QED BY <3>1, <3>3, <2>3, <2>4
  <2>14. \A u \in Tasks : state'[u] = "Ready" =>
           Queued(u)' \/ OnCpu(u)' \/ \E th \in Threads : Carries(th, u)'
    <3>1. \A u \in Tasks : Queued(u) => Queued(u)' \/ u = t
      BY <2>9 DEF Queued
    <3> QED BY <3>1, <2>3, <2>4, <2>6 DEF Places
  <2>15. \A th \in Threads : pc'[th] = "wake_push" => drained'[th] # <<>>
    BY <2>3, <2>5 DEF Places
  <2> QED BY <2>11, <2>12, <2>13, <2>14, <2>15 DEF Places
<1>14. CASE IdleEmpty
  BY <1>14, PlacesLocal DEF IdleEmpty, InTask, At, taskVars, cpuVars, hartVars, localVars
<1>15. CASE IdleWfi
  BY <1>15, PlacesLocal DEF IdleWfi, InTask, At, taskVars, cpuVars, hartVars, localVars
<1>16. CASE IdleMask
  BY <1>16, PlacesLocal, SMTT(30) DEF IdleMask, InTask, At, taskVars, cpuVars, hartVars, localVars
<1>17. CASE IdleInstall
  <2>1. /\ stack = Idle /\ pc[Active] = "idle_install" /\ next \in Tasks
        /\ UNCHANGED <<levels, level, stack, previous, next, drained>>
        /\ Goto("idle_current")
        /\ state' = [state EXCEPT ![next] = "Running"]
    BY <1>17, Where DEF IdleInstall, At, taskVars, cpuVars, hartVars, localVars
  <2>2. \A u \in Tasks : OnCpu(u)' <=> OnCpu(u)
    BY <2>1, Constants DEF OnCpu, Stacks
  <2>3. \A th \in Threads : pc'[th] = "wake_push" <=> pc[th] = "wake_push"
    BY <1>0, <2>1 DEF Goto
  <2>4. /\ \A u \in Tasks : u # next => state'[u] = state[u]
        /\ state'[next] = "Running"
    BY <2>1, SMTT(30) DEF TypeOK
  <2>5. ~Queued(next) /\ \A th \in Threads : ~Carries(th, next)
    BY <2>1, Constants DEF Places, Queued, OnCpu, Stacks
  <2> QED BY <2>1, <2>2, <2>3, <2>4, <2>5, PlacesKept
<1>18. CASE IdleCurrent
  BY <1>18, PlacesLocal, SMTT(30) DEF IdleCurrent, InTask, At, taskVars, cpuVars, hartVars,
     localVars
<1>19. CASE IdleSwitch
  <2>1. /\ stack = Idle /\ pc[Active] = "idle_switch" /\ next \in Tasks /\ ctx[next] = next
        /\ UNCHANGED <<levels, state, level, previous, drained>>
        /\ Goto("idle_previous")
        /\ stack' = next /\ next' = None
    BY <1>19, Where DEF IdleSwitch, At, taskVars, cpuVars, hartVars, localVars
  <2>2. \A u \in Tasks : OnCpu(u)' <=> OnCpu(u)
    BY <2>1, Constants DEF OnCpu, Stacks
  <2>3. \A th \in Threads : pc'[th] = "wake_push" <=> pc[th] = "wake_push"
    BY <1>0, <2>1 DEF Goto
  <2> QED BY <2>1, <2>2, <2>3, PlacesKept
<1>20. CASE OnTimerTick
  <2>1. /\ pc[Active] = "tick" /\ (current = stack \/ current = None)
        /\ UNCHANGED <<levels, state, stack, previous, next, drained>>
        /\ Goto("resched")
        /\ \A u \in Tasks : u # current => level'[u] = level[u]
    <3>1. \A u \in Tasks : u # current => level'[u] = level[u]
      BY <1>20, SMTT(30) DEF OnTimerTick, TypeOK
    <3> QED BY <1>20, <3>1, Where DEF OnTimerTick, At, taskVars, cpuVars, hartVars, localVars
  <2>2. \A u \in Tasks : OnCpu(u)' <=> OnCpu(u)
    BY <2>1, Constants DEF OnCpu, Stacks
  <2>3. \A th \in Threads : pc'[th] = "wake_push" <=> pc[th] = "wake_push"
    BY <1>0, <2>1, SMTT(30) DEF Goto
  <2>4. \A u \in Tasks : Queued(u) => u # current
    BY <2>1, Constants DEF Places, Queued, OnCpu, Stacks
  <2> QED BY <2>1, <2>2, <2>3, <2>4, PlacesKept, Zenon
<1>21. CASE ReschedIfNeeded
  <2>1. Goto("trap_ret") \/ Goto("sw_mask")
    BY <1>21, SMTT(30) DEF ReschedIfNeeded
  <2> QED BY <1>21, <2>1, PlacesLocal DEF ReschedIfNeeded, At, taskVars, cpuVars, hartVars,
             localVars
<1>22. CASE TrapReturn
  <2>1. UNCHANGED <<levels, state, level, stack, previous, next, pc, drained>>
    BY <1>22 DEF TrapReturn, taskVars, cpuVars, hartVars, localVars
  <2>2. \A u \in Tasks : OnCpu(u)' <=> OnCpu(u)
    BY <2>1, Constants DEF OnCpu, Stacks
  <2> QED BY <2>1, <2>2, PlacesKept
<1>23. CASE YieldNow
  BY <1>23, PlacesLocal DEF YieldNow, InTask, At, taskVars, cpuVars, hartVars, localVars
<1>24. CASE ExitCurrent
  BY <1>24, PlacesLocal DEF ExitCurrent, InTask, At, taskVars, cpuVars, hartVars, localVars
<1>25. CASE WfiReturns
  BY <1>25, PlacesLocal DEF WfiReturns, InTask, At, taskVars, cpuVars, hartVars, localVars
<1>26. CASE TimerInterrupt
  <2>1. /\ UNCHANGED <<levels, state, level, stack, previous, next, drained>>
        /\ stack \in Stacks /\ pc[Trap(stack)] = "trap_ret"
        /\ pc' = [pc EXCEPT ![<<stack, "trap">>] = "tick",
                            ![<<stack, "base">>] = IF @ = "idle_wfi" THEN "idle_mask" ELSE @]
    BY <1>26 DEF TimerInterrupt, Interrupt, Control, Trap, taskVars, cpuVars, hartVars, localVars
  <2>2. \A u \in Tasks : OnCpu(u)' <=> OnCpu(u)
    BY <2>1, Constants DEF OnCpu, Stacks
  <2>3. \A th \in Threads : pc'[th] = "wake_push" <=> pc[th] = "wake_push"
    BY <1>0, <2>1 DEF Threads, Trap
  <2> QED BY <2>1, <2>2, <2>3, PlacesKept, Zenon
<1>27. CASE ExternalInterrupt
  <2>1. /\ UNCHANGED <<levels, state, level, stack, previous, next, drained>>
        /\ stack \in Stacks /\ pc[Trap(stack)] = "trap_ret"
        /\ pc' = [pc EXCEPT ![<<stack, "trap">>] = "external",
                            ![<<stack, "base">>] = IF @ = "idle_wfi" THEN "idle_mask" ELSE @]
    BY <1>27 DEF ExternalInterrupt, Interrupt, Control, Trap, taskVars, cpuVars, hartVars,
       localVars
  <2>2. \A u \in Tasks : OnCpu(u)' <=> OnCpu(u)
    BY <2>1, Constants DEF OnCpu, Stacks
  <2>3. \A th \in Threads : pc'[th] = "wake_push" <=> pc[th] = "wake_push"
    BY <1>0, <2>1, SMTT(30) DEF Threads, Trap
  <2> QED BY <2>1, <2>2, <2>3, PlacesKept, Zenon
<1>28. ASSUME NEW q \in Queues, WaitPush(q) PROVE Places'
  BY <1>28, PlacesLocal, SMTT(30) DEF WaitPush, InTask, At, taskVars, cpuVars, hartVars, localVars
<1>29. ASSUME NEW q \in Queues, WakeOne(q) PROVE Places'
  <2>1. /\ UNCHANGED <<levels, state, level, stack, previous, next>>
        /\ pc[Active] = "run" /\ Goto("wake")
        /\ drained' = [drained EXCEPT ![Active] = <<Head(waiters[q])>>]
    BY <1>29 DEF WakeOne, InTask, At, taskVars, cpuVars, hartVars, localVars
  <2>2. DOMAIN drained = Threads
    BY DEF TypeOK
  <2>3. \A th \in Threads : th # Active => drained'[th] = drained[th]
    BY <2>1, <2>2, Zenon
  <2> QED BY <2>1, <2>3, PlacesLocal, Zenon
<1>30. ASSUME NEW q \in Queues, WakeAll(q) PROVE Places'
  <2>1. /\ UNCHANGED <<levels, state, level, stack, previous, next>>
        /\ pc[Active] = "run" /\ Goto("wake")
        /\ drained' = [drained EXCEPT ![Active] = waiters[q]]
    BY <1>30 DEF WakeAll, Drain, InTask, At, taskVars, cpuVars, hartVars, localVars
  <2>2. DOMAIN drained = Threads
    BY DEF TypeOK
  <2>3. \A th \in Threads : th # Active => drained'[th] = drained[th]
    BY <2>1, <2>2, Zenon
  <2> QED BY <2>1, <2>3, PlacesLocal, Zenon
<1>31. ASSUME NEW q \in Queues, OnExternal(q) PROVE Places'
  <2>1. /\ UNCHANGED <<levels, state, level, stack, previous, next>>
        /\ pc[Active] = "external" /\ Goto("wake")
        /\ drained' = [drained EXCEPT ![Active] = waiters[q]]
    BY <1>31 DEF OnExternal, Drain, InTask, At, taskVars, cpuVars, hartVars, localVars
  <2>2. DOMAIN drained = Threads
    BY DEF TypeOK
  <2>3. \A th \in Threads : th # Active => drained'[th] = drained[th]
    BY <2>1, <2>2, Zenon
  <2> QED BY <2>1, <2>3, PlacesLocal, Zenon
<1>32. ASSUME NEW t \in Tasks, Spawn(t) PROVE Places'
  <2>1. /\ state[t] = "Unborn"
        /\ state' = [state EXCEPT ![t] = "Ready"]
        /\ level' = [level EXCEPT ![t] = 0]
        /\ levels' = Push(t, 0)
        /\ UNCHANGED <<stack, previous, next, pc, drained>>
        /\ pc[Active] = "run" /\ stack \in Tasks
    BY <1>32 DEF Spawn, InTask, At, taskVars, cpuVars, hartVars, localVars
  <2>2. /\ 0 \in Levels /\ level'[t] = 0 /\ state'[t] = "Ready"
        /\ \A u \in Tasks : u # t => state'[u] = state[u] /\ level'[u] = level[u]
    BY <2>1, Constants DEF TypeOK, Levels
  <2>3. \A u \in Tasks : OnCpu(u)' <=> OnCpu(u)
    BY <2>1, Constants DEF OnCpu, Stacks
  <2>4. \A u \in Tasks, th \in Threads : Carries(th, u)' <=> Carries(th, u)
    BY <2>1, SMTT(30) DEF Carries
  <2>5. ~Queued(t) /\ \A th \in Threads : ~Carries(th, t)
    BY <2>1 DEF Places, Queued
  <2>6. ~OnCpu(t)
    BY <2>1, Where, Constants, SMTT(30) DEF OnCpu, Stacks
  <2>7. \A th \in Threads : pc'[th] = "wake_push" => drained'[th] # <<>>
    BY <2>1, SMTT(30) DEF Places
  <2> QED BY <2>1, <2>2, <2>3, <2>4, <2>5, <2>6, <2>7, PlacesPush
<1>33. CASE UNCHANGED vars
  BY <1>33, Constants DEF vars, Places, InLevel, Queued, Carries, OnCpu, taskVars, cpuVars,
     hartVars, localVars, Stacks
<1> QED
  BY <1>1, <1>2, <1>3, <1>4, <1>5, <1>6, <1>7, <1>8, <1>9, <1>10, <1>11, <1>12, <1>13, <1>14,
     <1>15, <1>16, <1>17, <1>18, <1>19, <1>20, <1>21, <1>22, <1>23, <1>24, <1>25, <1>26, <1>27,
     <1>28, <1>29, <1>30, <1>31, <1>32, <1>33 DEF Next, KernelStep, TaskStep

------------------------------------------------------------------------------
(* The invariant, and what follows from it.                                   *)

\* The state in which the first task begins satisfies the invariant.
LEMMA InitIInv == Init => IInv
<1> SUFFICES ASSUME Init PROVE IInv
  OBVIOUS
<1> USE Constants
<1>1. TypeOK
  <2>1. /\ 0 \in Levels /\ 0 \in 0 .. QUANTA_PER_LEVEL - 1
        /\ <<>> \in Seq(Tasks)
    BY DEF Levels
  <2>2. pc \in [Threads -> KernelLabels]
    BY DEF Init, EntryPc, KernelLabels
  <2> QED BY <2>1, <2>2 DEF Init, Boot, TypeOK, TaskStates, Stacks
<1>2. /\ stack = First /\ First \in Stacks /\ current = First
      /\ trapped[First] = FALSE /\ Active = Base(First)
  BY DEF Init, Boot, Stacks, Active, Base
<1>3. /\ \A s \in Stacks : pc[Trap(s)] = "trap_ret"
      /\ \A t \in Tasks : pc[Base(t)] = "entry"
      /\ pc[Base(Idle)] = "idle_previous"
  BY Zenon DEF Init, EntryPc, Threads, Stacks, Trap, Base
<1>4. Control
  BY <1>2, <1>3, Zenon DEF Control, Init, Boot, Stacks, TaskBase, IdleBase, OpenTask
<1>5. Cpus
  <2>1. \A s \in Stacks : Trap(s) \in Threads
    BY DEF Trap, Threads
  <2> QED BY <1>2, <1>3, <2>1 DEF Cpus, Init, Boot, Stacks
<1>6. States
  BY <1>2, <1>3, SMTT(30) DEF States, Init, Boot, Stacks
<1>7. Places
  <2>1. \A th \in Threads : pc[th] # "wake_push"
    BY DEF Init, EntryPc
  <2>2. \A l \in Levels : levels[l] = <<>>
    BY DEF Init
  <2>3. \A t \in Tasks, l \in Levels : ~InLevel(t, l)
    BY <2>2 DEF InLevel
  <2>4. \A t \in Tasks : state[t] # "Ready"
    BY Zenon DEF Init
  <2>5. \A l \in Levels : \A i, j \in 1 .. Len(levels[l]) : levels[l][i] = levels[l][j] => i = j
    BY <2>2
  <2> QED BY <2>1, <2>3, <2>4, <2>5 DEF Places, Carries
<1> QED BY <1>1, <1>4, <1>5, <1>6, <1>7 DEF IInv

\* The conjunction is an invariant of the scheduler.
THEOREM Invariance == Spec => []IInv
<1>1. IInv /\ [Next]_vars => IInv'
  BY TypeStep, ControlStep, CpusStep, StatesStep, PlacesStep DEF IInv
<1> QED BY InitIInv, <1>1, PTL DEF Spec

\* Every variable keeps its type: in particular a level stays a level under
\* demotion and promotion, and ticks below the quantum.
THEOREM TypeCorrect == Spec => []TypeOK
<1>1. IInv => TypeOK
  BY SMTT(30) DEF IInv
<1> QED BY Invariance, <1>1, PTL

\* A queued task is off its stack, for any tasks, queues and levels.
THEOREM SwitchedOff == Spec => []SwitchedOffBeforeQueued
<1>1. IInv => SwitchedOffBeforeQueued
  <2> SUFFICES ASSUME TypeOK, Control, Cpus, Places, NEW t \in Tasks, NEW l \in Levels, InLevel(t, l)
               PROVE  stack # t /\ current # t /\ ctx[t] = t
    BY SMTT(30) DEF IInv, SwitchedOffBeforeQueued, Queued
  <2>1. stack # t /\ next # t
    BY DEF Places, OnCpu
  <2>2. current \in {stack, next, None}
    BY Constants, Zenon DEF Cpus, Control, Stacks
  <2> QED BY <2>1, <2>2, Constants DEF Control, Stacks
<1> QED BY Invariance, <1>1, PTL

\* The run queue holds a Ready task once, in the queue of its level.
THEOREM QueuedAtMostOnce == Spec => []QueuedOnce
<1>1. IInv => QueuedOnce
  <2> SUFFICES ASSUME TypeOK, Places PROVE QueuedOnce
    BY SMTT(30) DEF IInv
  <2>1. ASSUME NEW t \in Tasks, NEW k \in Levels, NEW l \in Levels,
               NEW i \in 1 .. Len(levels[k]), NEW j \in 1 .. Len(levels[l]),
               levels[k][i] = t, levels[l][j] = t
        PROVE  k = l /\ i = j
    <3>1. level[t] = k /\ level[t] = l
      BY <2>1 DEF Places, InLevel
    <3> QED BY <2>1, <3>1, SMTT(30) DEF Places
  <2>2. ASSUME NEW l \in Levels, NEW i \in 1 .. Len(levels[l])
        PROVE  state[levels[l][i]] = "Ready" /\ level[levels[l][i]] = l
    <3>1. levels[l] \in Seq(Tasks)
      BY DEF TypeOK
    <3>2. levels[l][i] \in Tasks /\ InLevel(levels[l][i], l)
      BY <3>1, SMTT(30) DEF InLevel
    <3> QED BY <3>2, Zenon DEF Places
  <2> QED BY <2>1, <2>2 DEF QueuedOnce
<1> QED BY Invariance, <1>1, PTL

\* A Ready task is in the run queue or in the hands of code that will queue or
\* run it.
THEOREM NothingLost == Spec => []RunnableNotLost
<1>1. IInv => RunnableNotLost
  BY DEF IInv, Places, RunnableNotLost, InTransit, Carries, OnCpu
<1> QED BY Invariance, <1>1, PTL

\* current_task() is right wherever it may be called, and nobody resumes a zombie.
THEOREM CurrentTask == Spec => []CurrentIsCaller
<1>1. IInv => CurrentIsCaller
  <2> SUFFICES ASSUME TypeOK, Control, Cpus PROVE CurrentIsCaller
    BY DEF IInv
  <2>1. stack \in Tasks => pc[Active] # "unreachable"
    BY Zenon DEF Control, Active, Base, Trap, TaskBase, TaskTrap, OpenTask, Switching, IdleTrap,
       Stacks, TypeOK
  <2>2. stack = Idle /\ current # None => At("idle_switch")
    <3> SUFFICES ASSUME stack = Idle, current # None PROVE At("idle_switch")
      OBVIOUS
    <3>1. pc[Base(Idle)] = "idle_switch"
      BY SMTT(30) DEF Cpus
    <3>2. ~trapped[Idle]
      BY <3>1 DEF Control, OpenIdle
    <3> QED BY <3>1, <3>2, Constants DEF At, Active, Base, Stacks
  <2> QED BY <2>1, <2>2 DEF Cpus, CurrentIsCaller
<1> QED BY Invariance, <1>1, PTL

\* No interrupt is taken between the mask of switch_to_idle and the end of the
\* idle loop's part of the switch.
THEOREM Masked == Spec => []MaskedWhileSwitching
<1>1. IInv => MaskedWhileSwitching
  <2> SUFFICES ASSUME TypeOK, Control PROVE MaskedWhileSwitching
    BY SMTT(30) DEF IInv
  <2>1. ASSUME intr PROVE ~(At("sw_take") \/ At("sw_state") \/ At("sw_prev") \/ At("sw_ctx"))
    BY <2>1, SMTT(30) DEF At, Active, Base, Control, OpenTask, OpenIdle
  <2>2. ASSUME NEW s \in Stacks, trapped[s]
        PROVE  pc[<<s, "base">>] \notin {"sw_take", "sw_state", "sw_prev", "sw_ctx",
                 "idle_previous", "idle_pop", "idle_install", "idle_current", "idle_switch"}
    BY <2>2 DEF Control, Base, Stacks, OpenTask, OpenIdle
  <2> QED BY <2>1, <2>2 DEF MaskedWhileSwitching
<1> QED BY Invariance, <1>1, PTL

=============================================================================
