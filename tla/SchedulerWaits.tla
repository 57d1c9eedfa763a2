--------------------------- MODULE SchedulerWaits ---------------------------
(***************************************************************************)
(* Proofs about blocking and waking in Scheduler, for any tasks, wait      *)
(* queues and levels: no sleeper is out of reach, no wakeup is stale, and  *)
(* the scheduler implements Parking.                                       *)
(*                                                                         *)
(* A task inside WaitQueue::wait is undecided until the TaskInner section  *)
(* of switch_to_idle and decided after it.  While undecided it is held by  *)
(* exactly one of its queue entry, a waker and its note; once decided it   *)
(* is held exactly while it is Blocked, whatever traps, ticks and switches *)
(* fall in between.                                                        *)
(***************************************************************************)
EXTENDS SchedulerProofs

Before == {"sw_mask", "sw_take", "sw_state"}
After  == {"sw_prev", "sw_ctx", "sw_resumed"}

\* t is in wait(), and block_current has not / has looked at its note.
Undecided(t) == pc[Base(t)] \in Before /\ want[Base(t)] = "Blocked"
Decided(t)   == pc[Base(t)] = "unqueue" \/ (pc[Base(t)] \in After /\ want[Base(t)] = "Blocked")

\* The waiters th has drained and still has to wake; at wake_push the first of them
\* has been made Ready already.
Owes(th) == IF pc[th] = "wake_push" THEN Tail(drained[th]) ELSE drained[th]

Listed(t) == \E q \in Queues : Contains(waiters[q], t)
Drained(t) == \E th \in Threads : Contains(Owes(th), t)
Held(t) == Listed(t) \/ Drained(t)

Distinct(s) == \A i, j \in 1 .. Len(s) : s[i] = s[j] => i = j

\* Only the base code of a task waits, and only waking code has drained a queue.
Locals ==
  /\ \A s \in Stacks : want[Trap(s)] = "Ready"
  /\ \A th \in Threads : pc[th] \notin {"wake", "wake_push"} => drained[th] = <<>>
  /\ \A t \in Tasks : waiting_on[t] # None <=> Undecided(t) \/ Decided(t)
  /\ \A t \in Tasks : state[t] = "Unborn" => waiting_on[t] = None

\* Who has an entry, and whom a waker has drained.
Holders ==
  /\ \A q \in Queues : Distinct(waiters[q])
  /\ \A q \in Queues, t \in Tasks : Contains(waiters[q], t) => waiting_on[t] = q
  /\ \A th \in Threads : Distinct(Owes(th))
  /\ \A th \in Threads, t \in Tasks : Contains(Owes(th), t) =>
       /\ waiting_on[t] # None
       /\ ~Listed(t)
       /\ \A ph \in Threads : Contains(Owes(ph), t) => ph = th

\* What holds a task at each stage of its wait.
Stages ==
  /\ \A t \in Tasks : wakeup_pending[t] => Undecided(t) /\ ~Held(t)
  /\ \A t \in Tasks : Undecided(t) => Held(t) \/ wakeup_pending[t]
  /\ \A t \in Tasks : state[t] = "Blocked" => Decided(t)
  /\ \A t \in Tasks : Decided(t) => (Held(t) <=> state[t] = "Blocked")

Waits == Locals /\ Holders /\ Stages

------------------------------------------------------------------------------
(* Sequences without duplicates                                               *)

\* push_back adds the task; it is a new entry if the task had none.
LEMMA AppendEntry ==
  ASSUME NEW s \in Seq(Tasks), NEW t \in Tasks
  PROVE  /\ \A u \in Tasks : Contains(Append(s, t), u) <=> Contains(s, u) \/ u = t
         /\ Distinct(s) /\ ~Contains(s, t) => Distinct(Append(s, t))
<1>1. /\ Len(Append(s, t)) = Len(s) + 1
      /\ \A i \in 1 .. Len(s) : Append(s, t)[i] = s[i]
      /\ Append(s, t)[Len(s) + 1] = t
      /\ Len(s) \in Nat
  BY AppendProperties, LenProperties
<1> QED BY <1>1 DEF Contains, Distinct

\* pop_front takes the first entry, the task's only one.
LEMMA PopEntry ==
  ASSUME NEW s \in Seq(Tasks), s # <<>>, Distinct(s)
  PROVE  /\ Head(s) \in Tasks
         /\ Contains(s, Head(s))
         /\ \A u \in Tasks : Contains(Tail(s), u) <=> Contains(s, u) /\ u # Head(s)
         /\ Distinct(Tail(s))
<1>1. /\ Head(s) = s[1]
      /\ Len(Tail(s)) = Len(s) - 1
      /\ \A i \in 1 .. Len(Tail(s)) : Tail(s)[i] = s[i + 1]
      /\ Len(s) \in Nat \ {0}
  BY HeadTailProperties, EmptySeq, LenProperties
<1>2. s[1] \in Tasks /\ 1 \in 1 .. Len(s)
  BY <1>1, ElementOfSeq
<1>3. ASSUME NEW u \in Tasks
      PROVE  Contains(Tail(s), u) <=> Contains(s, u) /\ u # Head(s)
  <2>1. ASSUME Contains(Tail(s), u) PROVE Contains(s, u) /\ u # Head(s)
    <3>1. PICK i \in 1 .. Len(Tail(s)) : Tail(s)[i] = u
      BY <2>1 DEF Contains
    <3>2. i + 1 \in 1 .. Len(s) /\ s[i + 1] = u /\ i + 1 # 1
      BY <1>1, <3>1
    <3> QED BY <1>1, <1>2, <3>2 DEF Contains, Distinct
  <2>2. ASSUME Contains(s, u), u # Head(s) PROVE Contains(Tail(s), u)
    <3>1. PICK i \in 1 .. Len(s) : s[i] = u
      BY <2>2 DEF Contains
    <3>2. i - 1 \in 1 .. Len(Tail(s)) /\ Tail(s)[i - 1] = u
      BY <1>1, <2>2, <3>1
    <3> QED BY <3>2 DEF Contains
  <2> QED BY <2>1, <2>2
<1>4. Distinct(Tail(s))
  BY <1>1 DEF Distinct
<1> QED BY <1>1, <1>2, <1>3, <1>4 DEF Contains

\* The empty queue, and the queue of one.
LEMMA SmallSeqs ==
  /\ \A u \in Tasks : ~Contains(<<>>, u)
  /\ Distinct(<<>>)
  /\ \A t \in Tasks : Distinct(<<t>>) /\ \A u \in Tasks : Contains(<<t>>, u) <=> u = t
<1>1. Len(<<>>) = 0 /\ 1 .. 0 = {}
  BY EmptySeq
<1>2. ASSUME NEW t \in Tasks PROVE Len(<<t>>) = 1 /\ <<t>>[1] = t
  OBVIOUS
<1>3. 1 .. 1 = {1}
  OBVIOUS
<1>4. (\A u \in Tasks : ~Contains(<<>>, u)) /\ Distinct(<<>>)
  BY <1>1, Zenon DEF Contains, Distinct
<1>5. ASSUME NEW t \in Tasks
      PROVE  Distinct(<<t>>) /\ \A u \in Tasks : Contains(<<t>>, u) <=> u = t
  BY <1>2, <1>3, Zenon DEF Contains, Distinct
<1> QED BY <1>4, <1>5

------------------------------------------------------------------------------
(* Steps that leave the waits alone                                           *)

\* A step that touches no queue, note or sleeper and moves nobody in or out of a wait,
\* or past the decision.
LEMMA WaitsKept ==
  ASSUME Waits, UNCHANGED <<waiters, wakeup_pending, waiting_on>>,
         \A th \in Threads : Owes(th)' = Owes(th),
         \A th \in Threads : pc'[th] \notin {"wake", "wake_push"} => drained'[th] = <<>>,
         \A t \in Tasks : state'[t] = "Blocked" <=> state[t] = "Blocked",
         \A t \in Tasks : state'[t] = "Unborn" => state[t] = "Unborn",
         \A t \in Tasks : (Undecided(t)' <=> Undecided(t)) /\ (Decided(t)' <=> Decided(t)),
         \A s \in Stacks : want'[Trap(s)] = "Ready"
  PROVE  Waits'
<1>1. \A t \in Tasks : (Listed(t)' <=> Listed(t)) /\ (Held(t)' <=> Held(t))
  BY DEF Listed, Drained, Held
<1>2. Locals'
  BY DEF Waits, Locals
<1>3. Holders'
  BY <1>1 DEF Waits, Holders
<1>4. Stages'
  BY <1>1 DEF Waits, Stages
<1> QED BY <1>2, <1>3, <1>4 DEF Waits

\* A step of the hart's code between two labels on the same side of every line drawn
\* above.
LEMMA WaitsLocal ==
  ASSUME TypeOK, Waits, Active \in Threads, NEW label, Goto(label),
         UNCHANGED <<waiters, drained, wakeup_pending, waiting_on, want>>,
         pc[Active] # "wake_push", label \notin {"wake", "wake_push"},
         pc[Active] = "wake" => drained[Active] = <<>>,
         pc[Active] \in Before <=> label \in Before,
         pc[Active] \in After <=> label \in After,
         pc[Active] # "unqueue", label # "unqueue",
         \A t \in Tasks : state'[t] = "Blocked" <=> state[t] = "Blocked",
         \A t \in Tasks : state'[t] = "Unborn" => state[t] = "Unborn"
  PROVE  Waits'
<1>1. \A th \in Threads : pc'[th] = IF th = Active THEN label ELSE pc[th]
  BY DEF Goto, TypeOK
<1>2. \A t \in Tasks : Base(t) \in Threads
  BY DEF Base, Threads, Stacks
<1>3. \A t \in Tasks : (Undecided(t)' <=> Undecided(t)) /\ (Decided(t)' <=> Decided(t))
  BY <1>1, <1>2 DEF Undecided, Decided
<1>4. \A th \in Threads : pc'[th] \notin {"wake", "wake_push"} => drained'[th] = <<>>
  BY <1>1 DEF Waits, Locals
<1>5. \A th \in Threads : Owes(th)' = Owes(th)
  BY <1>1 DEF Owes
<1>6. \A s \in Stacks : want'[Trap(s)] = "Ready"
  BY DEF Waits, Locals
<1> QED BY <1>3, <1>4, <1>5, <1>6, WaitsKept

------------------------------------------------------------------------------
(* The steps of waiting and waking                                            *)

\* Whose code the hart is executing, by its label.
LEMMA WhoseCode ==
  ASSUME TypeOK, Control, Cpus, States
  PROVE  /\ pc[Active] \in {"entry", "run", "unqueue"} =>
              stack \in Tasks /\ Active = Base(stack) /\ state[stack] = "Running"
         /\ pc[Active] \in {"tick", "external", "resched", "trap_ret"} => Active = Trap(stack)
         /\ stack = Idle => pc[Active] \notin Before \cup After
         /\ stack \in Stacks
         /\ Active \in {Base(stack), Trap(stack)}
<1> USE Constants DEF Stacks, Threads, OpenTask, OpenIdle, Switching, TaskBase, IdleBase,
                      IdleTrap, TaskTrap, Base, Trap, Before, After
<1>1. CASE stack \in Tasks
  BY <1>1, Zenon DEF Active, Control, Cpus, States
<1>2. CASE stack = Idle
  BY <1>2 DEF Active, Control, Cpus, States
<1> QED BY <1>1, <1>2 DEF Control

\* wait's push_back: the task is undecided and held by its entry.
LEMMA WaitPushWaits ==
  ASSUME TypeOK, Control, Cpus, States, Waits, NEW q \in Queues, WaitPush(q)
  PROVE  Waits'
<1>0. /\ stack \in Tasks /\ Active = Base(stack) /\ Active \in Threads
      /\ pc[Active] = "run" /\ state[stack] = "Running"
  BY WhoseCode, Where DEF WaitPush, InTask, At
<1>1. /\ \A th \in Threads : pc'[th] = IF th = Active THEN "sw_mask" ELSE pc[th]
      /\ \A th \in Threads : want'[th] = IF th = Active THEN "Blocked" ELSE want[th]
      /\ \A t \in Tasks : waiting_on'[t] = IF t = stack THEN q ELSE waiting_on[t]
      /\ \A r \in Queues : waiters'[r] = IF r = q THEN Append(waiters[q], stack) ELSE waiters[r]
  BY DEF WaitPush, Goto, TypeOK
<1>2. state' = state /\ wakeup_pending' = wakeup_pending /\ drained' = drained
  BY DEF WaitPush, taskVars
<1>3. /\ \A t \in Tasks : Base(t) \in Threads /\ (Base(t) = Active <=> t = stack)
      /\ \A s \in Stacks : Trap(s) \in Threads /\ Trap(s) # Active
  BY <1>0 DEF Base, Trap, Threads, Stacks
<1>4. \A t \in Tasks : /\ Undecided(t)' <=> Undecided(t) \/ t = stack
                       /\ Decided(t)' <=> Decided(t)
  BY <1>0, <1>1, <1>3 DEF Undecided, Decided, Before, After
<1>5. \A th \in Threads : Owes(th)' = Owes(th)
  BY <1>0, <1>1, <1>2 DEF Owes
<1>6. \A r \in Queues, t \in Tasks :
        Contains(waiters'[r], t) <=> Contains(waiters[r], t) \/ (r = q /\ t = stack)
  <2>1. \A t \in Tasks : Contains(Append(waiters[q], stack), t) <=> Contains(waiters[q], t) \/ t = stack
    BY <1>0, AppendEntry DEF TypeOK
  <2> QED BY <1>1, <2>1
<1>7. /\ ~Undecided(stack) /\ ~Decided(stack)
      /\ waiting_on[stack] = None
      /\ ~Held(stack)
      /\ ~wakeup_pending[stack]
  <2>1. ~Undecided(stack) /\ ~Decided(stack)
    BY <1>0 DEF Undecided, Decided, Before, After
  <2>2. waiting_on[stack] = None
    BY <1>0, <2>1 DEF Waits, Locals
  <2>3. ~Held(stack)
    BY <1>0, <2>2, Constants DEF Held, Listed, Drained, Waits, Holders
  <2> QED BY <1>0, <2>1, <2>2, <2>3 DEF Waits, Stages
<1>8. \A t \in Tasks : /\ Listed(t)' <=> Listed(t) \/ t = stack
                       /\ Held(t)' <=> Held(t) \/ t = stack
  BY <1>5, <1>6 DEF Listed, Drained, Held
<1>9. Locals'
  BY <1>0, <1>1, <1>2, <1>3, <1>4, Constants DEF Waits, Locals
<1>10. Holders'
  <2>1. \A r \in Queues : Distinct(waiters'[r])
    <3>1. waiters[q] \in Seq(Tasks) /\ Distinct(waiters[q]) /\ ~Contains(waiters[q], stack)
      BY <1>7 DEF TypeOK, Waits, Holders, Held, Listed
    <3>2. Distinct(Append(waiters[q], stack))
      BY <1>0, <3>1, AppendEntry
    <3> QED BY <1>1, <3>2 DEF Waits, Holders
  <2>2. \A r \in Queues, t \in Tasks : Contains(waiters'[r], t) => waiting_on'[t] = r
    BY <1>1, <1>6, <1>7 DEF Waits, Holders, Held, Listed
  <2>3. \A th \in Threads, t \in Tasks : Contains(Owes(th), t) => t # stack
    BY <1>7 DEF Held, Drained
  <2> QED BY <1>1, <1>5, <1>8, <2>1, <2>2, <2>3 DEF Waits, Holders
<1>11. Stages'
  BY <1>0, <1>2, <1>4, <1>7, <1>8 DEF Waits, Stages
<1> QED BY <1>9, <1>10, <1>11 DEF Waits

\* wait's way out: a task that is awake has no entry left, so retain removes nothing.
LEMMA WaitUnqueueWaits ==
  ASSUME TypeOK, Control, Cpus, States, Waits, WaitUnqueue
  PROVE  Waits' /\ UNCHANGED waiters
<1>0. /\ stack \in Tasks /\ Active = Base(stack) /\ Active \in Threads
      /\ pc[Active] = "unqueue" /\ state[stack] = "Running"
  BY WhoseCode, Where DEF WaitUnqueue, At
<1>1. /\ \A th \in Threads : pc'[th] = IF th = Active THEN "run" ELSE pc[th]
      /\ \A t \in Tasks : waiting_on'[t] = IF t = stack THEN None ELSE waiting_on[t]
  BY DEF WaitUnqueue, Goto, TypeOK
<1>2. UNCHANGED <<state, wakeup_pending, drained, want>>
  BY DEF WaitUnqueue, taskVars
<1>3. \A t \in Tasks : Base(t) \in Threads /\ (Base(t) = Active <=> t = stack)
  BY <1>0 DEF Base, Threads, Stacks
<1>4. Decided(stack) /\ ~Undecided(stack) /\ ~Held(stack)
  BY <1>0 DEF Decided, Undecided, Before, Waits, Stages
<1>5. waiters' = waiters
  <2>1. waiting_on[stack] \in Queues
    BY <1>0, <1>4 DEF Waits, Locals, TypeOK
  <2>2. ~Contains(waiters[waiting_on[stack]], stack)
    BY <1>4, <2>1 DEF Held, Listed
  <2> QED BY <2>2 DEF WaitUnqueue, Contains
<1>6. \A t \in Tasks : /\ Undecided(t)' <=> Undecided(t)
                       /\ Decided(t)' <=> Decided(t) /\ t # stack
  BY <1>0, <1>1, <1>2, <1>3 DEF Undecided, Decided, Before, After
<1>7. \A th \in Threads : Owes(th)' = Owes(th)
  BY <1>0, <1>1, <1>2 DEF Owes
<1>8. \A t \in Tasks : (Listed(t)' <=> Listed(t)) /\ (Held(t)' <=> Held(t))
  BY <1>5, <1>7 DEF Listed, Drained, Held
<1>9. Locals'
  BY <1>0, <1>1, <1>2, <1>4, <1>6, Constants DEF Waits, Locals
<1>10. Holders'
  <2>1. \A t \in Tasks : Held(t) => t # stack
    BY <1>4
  <2> QED BY <1>1, <1>5, <1>7, <1>8, <2>1 DEF Waits, Holders, Held, Listed, Drained
<1>11. Stages'
  BY <1>0, <1>2, <1>4, <1>6, <1>8 DEF Waits, Stages
<1> QED BY <1>5, <1>9, <1>10, <1>11 DEF Waits

\* wake_one, wake_all and a device handler take d off a queue and leave r: what the
\* entries of d held, the waker now owes.
LEMMA TakeWaits ==
  ASSUME TypeOK, Waits, Active \in Threads, pc[Active] \in {"run", "external"}, Goto("wake"),
         NEW q \in Queues, NEW d, NEW r,
         drained' = [drained EXCEPT ![Active] = d],
         waiters' = [waiters EXCEPT ![q] = r],
         Distinct(d), Distinct(r),
         \A t \in Tasks : Contains(waiters[q], t) <=> Contains(d, t) \/ Contains(r, t),
         \A t \in Tasks : ~(Contains(d, t) /\ Contains(r, t)),
         UNCHANGED <<state, wakeup_pending, waiting_on, want>>
  PROVE  Waits'
<1>1. /\ \A th \in Threads : pc'[th] = IF th = Active THEN "wake" ELSE pc[th]
      /\ \A th \in Threads : drained'[th] = IF th = Active THEN d ELSE drained[th]
      /\ \A k \in Queues : waiters'[k] = IF k = q THEN r ELSE waiters[k]
  BY DEF Goto, TypeOK
<1>2. \A t \in Tasks : Base(t) \in Threads
  BY DEF Base, Threads, Stacks
<1>3. \A t \in Tasks : (Undecided(t)' <=> Undecided(t)) /\ (Decided(t)' <=> Decided(t))
  BY <1>1, <1>2 DEF Undecided, Decided, Before, After
<1>4. Owes(Active) = <<>> /\ \A th \in Threads : Owes(th)' = IF th = Active THEN d ELSE Owes(th)
  BY <1>1 DEF Owes, Waits, Locals
<1>5. \A t \in Tasks : ~Contains(Owes(Active), t)
  BY <1>4, SmallSeqs
<1>6. \A t \in Tasks : Contains(d, t) => Listed(t) /\ waiting_on[t] = q /\ ~Listed(t)'
  <2> SUFFICES ASSUME NEW t \in Tasks, Contains(d, t)
               PROVE  Listed(t) /\ waiting_on[t] = q /\ ~Listed(t)'
    OBVIOUS
  <2>1. Contains(waiters[q], t) /\ ~Contains(r, t)
    OBVIOUS
  <2>2. Listed(t) /\ waiting_on[t] = q
    BY <2>1 DEF Listed, Waits, Holders
  <2>3. \A k \in Queues : k # q => ~Contains(waiters[k], t)
    BY <2>2 DEF Waits, Holders
  <2> QED BY <1>1, <2>1, <2>2, <2>3 DEF Listed
<1>7. \A t \in Tasks : ~Contains(d, t) => (Listed(t)' <=> Listed(t))
  BY <1>1 DEF Listed
<1>8. \A t \in Tasks : Held(t)' <=> Held(t)
  <2> SUFFICES ASSUME NEW t \in Tasks PROVE Held(t)' <=> Held(t)
    OBVIOUS
  <2>1. CASE Contains(d, t)
    BY <1>4, <1>6, <2>1 DEF Held, Drained
  <2>2. CASE ~Contains(d, t)
    <3>1. Drained(t)' <=> Drained(t)
      BY <1>4, <1>5, <2>2 DEF Drained
    <3> QED BY <1>7, <2>2, <3>1 DEF Held
  <2> QED BY <2>1, <2>2
<1>9. Locals'
  BY <1>1, <1>3 DEF Waits, Locals
<1>10. Holders'
  <2>1. \A k \in Queues : Distinct(waiters'[k])
    BY <1>1 DEF Waits, Holders
  <2>2. \A k \in Queues, t \in Tasks : Contains(waiters'[k], t) => waiting_on'[t] = k
    BY <1>1 DEF Waits, Holders
  <2>3. \A th \in Threads : Distinct(Owes(th)')
    BY <1>4 DEF Waits, Holders
  <2>4. ASSUME NEW th \in Threads, NEW t \in Tasks, Contains(Owes(th)', t)
        PROVE  /\ waiting_on'[t] # None
               /\ ~Listed(t)'
               /\ \A ph \in Threads : Contains(Owes(ph)', t) => ph = th
    <3>1. CASE Contains(d, t)
      <4>1. Listed(t) /\ waiting_on[t] = q /\ ~Listed(t)'
        BY <1>6, <3>1
      <4>2. \A ph \in Threads : ~Contains(Owes(ph), t)
        BY <4>1 DEF Waits, Holders
      <4> QED BY <1>4, <2>4, <4>1, <4>2, Constants
    <3>2. CASE ~Contains(d, t)
      <4>1. Contains(Owes(th), t) /\ th # Active
        BY <1>4, <2>4, <3>2
      <4>2. waiting_on[t] # None /\ ~Listed(t) /\ \A ph \in Threads : Contains(Owes(ph), t) => ph = th
        BY <4>1 DEF Waits, Holders
      <4> QED BY <1>4, <1>7, <3>2, <4>2
    <3> QED BY <3>1, <3>2
  <2> QED BY <2>1, <2>2, <2>3, <2>4 DEF Holders
<1>11. Stages'
  BY <1>3, <1>8 DEF Waits, Stages
<1> QED BY <1>9, <1>10, <1>11 DEF Waits

\* wake_one takes the first entry.
LEMMA WakeOneWaits ==
  ASSUME TypeOK, Control, Cpus, States, Waits, NEW q \in Queues, WakeOne(q)
  PROVE  Waits'
<1>1. waiters[q] \in Seq(Tasks) /\ waiters[q] # <<>> /\ Distinct(waiters[q])
  BY DEF WakeOne, TypeOK, Waits, Holders
<1>2. /\ Head(waiters[q]) \in Tasks
      /\ Contains(waiters[q], Head(waiters[q]))
      /\ \A t \in Tasks : Contains(Tail(waiters[q]), t) <=> Contains(waiters[q], t) /\ t # Head(waiters[q])
      /\ Distinct(Tail(waiters[q]))
  BY <1>1, PopEntry
<1>3. /\ Distinct(<<Head(waiters[q])>>)
      /\ \A t \in Tasks : Contains(<<Head(waiters[q])>>, t) <=> t = Head(waiters[q])
  BY <1>2, SmallSeqs
<1>4. /\ drained' = [drained EXCEPT ![Active] = <<Head(waiters[q])>>]
      /\ waiters' = [waiters EXCEPT ![q] = Tail(waiters[q])]
      /\ Goto("wake") /\ pc[Active] = "run"
      /\ UNCHANGED <<state, wakeup_pending, waiting_on, want>>
      /\ Active \in Threads
  BY Where DEF WakeOne, InTask, At, taskVars
<1>5. \A t \in Tasks : Contains(waiters[q], t) <=>
                         Contains(<<Head(waiters[q])>>, t) \/ Contains(Tail(waiters[q]), t)
  BY <1>2, <1>3
<1>6. \A t \in Tasks : ~(Contains(<<Head(waiters[q])>>, t) /\ Contains(Tail(waiters[q]), t))
  BY <1>2, <1>3
<1> QED BY <1>2, <1>3, <1>4, <1>5, <1>6, TakeWaits

\* wake_all and a device handler take all of them.
LEMMA DrainWaits ==
  ASSUME TypeOK, Control, Cpus, States, Waits, NEW q \in Queues, WakeAll(q) \/ OnExternal(q)
  PROVE  Waits'
<1>1. Distinct(waiters[q])
  BY DEF Waits, Holders
<1>2. /\ drained' = [drained EXCEPT ![Active] = waiters[q]]
      /\ waiters' = [waiters EXCEPT ![q] = <<>>]
      /\ Goto("wake") /\ pc[Active] \in {"run", "external"}
      /\ UNCHANGED <<state, wakeup_pending, waiting_on, want>>
      /\ Active \in Threads
  BY Where DEF WakeAll, OnExternal, Drain, InTask, At, taskVars
<1>3. /\ Distinct(<<>>)
      /\ \A t \in Tasks : Contains(waiters[q], t) <=> Contains(waiters[q], t) \/ Contains(<<>>, t)
      /\ \A t \in Tasks : ~(Contains(waiters[q], t) /\ Contains(<<>>, t))
  BY SmallSeqs
<1> QED BY <1>1, <1>2, <1>3, TakeWaits

\* What wake finds: a waiter that is Blocked, or one that has not looked at its note.
LEMMA WakeStateWaits ==
  ASSUME TypeOK, Control, Cpus, States, Waits, WakeState
  PROVE  Waits'
<1>0. /\ Active \in Threads /\ pc[Active] = "wake" /\ drained[Active] # <<>>
      /\ Owes(Active) = drained[Active]
      /\ drained[Active] \in Seq(Tasks) /\ Distinct(drained[Active])
  BY Where, ZenonT(40) DEF WakeState, At, Owes, TypeOK, Waits, Holders
<1>1. PICK w \in Tasks :
        /\ w = Head(drained[Active])
        /\ Contains(drained[Active], w)
        /\ \A t \in Tasks : Contains(Tail(drained[Active]), t) <=> Contains(drained[Active], t) /\ t # w
        /\ Distinct(Tail(drained[Active]))
  BY <1>0, PopEntry
<1>2. /\ Held(w) /\ waiting_on[w] # None /\ ~Listed(w)
      /\ \A th \in Threads : Contains(Owes(th), w) => th = Active
      /\ ~wakeup_pending[w]
      /\ Undecided(w) \/ state[w] = "Blocked"
  BY <1>0, <1>1 DEF Waits, Locals, Holders, Stages, Held, Drained
<1>3. UNCHANGED <<waiters, want, waiting_on>>
  BY DEF WakeState
<1>4. /\ \A th \in Threads : Owes(th)' = IF th = Active THEN Tail(drained[Active]) ELSE Owes(th)
      /\ \A th \in Threads : th # Active => pc'[th] = pc[th] /\ drained'[th] = drained[th]
      /\ pc'[Active] \in {"wake", "wake_push"}
      /\ \A t \in Tasks : t # w => state'[t] = state[t] /\ wakeup_pending'[t] = wakeup_pending[t]
      /\ \/ state[w] # "Blocked" /\ state'[w] = state[w] /\ wakeup_pending'[w]
         \/ state[w] = "Blocked" /\ state'[w] = "Ready" /\ wakeup_pending'[w] = wakeup_pending[w]
  <2>1. CASE state[w] # "Blocked"
    <3>1. /\ wakeup_pending' = [wakeup_pending EXCEPT ![w] = TRUE]
          /\ drained' = [drained EXCEPT ![Active] = Tail(drained[Active])]
          /\ UNCHANGED <<state, pc>>
      BY <1>1, <2>1 DEF WakeState, Wakeable
    <3>2. \A th \in Threads : drained'[th] = IF th = Active THEN Tail(drained[Active]) ELSE drained[th]
      BY <1>0, <3>1 DEF TypeOK
    <3>3. wakeup_pending'[w] /\ \A t \in Tasks : t # w => wakeup_pending'[t] = wakeup_pending[t]
      BY <3>1 DEF TypeOK
    <3>4. \A th \in Threads : Owes(th)' = IF th = Active THEN Tail(drained[Active]) ELSE Owes(th)
      BY <1>0, <3>1, <3>2 DEF Owes
    <3> QED BY <1>0, <2>1, <3>1, <3>2, <3>3, <3>4, Zenon
  <2>2. CASE state[w] = "Blocked"
    <3>1. /\ state' = [state EXCEPT ![w] = "Ready"]
          /\ pc' = [pc EXCEPT ![Active] = "wake_push"]
          /\ UNCHANGED <<wakeup_pending, drained>>
      BY <1>1, <2>2 DEF WakeState, Wakeable, Goto
    <3>2. \A th \in Threads : pc'[th] = IF th = Active THEN "wake_push" ELSE pc[th]
      BY <1>0, <3>1 DEF TypeOK
    <3>3. state'[w] = "Ready" /\ \A t \in Tasks : t # w => state'[t] = state[t]
      BY <3>1 DEF TypeOK
    <3> QED BY <1>0, <2>2, <3>1, <3>2, <3>3 DEF Owes
  <2> QED BY <2>1, <2>2
<1>5. \A t \in Tasks : (Undecided(t)' <=> Undecided(t)) /\ (Decided(t)' <=> Decided(t))
  <2>1. \A t \in Tasks : Base(t) \in Threads
    BY DEF Base, Threads, Stacks
  <2> QED BY <1>0, <1>3, <1>4, <2>1 DEF Undecided, Decided, Before, After
<1>6. \A t \in Tasks : Listed(t)' <=> Listed(t)
  BY <1>3 DEF Listed
<1>7. \A th \in Threads, t \in Tasks : Contains(Owes(th)', t) <=> Contains(Owes(th), t) /\ t # w
  BY <1>0, <1>1, <1>2, <1>4, ZenonT(40)
<1>8. \A t \in Tasks : Held(t)' <=> Held(t) /\ t # w
  BY <1>2, <1>6, <1>7 DEF Held, Drained
<1>9. Locals'
  BY <1>3, <1>4, <1>5 DEF Waits, Locals
<1>10. Holders'
  <2>1. \A th \in Threads : Distinct(Owes(th)')
    BY <1>1, <1>4, ZenonT(40) DEF Waits, Holders
  <2> QED BY <1>3, <1>6, <1>7, <2>1 DEF Waits, Holders
<1>11. Stages'
  <2> SUFFICES ASSUME NEW t \in Tasks
               PROVE  /\ wakeup_pending'[t] => Undecided(t)' /\ ~Held(t)'
                      /\ Undecided(t)' => Held(t)' \/ wakeup_pending'[t]
                      /\ state'[t] = "Blocked" => Decided(t)'
                      /\ Decided(t)' => (Held(t)' <=> state'[t] = "Blocked")
    BY DEF Stages
  <2>1. CASE t = w
    <3>1. state[w] = "Blocked" => Decided(w) /\ ~Undecided(w)
      BY DEF Waits, Stages, Decided, Undecided, Before, After
    <3>2. Undecided(w) => ~Decided(w)
      BY DEF Decided, Undecided, Before, After
    <3> QED BY <1>2, <1>4, <1>5, <1>8, <2>1, <3>1, <3>2
  <2>2. CASE t # w
    BY <1>4, <1>5, <1>8, <2>2 DEF Waits, Stages
  <2> QED BY <2>1, <2>2
<1> QED BY <1>9, <1>10, <1>11 DEF Waits

\* wake's push to the run queue: the task was struck off what the waker owes before.
LEMMA WakePushWaits ==
  ASSUME TypeOK, Control, Cpus, States, Waits, WakePush
  PROVE  Waits'
<1>0. Active \in Threads /\ pc[Active] = "wake_push"
  BY Where DEF WakePush, At
<1>1. /\ \A th \in Threads : pc'[th] = IF th = Active THEN "wake" ELSE pc[th]
      /\ \A th \in Threads : drained'[th] = IF th = Active THEN Tail(drained[th]) ELSE drained[th]
  BY DEF WakePush, Goto, TypeOK
<1>2. UNCHANGED <<waiters, state, wakeup_pending, waiting_on, want>>
  BY DEF WakePush, taskVars
<1>3. \A th \in Threads : Owes(th)' = Owes(th)
  BY <1>0, <1>1 DEF Owes
<1>4. \A th \in Threads : pc'[th] \notin {"wake", "wake_push"} => drained'[th] = <<>>
  BY <1>0, <1>1 DEF Waits, Locals
<1>5. \A t \in Tasks : (Undecided(t)' <=> Undecided(t)) /\ (Decided(t)' <=> Decided(t))
  <2>1. \A t \in Tasks : Base(t) \in Threads
    BY DEF Base, Threads, Stacks
  <2> QED BY <1>0, <1>1, <1>2, <2>1 DEF Undecided, Decided, Before, After
<1>6. \A s \in Stacks : want'[Trap(s)] = "Ready"
  BY <1>2 DEF Waits, Locals
<1> QED BY <1>2, <1>3, <1>4, <1>5, <1>6, WaitsKept

\* The TaskInner section of switch_to_idle decides a wait: the task blocks, held, or
\* its note is there, and nobody holds it.
LEMMA SwStateWaits ==
  ASSUME TypeOK, Control, Cpus, States, Waits, SwState
  PROVE  Waits'
<1>0. /\ stack \in Tasks /\ taken[Active] = stack /\ state[stack] = "Running"
      /\ pc[Active] = "sw_state" /\ Active \in Threads /\ Active \in {Base(stack), Trap(stack)}
  BY Where, WhoseCode DEF SwState, At
<1>1. /\ \A th \in Threads : pc'[th] = IF th = Active THEN "sw_prev" ELSE pc[th]
      /\ \A t \in Tasks : t # stack => state'[t] = state[t] /\ wakeup_pending'[t] = wakeup_pending[t]
  BY <1>0, Zenon DEF SwState, Goto, TypeOK
<1>2. UNCHANGED <<waiters, drained, waiting_on, want>>
  BY DEF SwState, localVars
<1>3. \A t \in Tasks : Base(t) \in Threads /\ (Base(t) = Base(stack) => t = stack) /\ Base(t) # Trap(stack)
  BY DEF Base, Trap, Threads, Stacks
<1>4. \A th \in Threads : Owes(th)' = Owes(th)
  BY <1>0, <1>1, <1>2 DEF Owes
<1>5. \A th \in Threads : pc'[th] \notin {"wake", "wake_push"} => drained'[th] = <<>>
  BY <1>0, <1>1, <1>2 DEF Waits, Locals
<1>6. \A s \in Stacks : want'[Trap(s)] = "Ready"
  BY <1>2 DEF Waits, Locals
<1>7. CASE want[Active] # "Blocked"
  <2>1. ~Owed(Active)
    BY <1>7 DEF Owed
  <2>2. state'[stack] = want[Active] /\ wakeup_pending'[stack] = wakeup_pending[stack]
    BY <1>0, <2>1 DEF SwState, TypeOK
  <2>3. wakeup_pending' = wakeup_pending
    BY <1>0, <2>1 DEF SwState, TypeOK
  <2>4. \A t \in Tasks : /\ state'[t] = "Blocked" <=> state[t] = "Blocked"
                         /\ state'[t] = "Unborn" => state[t] = "Unborn"
    BY <1>0, <1>1, <1>7, <2>2, ZenonT(40) DEF TypeOK
  <2>5. \A t \in Tasks : (Undecided(t)' <=> Undecided(t)) /\ (Decided(t)' <=> Decided(t))
    BY <1>0, <1>1, <1>2, <1>3, <1>7 DEF Undecided, Decided, Before, After
  <2> QED BY <1>2, <1>4, <1>5, <1>6, <2>3, <2>4, <2>5, WaitsKept
<1>8. CASE want[Active] = "Blocked"
  <2>1. Active = Base(stack)
    BY <1>0, <1>8 DEF Waits, Locals, Stacks
  <2>2. Undecided(stack) /\ ~Decided(stack)
    BY <1>0, <1>8, <2>1 DEF Undecided, Decided, Before, After
  <2>3. \A t \in Tasks : /\ Undecided(t)' <=> Undecided(t) /\ t # stack
                         /\ Decided(t)' <=> Decided(t) \/ t = stack
    BY <1>0, <1>1, <1>2, <1>3, <1>8, <2>1 DEF Undecided, Decided, Before, After
  <2>4. /\ state'[stack] = IF wakeup_pending[stack] THEN "Ready" ELSE "Blocked"
        /\ ~wakeup_pending'[stack]
    <3>1. Owed(Active) <=> wakeup_pending[stack]
      BY <1>0, <1>8 DEF Owed
    <3>2. /\ state' = [state EXCEPT ![stack] = IF Owed(Active) THEN "Ready" ELSE "Blocked"]
          /\ wakeup_pending' = [wakeup_pending EXCEPT ![stack] = wakeup_pending[stack] /\ ~Owed(Active)]
      BY <1>0, <1>8 DEF SwState
    <3> QED BY <1>0, <3>1, <3>2, Zenon DEF TypeOK
  <2>5. \A t \in Tasks : (Listed(t)' <=> Listed(t)) /\ (Held(t)' <=> Held(t))
    BY <1>2, <1>4 DEF Listed, Drained, Held
  <2>6. Locals'
    BY <1>0, <1>1, <1>2, <1>5, <1>6, <2>2, <2>3, <2>4 DEF Waits, Locals
  <2>7. Holders'
    BY <1>2, <1>4, <2>5 DEF Waits, Holders
  <2>8. Stages'
    <3> SUFFICES ASSUME NEW t \in Tasks
                 PROVE  /\ wakeup_pending'[t] => Undecided(t)' /\ ~Held(t)'
                        /\ Undecided(t)' => Held(t)' \/ wakeup_pending'[t]
                        /\ state'[t] = "Blocked" => Decided(t)'
                        /\ Decided(t)' => (Held(t)' <=> state'[t] = "Blocked")
      BY DEF Stages
    <3>1. CASE t = stack
      <4>1. Held(stack) <=> ~wakeup_pending[stack]
        BY <1>0, <2>2 DEF Waits, Stages
      <4> QED BY <2>3, <2>4, <2>5, <3>1, <4>1
    <3>2. CASE t # stack
      BY <1>1, <2>3, <2>5, <3>2 DEF Waits, Stages
    <3> QED BY <3>1, <3>2
  <2> QED BY <2>6, <2>7, <2>8 DEF Waits
<1> QED BY <1>7, <1>8

\* A task being made is in no wait.
LEMMA SpawnWaits ==
  ASSUME TypeOK, Waits, NEW t \in Tasks, Spawn(t)
  PROVE  Waits'
<1>1. UNCHANGED <<waiters, drained, waiting_on, want, pc>>
  BY DEF Spawn, localVars
<1>2. /\ \A u \in Tasks : state'[u] = IF u = t THEN "Ready" ELSE state[u]
      /\ state[t] = "Unborn"
  BY DEF Spawn, TypeOK
<1>3. ~wakeup_pending[t]
  BY <1>2 DEF Waits, Locals, Stages
<1>4. wakeup_pending' = wakeup_pending
  BY <1>3 DEF Spawn, TypeOK
<1>5. \A th \in Threads : Owes(th)' = Owes(th)
  BY <1>1 DEF Owes
<1>6. \A th \in Threads : pc'[th] \notin {"wake", "wake_push"} => drained'[th] = <<>>
  BY <1>1 DEF Waits, Locals
<1>7. \A u \in Tasks : (Undecided(u)' <=> Undecided(u)) /\ (Decided(u)' <=> Decided(u))
  BY <1>1 DEF Undecided, Decided
<1>8. \A s \in Stacks : want'[Trap(s)] = "Ready"
  BY <1>1 DEF Waits, Locals
<1> QED BY <1>1, <1>2, <1>4, <1>5, <1>6, <1>7, <1>8, WaitsKept

\* Steps that set `want`: a switch that is not for a wait begins, or a switch is over.
LEMMA SwitchWaits ==
  ASSUME TypeOK, Control, Cpus, States, Waits,
         \/ YieldNow \/ ExitCurrent \/ SwResumed
         \/ ReschedIfNeeded
  PROVE  Waits'
<1>0. Active \in Threads /\ Active \in {Base(stack), Trap(stack)} /\ stack \in Stacks
  BY Where, WhoseCode
<1>1. /\ \A t \in Tasks : /\ Base(t) \in Threads
                          /\ Base(t) = Base(stack) <=> t = stack
                          /\ Base(t) # Trap(stack)
      /\ \A s \in Stacks : Trap(s) \in Threads /\ Trap(s) # Base(stack)
  BY DEF Base, Trap, Threads, Stacks
<1>2. UNCHANGED <<waiters, drained, wakeup_pending, waiting_on, state>>
  BY DEF YieldNow, ExitCurrent, SwResumed, ReschedIfNeeded, taskVars
<1>3. PICK label, w :
        /\ \A th \in Threads : pc'[th] = IF th = Active THEN label ELSE pc[th]
        /\ \A th \in Threads : want'[th] = IF th = Active THEN w ELSE want[th]
        /\ pc[Active] \notin {"wake", "wake_push", "unqueue"}
        /\ label \notin {"wake", "wake_push"}
        /\ Active = Trap(stack) => w = "Ready"
        /\ Active = Base(stack) =>
             \/ pc[Active] \notin Before \cup After /\ label # "unqueue"
                /\ (w # "Blocked" \/ label \notin Before \cup After)
             \/ pc[Active] \in After /\ w # "Blocked" /\ (label = "unqueue" <=> want[Active] = "Blocked")
  <2>1. CASE YieldNow
    <3>1. /\ \A th \in Threads : pc'[th] = IF th = Active THEN "sw_mask" ELSE pc[th]
          /\ \A th \in Threads : want'[th] = IF th = Active THEN "Ready" ELSE want[th]
          /\ pc[Active] = "run"
      BY <2>1 DEF YieldNow, Goto, InTask, At, TypeOK
    <3> QED BY <3>1 DEF Before, After
  <2>2. CASE ExitCurrent
    <3>1. /\ \A th \in Threads : pc'[th] = IF th = Active THEN "sw_mask" ELSE pc[th]
          /\ \A th \in Threads : want'[th] = IF th = Active THEN "Zombie" ELSE want[th]
          /\ pc[Active] = "run"
      BY <2>2 DEF ExitCurrent, Goto, InTask, At, TypeOK
    <3>2. Active # Trap(stack)
      BY <1>1, <1>0, <3>1, WhoseCode DEF Base, Trap
    <3> QED BY <3>1, <3>2 DEF Before, After
  <2>3. CASE SwResumed
    <3> DEFINE label == IF trapped[stack] THEN "trap_ret" ELSE AfterSwitch(want[Active])
    <3>1. /\ \A th \in Threads : pc'[th] = IF th = Active THEN label ELSE pc[th]
          /\ \A th \in Threads : want'[th] = IF th = Active THEN "Ready" ELSE want[th]
          /\ pc[Active] = "sw_resumed"
      BY <2>3 DEF SwResumed, Goto, At, TypeOK
    <3>2. Active = Base(stack) => ~trapped[stack]
      BY DEF Active, Base
    <3>3. /\ label \notin {"wake", "wake_push"}
          /\ Active = Base(stack) => (label = "unqueue" <=> want[Active] = "Blocked")
      BY <1>0, <3>2 DEF AfterSwitch, TypeOK
    <3> QED BY <3>1, <3>3 DEF Before, After
  <2>4. CASE ReschedIfNeeded
    <3>1. pc[Active] = "resched" /\ Active = Trap(stack)
      BY <2>4, WhoseCode DEF ReschedIfNeeded, At
    <3>2. want[Active] = "Ready"
      BY <1>0, <3>1 DEF Waits, Locals
    <3>3. \/ Goto("trap_ret") /\ UNCHANGED want
          \/ Goto("sw_mask") /\ want' = [want EXCEPT ![Active] = "Ready"]
      BY <2>4 DEF ReschedIfNeeded
    <3>4. /\ \A th \in Threads : want'[th] = IF th = Active THEN "Ready" ELSE want[th]
          /\ \/ \A th \in Threads : pc'[th] = IF th = Active THEN "trap_ret" ELSE pc[th]
             \/ \A th \in Threads : pc'[th] = IF th = Active THEN "sw_mask" ELSE pc[th]
      BY <3>2, <3>3 DEF Goto, TypeOK
    <3>5. Active # Base(stack)
      BY <3>1 DEF Base, Trap
    <3> QED BY <3>1, <3>4, <3>5
  <2> QED BY <2>1, <2>2, <2>3, <2>4
<1>4. \A th \in Threads : Owes(th)' = Owes(th)
  BY <1>2, <1>3 DEF Owes
<1>5. \A th \in Threads : pc'[th] \notin {"wake", "wake_push"} => drained'[th] = <<>>
  BY <1>2, <1>3 DEF Waits, Locals
<1>6. \A s \in Stacks : want'[Trap(s)] = "Ready"
  BY <1>0, <1>1, <1>3 DEF Waits, Locals
<1>7. \A t \in Tasks : (Undecided(t)' <=> Undecided(t)) /\ (Decided(t)' <=> Decided(t))
  BY <1>0, <1>1, <1>3 DEF Undecided, Decided, Before, After
<1> QED BY <1>2, <1>4, <1>5, <1>6, <1>7, WaitsKept

\* An interrupt starts the handler, and an interrupt's return uncovers the base code.
LEMMA InterruptWaits ==
  ASSUME TypeOK, Control, Waits, TimerInterrupt \/ ExternalInterrupt \/ TrapReturn
  PROVE  Waits'
<1>1. UNCHANGED <<waiters, drained, wakeup_pending, waiting_on, state, want>>
  BY DEF TimerInterrupt, ExternalInterrupt, TrapReturn, Interrupt, taskVars, localVars
<1>2. /\ \A th \in Threads : pc'[th] = "wake_push" <=> pc[th] = "wake_push"
      /\ \A th \in Threads : pc'[th] = "wake" <=> pc[th] = "wake"
      /\ \A t \in Tasks : pc'[Base(t)] = pc[Base(t)]
  <2>1. CASE TrapReturn
    BY <2>1 DEF TrapReturn
  <2>2. CASE TimerInterrupt \/ ExternalInterrupt
    <3>1. PICK label \in {"tick", "external"} : 
            pc' = [pc EXCEPT ![<<stack, "trap">>] = label,
                             ![<<stack, "base">>] = IF @ = "idle_wfi" THEN "idle_mask" ELSE @]
      BY <2>2 DEF TimerInterrupt, ExternalInterrupt, Interrupt
    <3>2. stack \in Stacks /\ pc[Trap(stack)] = "trap_ret"
      BY <2>2 DEF TimerInterrupt, ExternalInterrupt, Interrupt, Control
    <3>3. \A t \in Tasks : pc[Base(t)] # "idle_wfi"
      BY DEF Control, TaskBase, OpenTask, Switching
    <3> QED BY <3>1, <3>2, <3>3, ZenonT(40) DEF TypeOK, Threads, Trap, Base, Stacks
  <2> QED BY <2>1, <2>2
<1>3. \A th \in Threads : Owes(th)' = Owes(th)
  BY <1>1, <1>2 DEF Owes
<1>4. \A th \in Threads : pc'[th] \notin {"wake", "wake_push"} => drained'[th] = <<>>
  BY <1>1, <1>2 DEF Waits, Locals
<1>5. \A t \in Tasks : (Undecided(t)' <=> Undecided(t)) /\ (Decided(t)' <=> Decided(t))
  BY <1>1, <1>2 DEF Undecided, Decided
<1>6. \A s \in Stacks : want'[Trap(s)] = "Ready"
  BY <1>1 DEF Waits, Locals
<1> QED BY <1>1, <1>3, <1>4, <1>5, <1>6, WaitsKept

\* No step leaves a sleeper out of reach or a wakeup stale.
LEMMA WaitsStep == IInv /\ Waits /\ [Next]_vars => Waits'
<1> SUFFICES ASSUME TypeOK, Control, Cpus, States, Places, Waits, [Next]_vars PROVE Waits'
  BY DEF IInv
<1>0. Active \in Threads
  BY Where
<1>1. CASE TaskEntry
  <2>1. /\ pc[Active] = "entry" /\ Goto("run")
        /\ UNCHANGED <<waiters, drained, wakeup_pending, waiting_on, want, state>>
    BY <1>1 DEF TaskEntry, At, taskVars, localVars
  <2> QED BY <1>0, <2>1, WaitsLocal DEF Before, After
<1>2. CASE WakeDone
  <2>1. /\ pc[Active] = "wake" /\ drained[Active] = <<>>
        /\ Goto("resched") \/ Goto("run")
        /\ UNCHANGED <<waiters, drained, wakeup_pending, waiting_on, want, state>>
    BY <1>2 DEF WakeDone, At, taskVars, localVars
  <2> QED BY <1>0, <2>1, WaitsLocal DEF Before, After
<1>3. CASE SwMask
  <2>1. /\ pc[Active] = "sw_mask" /\ Goto("sw_take")
        /\ UNCHANGED <<waiters, drained, wakeup_pending, waiting_on, want, state>>
    BY <1>3 DEF SwMask, At, taskVars, localVars
  <2> QED BY <1>0, <2>1, WaitsLocal DEF Before, After
<1>4. CASE SwTake
  <2>1. /\ pc[Active] = "sw_take" /\ Goto("sw_state")
        /\ UNCHANGED <<waiters, drained, wakeup_pending, waiting_on, want, state>>
    BY <1>4 DEF SwTake, At, taskVars, localVars
  <2> QED BY <1>0, <2>1, WaitsLocal DEF Before, After
<1>5. CASE SwPrev
  <2>1. /\ pc[Active] = "sw_prev" /\ Goto("sw_ctx")
        /\ UNCHANGED <<waiters, drained, wakeup_pending, waiting_on, want, state>>
    BY <1>5 DEF SwPrev, At, taskVars, localVars
  <2> QED BY <1>0, <2>1, WaitsLocal DEF Before, After
<1>6. CASE SwContext
  <2>1. /\ pc[Active] = "sw_ctx" /\ Goto("sw_resumed")
        /\ UNCHANGED <<waiters, drained, wakeup_pending, waiting_on, want, state>>
    BY <1>6 DEF SwContext, At, taskVars, localVars
  <2> QED BY <1>0, <2>1, WaitsLocal DEF Before, After
<1>7. CASE IdlePrevious
  <2>1. /\ pc[Active] = "idle_previous" /\ Goto("idle_pop")
        /\ UNCHANGED <<waiters, drained, wakeup_pending, waiting_on, want, state>>
    BY <1>7 DEF IdlePrevious, At, taskVars, localVars
  <2> QED BY <1>0, <2>1, WaitsLocal DEF Before, After
<1>8. CASE IdlePop
  <2>1. /\ pc[Active] = "idle_pop" /\ Goto("idle_install")
        /\ UNCHANGED <<waiters, drained, wakeup_pending, waiting_on, want, state>>
    BY <1>8 DEF IdlePop, At, taskVars, localVars
  <2> QED BY <1>0, <2>1, WaitsLocal DEF Before, After
<1>9. CASE IdleEmpty
  <2>1. /\ pc[Active] = "idle_pop" /\ Goto("idle_enabled")
        /\ UNCHANGED <<waiters, drained, wakeup_pending, waiting_on, want, state>>
    BY <1>9 DEF IdleEmpty, At, taskVars, localVars
  <2> QED BY <1>0, <2>1, WaitsLocal DEF Before, After
<1>10. CASE IdleWfi
  <2>1. /\ pc[Active] = "idle_enabled" /\ Goto("idle_wfi")
        /\ UNCHANGED <<waiters, drained, wakeup_pending, waiting_on, want, state>>
    BY <1>10 DEF IdleWfi, At, taskVars, localVars
  <2> QED BY <1>0, <2>1, WaitsLocal DEF Before, After
<1>11. CASE IdleMask
  <2>1. /\ pc[Active] = "idle_mask" /\ Goto("idle_previous")
        /\ UNCHANGED <<waiters, drained, wakeup_pending, waiting_on, want, state>>
    BY <1>11 DEF IdleMask, At, taskVars, localVars
  <2> QED BY <1>0, <2>1, WaitsLocal DEF Before, After
<1>12. CASE IdleCurrent
  <2>1. /\ pc[Active] = "idle_current" /\ Goto("idle_switch")
        /\ UNCHANGED <<waiters, drained, wakeup_pending, waiting_on, want, state>>
    BY <1>12 DEF IdleCurrent, At, taskVars, localVars
  <2> QED BY <1>0, <2>1, WaitsLocal DEF Before, After
<1>13. CASE IdleSwitch
  <2>1. /\ pc[Active] = "idle_switch" /\ Goto("idle_previous")
        /\ UNCHANGED <<waiters, drained, wakeup_pending, waiting_on, want, state>>
    BY <1>13 DEF IdleSwitch, At, taskVars, localVars
  <2> QED BY <1>0, <2>1, WaitsLocal DEF Before, After
<1>14. CASE OnTimerTick
  <2>1. /\ pc[Active] = "tick" /\ Goto("resched")
        /\ UNCHANGED <<waiters, drained, wakeup_pending, waiting_on, want, state>>
    BY <1>14 DEF OnTimerTick, At, taskVars, localVars
  <2> QED BY <1>0, <2>1, WaitsLocal DEF Before, After
<1>15. CASE WfiReturns
  <2>1. /\ pc[Active] = "idle_wfi" /\ Goto("idle_mask")
        /\ UNCHANGED <<waiters, drained, wakeup_pending, waiting_on, want, state>>
    BY <1>15 DEF WfiReturns, At, taskVars, localVars
  <2> QED BY <1>0, <2>1, WaitsLocal DEF Before, After
<1>16. CASE IdleInstall
  <2>1. /\ pc[Active] = "idle_install" /\ Goto("idle_current")
        /\ UNCHANGED <<waiters, drained, wakeup_pending, waiting_on, want>>
        /\ state' = [state EXCEPT ![next] = "Running"]
    BY <1>16 DEF IdleInstall, At, localVars
  <2>2. next \in Tasks /\ state[next] = "Ready"
    <3>1. stack = Idle /\ next \in Tasks
      BY <2>1, Where
    <3>2. pc[Base(Idle)] = "idle_install"
      BY <2>1, <3>1 DEF Control, Active, Base, Trap, Stacks, IdleTrap
    <3> QED BY <3>1, <3>2, Constants DEF States, Stacks
  <2>3. \A t \in Tasks : /\ state'[t] = "Blocked" <=> state[t] = "Blocked"
                         /\ state'[t] = "Unborn" => state[t] = "Unborn"
    BY <2>1, <2>2 DEF TypeOK
  <2> QED BY <1>0, <2>1, <2>3, WaitsLocal DEF Before, After
<1>17. CASE YieldNow \/ ExitCurrent \/ SwResumed \/ ReschedIfNeeded
  BY <1>17, SwitchWaits
<1>18. CASE TimerInterrupt \/ ExternalInterrupt \/ TrapReturn
  BY <1>18, InterruptWaits
<1>19. CASE WaitUnqueue
  BY <1>19, WaitUnqueueWaits
<1>20. CASE WakeState
  BY <1>20, WakeStateWaits
<1>21. CASE WakePush
  BY <1>21, WakePushWaits
<1>22. CASE SwState
  BY <1>22, SwStateWaits
<1>23. ASSUME NEW q \in Queues, WaitPush(q) \/ WakeOne(q) \/ WakeAll(q) \/ OnExternal(q) PROVE Waits'
  BY <1>23, WaitPushWaits, WakeOneWaits, DrainWaits
<1>24. ASSUME NEW t \in Tasks, Spawn(t) PROVE Waits'
  BY <1>24, SpawnWaits
<1>25. CASE UNCHANGED vars
  <2>1. UNCHANGED <<waiters, drained, wakeup_pending, waiting_on, state, want, pc>>
    BY <1>25 DEF vars, taskVars, localVars
  <2>2. \A th \in Threads : Owes(th)' = Owes(th)
    BY <2>1 DEF Owes
  <2>3. \A th \in Threads : pc'[th] \notin {"wake", "wake_push"} => drained'[th] = <<>>
    BY <2>1 DEF Waits, Locals
  <2>4. \A t \in Tasks : (Undecided(t)' <=> Undecided(t)) /\ (Decided(t)' <=> Decided(t))
    BY <2>1 DEF Undecided, Decided
  <2>5. \A s \in Stacks : want'[Trap(s)] = "Ready"
    BY <2>1 DEF Waits, Locals
  <2> QED BY <2>1, <2>2, <2>3, <2>4, <2>5, WaitsKept
<1> QED
  BY <1>1, <1>2, <1>3, <1>4, <1>5, <1>6, <1>7, <1>8, <1>9, <1>10, <1>11, <1>12, <1>13,
     <1>14, <1>15, <1>16, <1>17, <1>18, <1>19, <1>20, <1>21, <1>22, <1>23, <1>24, <1>25 DEF Next, KernelStep, TaskStep

------------------------------------------------------------------------------
(* The invariant and what follows from it                                     *)

\* Nobody waits at boot.
LEMMA InitWaits == Init => Waits
<1> SUFFICES ASSUME Init PROVE Waits
  OBVIOUS
<1> USE Constants DEF Init, Boot
<1>1. /\ \A th \in Threads : want[th] = "Ready" /\ drained[th] = <<>> /\ pc[th] # "wake_push"
      /\ \A t \in Tasks : Base(t) \in Threads /\ pc[Base(t)] = "entry"
      /\ \A s \in Stacks : Trap(s) \in Threads
  BY DEF EntryPc, Threads, Stacks, Base, Trap
<1>2. \A t \in Tasks : ~Undecided(t) /\ ~Decided(t)
  BY <1>1 DEF Undecided, Decided, Before, After
<1>3. \A th \in Threads : Owes(th) = <<>>
  BY <1>1 DEF Owes
<1>4. \A q \in Queues : waiters[q] = <<>>
  OBVIOUS
<1>5. \A t \in Tasks : ~Held(t) /\ ~Listed(t)
  BY <1>3, <1>4, SmallSeqs DEF Held, Listed, Drained
<1>6. Locals
  BY <1>1, <1>2 DEF Locals
<1>7. Holders
  BY <1>3, <1>4, SmallSeqs DEF Holders
<1>8. Stages
  <2>1. \A t \in Tasks : ~wakeup_pending[t] /\ state[t] # "Blocked"
    OBVIOUS
  <2> QED BY <1>2, <2>1 DEF Stages
<1> QED BY <1>6, <1>7, <1>8 DEF Waits

\* Together with the invariant of SchedulerInv it holds throughout.
THEOREM WaitsInvariance == Spec => [](IInv /\ Waits)
<1>1. IInv /\ Waits /\ [Next]_vars => Waits'
  BY WaitsStep
<1> QED BY InitWaits, <1>1, Invariance, PTL DEF Spec

\* block_current and wake: a Blocked task has an entry in a wait queue, or a waker
\* that will make it Ready, so dropping the idle loop's reference loses nobody.
THEOREM SleepersHeld == Spec => []BlockedIsHeld
<1>1. IInv /\ Waits => BlockedIsHeld
  <2> SUFFICES ASSUME TypeOK, Places, Waits, NEW t \in Tasks, state[t] = "Blocked"
               PROVE  \/ \E q \in Queues : Contains(waiters[q], t)
                      \/ \E th \in Threads : Contains(drained[th], t)
    BY DEF IInv, BlockedIsHeld
  <2>1. Listed(t) \/ Drained(t)
    BY DEF Waits, Stages, Held
  <2>2. ASSUME NEW th \in Threads, Contains(Owes(th), t) PROVE Contains(drained[th], t)
    <3>1. CASE pc[th] = "wake_push"
      <4>1. drained[th] \in Seq(Tasks) /\ drained[th] # <<>>
        BY <3>1 DEF TypeOK, Places
      <4>2. PICK i \in 1 .. Len(Tail(drained[th])) : Tail(drained[th])[i] = t
        BY <2>2, <3>1 DEF Owes, Contains
      <4>3. i + 1 \in 1 .. Len(drained[th]) /\ drained[th][i + 1] = t
        BY <4>1, <4>2, HeadTailProperties, LenProperties
      <4> QED BY <4>3 DEF Contains
    <3>2. CASE pc[th] # "wake_push"
      BY <2>2, <3>2 DEF Owes
    <3> QED BY <3>1, <3>2
  <2> QED BY <2>1, <2>2 DEF Listed, Drained
<1> QED BY WaitsInvariance, <1>1, PTL

\* wait and wake: entries, drained waiters and notes belong to tasks still in wait(),
\* so no wakeup is spent on a task that has gone on.
THEOREM WakeupsFresh == Spec => []NoStaleWakeup
<1>1. IInv /\ Waits => NoStaleWakeup
  <2> SUFFICES ASSUME TypeOK, Waits PROVE NoStaleWakeup
    BY DEF IInv
  <2>1. ASSUME NEW q \in Queues, NEW i \in 1 .. Len(waiters[q])
        PROVE  waiting_on[waiters[q][i]] = q
    <3>1. waiters[q][i] \in Tasks /\ Contains(waiters[q], waiters[q][i])
      BY ElementOfSeq DEF TypeOK, Contains
    <3> QED BY <3>1 DEF Waits, Holders
  <2>2. ASSUME NEW t \in Tasks, waiting_on[t] = None
        PROVE  /\ ~wakeup_pending[t]
               /\ \A th \in Threads : pc[th] = "wake" => ~Contains(drained[th], t)
    <3>1. ~wakeup_pending[t]
      BY <2>2 DEF Waits, Locals, Stages
    <3>2. \A th \in Threads : ~Contains(Owes(th), t)
      BY <2>2 DEF Waits, Holders
    <3> QED BY <3>1, <3>2 DEF Owes
  <2> QED BY <2>1, <2>2 DEF NoStaleWakeup
<1> QED BY WaitsInvariance, <1>1, PTL

\* Which steps a user of Parking can see, and as what: the decision of switch_to_idle
\* is a Park and the TaskInner section of wake an Unpark.
LEMMA ParkingStep ==
  ASSUME IInv, Waits, [Next]_vars
  PROVE  \/ P!ParkingNext
         \/ /\ \A t \in Tasks : (state'[t] = "Blocked") <=> (state[t] = "Blocked")
            /\ \A t \in Tasks : wakeup_pending'[t] <=> wakeup_pending[t]
<1> DEFINE Parked == {t \in Tasks : state[t] = "Blocked"}
           Pending == {t \in Tasks : wakeup_pending[t]}
           Same == /\ \A t \in Tasks : (state'[t] = "Blocked") <=> (state[t] = "Blocked")
                   /\ \A t \in Tasks : wakeup_pending'[t] <=> wakeup_pending[t]
<1>0. TypeOK /\ Control /\ Cpus /\ States
  BY DEF IInv
<1>1. CASE SwState
  <2>0. /\ stack \in Tasks /\ taken[Active] = stack /\ state[stack] = "Running"
        /\ Active \in Threads
    BY <1>0, <1>1, Where DEF SwState, At
  <2>1. PICK w \in Tasks : w = stack
    BY <2>0
  <2>2. /\ state' = [state EXCEPT ![stack] = IF Owed(Active) THEN "Ready" ELSE want[Active]]
        /\ wakeup_pending' = [wakeup_pending EXCEPT ![stack] = wakeup_pending[stack] /\ ~Owed(Active)]
    BY <1>1, <2>0 DEF SwState
  <2>3. /\ \A t \in Tasks : t # stack => state'[t] = state[t] /\ wakeup_pending'[t] = wakeup_pending[t]
        /\ state'[stack] = IF Owed(Active) THEN "Ready" ELSE want[Active]
        /\ wakeup_pending'[stack] <=> wakeup_pending[stack] /\ ~Owed(Active)
    BY <1>0, <2>0, <2>2, Zenon DEF TypeOK
  <2>4. CASE want[Active] # "Blocked"
    <3>1. ~Owed(Active)
      BY <2>4 DEF Owed
    <3>2. Same
      BY <2>0, <2>3, <2>4, <3>1
    <3> QED BY <3>2
  <2>5. CASE want[Active] = "Blocked" /\ wakeup_pending[stack]
    <3>1. Owed(Active)
      BY <2>0, <2>5 DEF Owed
    <3>2. Parked' = Parked
      BY <2>0, <2>3, <3>1
    <3>3. Pending' = Pending \ {w}
      BY <2>0, <2>1, <2>3, <3>1
    <3>4. w \notin Parked /\ w \in Pending
      BY <2>0, <2>1, <2>5
    <3>5. P!Park(w)
      BY <3>2, <3>3, <3>4 DEF P!Park
    <3> QED BY <3>5 DEF P!ParkingNext
  <2>6. CASE want[Active] = "Blocked" /\ ~wakeup_pending[stack]
    <3>1. ~Owed(Active)
      BY <2>0, <2>6 DEF Owed
    <3>2. Parked' = Parked \cup {w}
      BY <2>0, <2>1, <2>3, <2>6, <3>1
    <3>3. Pending' = Pending
      BY <2>0, <2>3, <2>6
    <3>4. w \notin Parked /\ w \notin Pending
      BY <2>0, <2>1, <2>6
    <3>5. P!Park(w)
      BY <3>2, <3>3, <3>4 DEF P!Park
    <3> QED BY <3>5 DEF P!ParkingNext
  <2> QED BY <2>4, <2>5, <2>6
<1>2. CASE WakeState
  <2>0. Active \in Threads /\ drained[Active] \in Seq(Tasks) /\ drained[Active] # <<>>
    BY <1>0, <1>2, Where DEF WakeState, TypeOK
  <2>1. PICK w \in Tasks : w = Head(drained[Active])
    BY <2>0, Seqs
  <2>2. CASE state[w] = "Blocked"
    <3>1. /\ state' = [state EXCEPT ![w] = "Ready"]
          /\ UNCHANGED wakeup_pending
      BY <1>2, <2>1, <2>2 DEF WakeState, Wakeable
    <3>2. Parked' = Parked \ {w} /\ Pending' = Pending /\ w \in Parked
      BY <1>0, <2>2, <3>1 DEF TypeOK
    <3>3. P!Unpark(w)
      BY <3>2 DEF P!Unpark
    <3> QED BY <3>3 DEF P!ParkingNext
  <2>3. CASE state[w] # "Blocked"
    <3>1. /\ wakeup_pending' = [wakeup_pending EXCEPT ![w] = TRUE]
          /\ UNCHANGED state
      BY <1>2, <2>1, <2>3 DEF WakeState, Wakeable
    <3>2. Pending' = Pending \cup {w} /\ Parked' = Parked /\ w \notin Parked
      BY <1>0, <2>3, <3>1 DEF TypeOK
    <3>3. P!Unpark(w)
      BY <3>2 DEF P!Unpark
    <3> QED BY <3>3 DEF P!ParkingNext
  <2> QED BY <2>2, <2>3
<1>3. ASSUME NEW t \in Tasks, Spawn(t) PROVE Same
  <2>1. state[t] = "Unborn" /\ ~wakeup_pending[t]
    BY <1>3 DEF Spawn, Waits, Locals, Stages
  <2> QED BY <1>0, <1>3, <2>1 DEF Spawn, TypeOK
<1>4. CASE IdleInstall
  <2>1. stack = Idle /\ next \in Tasks /\ pc[Active] = "idle_install"
    BY <1>0, <1>4, Where DEF IdleInstall, At
  <2>2. pc[Base(Idle)] = "idle_install"
    BY <1>0, <2>1 DEF Control, Active, Base, Trap, Stacks, IdleTrap
  <2>3. state[next] = "Ready"
    BY <1>0, <2>1, <2>2, Constants DEF States, Stacks
  <2> QED BY <1>0, <1>4, <2>1, <2>3 DEF IdleInstall, TypeOK
<1>5. CASE UNCHANGED <<state, wakeup_pending>>
  BY <1>5
<1>6. \/ SwState \/ WakeState \/ IdleInstall \/ \E t \in Tasks : Spawn(t)
      \/ UNCHANGED <<state, wakeup_pending>>
  BY DEF Next, KernelStep, TaskStep, WaitUnqueue, TaskEntry, WakePush, WakeDone, SwMask, SwTake,
     SwPrev, SwContext, SwResumed, IdlePrevious, IdlePop, IdleEmpty, IdleWfi, IdleMask,
     IdleCurrent, IdleSwitch, OnTimerTick, OnExternal, Drain, ReschedIfNeeded, TrapReturn,
     YieldNow, ExitCurrent, WaitPush, WakeOne, WakeAll, WfiReturns, TimerInterrupt,
     ExternalInterrupt, Interrupt, taskVars, vars
<1> QED BY <1>1, <1>2, <1>3, <1>4, <1>5, <1>6

\* The scheduler implements Parking, on which WaitQueue, Mutex, Semaphore and Process
\* are built: blocking and waking commute through every switch, tick and interrupt.
THEOREM ParkingRefinement == Spec => ImplementsParking
<1>1. Init => P!ParkingInit
  BY DEF Init, Boot, P!ParkingInit
<1>2. IInv /\ Waits /\ [Next]_vars => [P!ParkingNext]_(P!parkingVars)
  <2> SUFFICES ASSUME IInv, Waits, [Next]_vars
               PROVE  [P!ParkingNext]_(P!parkingVars)
    OBVIOUS
  <2>1. CASE /\ \A t \in Tasks : (state'[t] = "Blocked") <=> (state[t] = "Blocked")
             /\ \A t \in Tasks : wakeup_pending'[t] <=> wakeup_pending[t]
    <3>1. {t \in Tasks : state[t] = "Blocked"}' = {t \in Tasks : state[t] = "Blocked"}
      BY <2>1
    <3>2. {t \in Tasks : wakeup_pending[t]}' = {t \in Tasks : wakeup_pending[t]}
      BY <2>1
    <3> QED BY <3>1, <3>2 DEF P!parkingVars
  <2> QED BY <2>1, ParkingStep
<1> QED BY <1>1, <1>2, WaitsInvariance, PTL DEF Spec, ImplementsParking, P!ParkingSpec

=============================================================================
