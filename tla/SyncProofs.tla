----------------------------- MODULE SyncProofs -----------------------------
(***************************************************************************)
(* Proofs about Sync, for any set of tasks and any number of permits: the  *)
(* mutex excludes, no sleeper is out of reach, no wakeup is wasted, and    *)
(* the semaphore implements Permits.                                       *)
(*                                                                         *)
(* The invariant follows one wait through its three stages.  From its push *)
(* until it is awake again a task is held by exactly one of: its entry in  *)
(* the queue, the wake_one that popped the entry, the note in              *)
(* wakeup_pending.                                                         *)
(***************************************************************************)
EXTENDS Sync, SequenceTheorems, TLAPS

Labels == {"idle", "try", "check", "push", "park", "unqueue", "pop", "wake"}

Types ==
  /\ parked \subseteq Tasks
  /\ pending \subseteq Tasks
  /\ waiters \in [Queues -> Seq(Tasks)]
  /\ waking \in [Tasks -> Tasks \cup {None}]
  /\ pc \in [Tasks -> Labels]
  /\ self \in [Tasks -> Queues \cup {None}]
  /\ locked \in BOOLEAN
  /\ guards \subseteq Tasks
  /\ count \in Nat
  /\ holders \subseteq Tasks

\* The program counter against the call's locals.
Calls ==
  /\ \A t \in Tasks : pc[t] = "idle" <=> self[t] = None
  /\ \A t \in Tasks : pc[t] = "wake" <=> waking[t] # None

Distinct(s) == \A i, j \in 1 .. Len(s) : s[i] = s[j] => i = j

\* Who has an entry in a queue: a task inside the wait on that queue, once.
Entries ==
  /\ \A q \in Queues : Distinct(waiters[q])
  /\ \A q \in Queues, t \in Tasks :
       Contains(waiters[q], t) => self[t] = q /\ pc[t] \in {"park", "unqueue"}

\* Whom a wake_one has popped: a task inside wait that has no entry left and no
\* other wake_one coming.
Popping ==
  \A u, t \in Tasks : waking[u] = t =>
    /\ pc[t] \in {"park", "unqueue"}
    /\ t \notin pending
    /\ \A q \in Queues : ~Contains(waiters[q], t)
    /\ \A v \in Tasks : waking[v] = t => v = u

\* Who has a note: a task about to park whose wakeup came first.
Notes ==
  \A t \in pending : pc[t] = "park" /\ \A q \in Queues : ~Contains(waiters[q], t)

\* Somebody will still wake t.
Held(t) == (\E q \in Queues : Contains(waiters[q], t)) \/ \E u \in Tasks : waking[u] = t

\* A task about to park is held or has its note; past block_current it is held
\* exactly while it is parked.
Waits ==
  /\ \A t \in Tasks : pc[t] = "park" => Held(t) \/ t \in pending
  /\ \A t \in parked : pc[t] = "unqueue"
  /\ \A t \in Tasks : pc[t] = "unqueue" => (Held(t) <=> t \in parked)

\* A task inside a call on the semaphore has no permit: acquire is called without
\* one and release gives it back first.
Borrowers == \A t \in Tasks : self[t] = SemaphoreQueue => t \notin holders

IInv ==
  /\ Types
  /\ Calls
  /\ Entries
  /\ Popping
  /\ Notes
  /\ Waits
  /\ Borrowers
  /\ MutualExclusion

------------------------------------------------------------------------------
(* Sequences without duplicates                                               *)

\* push_back adds one entry; it is a new one if the task had none.
LEMMA AppendEntry ==
  ASSUME NEW s \in Seq(Tasks), NEW t \in Tasks
  PROVE  /\ Append(s, t) \in Seq(Tasks)
         /\ \A u : Contains(Append(s, t), u) <=> Contains(s, u) \/ u = t
         /\ Distinct(s) /\ ~Contains(s, t) => Distinct(Append(s, t))
<1>1. /\ Append(s, t) \in Seq(Tasks)
      /\ Len(Append(s, t)) = Len(s) + 1
      /\ \A i \in 1 .. Len(s) : Append(s, t)[i] = s[i]
      /\ Append(s, t)[Len(s) + 1] = t
      /\ Len(s) \in Nat
  BY AppendProperties, LenProperties
<1>2. QED
  BY <1>1 DEF Contains, Distinct

\* pop_front takes the first entry and, without duplicates, the task's only one.
LEMMA PopEntry ==
  ASSUME NEW s \in Seq(Tasks), s # <<>>, Distinct(s)
  PROVE  /\ Popped(s)[1] \in Tasks
         /\ Popped(s)[2] \in Seq(Tasks)
         /\ Contains(s, Popped(s)[1])
         /\ \A u : Contains(Popped(s)[2], u) <=> Contains(s, u) /\ u # Popped(s)[1]
         /\ Distinct(Popped(s)[2])
<1>1. /\ Head(s) = s[1]
      /\ Tail(s) \in Seq(Tasks)
      /\ Len(Tail(s)) = Len(s) - 1
      /\ \A i \in 1 .. Len(Tail(s)) : Tail(s)[i] = s[i + 1]
      /\ Len(s) \in Nat \ {0}
  BY HeadTailProperties, EmptySeq, LenProperties
<1>2. s[1] \in Tasks /\ 1 \in 1 .. Len(s)
  BY <1>1, ElementOfSeq
<1>3. ASSUME NEW u
      PROVE  Contains(Tail(s), u) <=> Contains(s, u) /\ u # Head(s)
  <2>1. ASSUME Contains(Tail(s), u) PROVE Contains(s, u) /\ u # Head(s)
    <3>1. PICK i \in 1 .. Len(Tail(s)) : Tail(s)[i] = u
      BY <2>1 DEF Contains
    <3>2. i + 1 \in 1 .. Len(s) /\ s[i + 1] = u /\ i + 1 # 1
      BY <1>1, <3>1
    <3>3. QED
      BY <1>1, <1>2, <3>2 DEF Contains, Distinct
  <2>2. ASSUME Contains(s, u), u # Head(s) PROVE Contains(Tail(s), u)
    <3>1. PICK i \in 1 .. Len(s) : s[i] = u
      BY <2>2 DEF Contains
    <3>2. i - 1 \in 1 .. Len(Tail(s)) /\ Tail(s)[i - 1] = u
      BY <1>1, <2>2, <3>1
    <3>3. QED
      BY <3>2 DEF Contains
  <2>3. QED
    BY <2>1, <2>2
<1>4. Distinct(Tail(s))
  BY <1>1 DEF Distinct
<1>5. QED
  BY <1>1, <1>2, <1>3, <1>4 DEF Popped, Contains

------------------------------------------------------------------------------
(* One lemma per kind of step                                                 *)

\* What a wait goes through.
Waiting == Calls /\ Entries /\ Popping /\ Notes /\ Waits

\* t goes on to the label `to` of a call on queue q.
GoesTo(t, q, to) ==
  /\ pc' = [pc EXCEPT ![t] = to]
  /\ self' = [self EXCEPT ![t] = IF to = "idle" THEN None ELSE q]

\* Code outside wait and wake_one leaves the waits alone.
LEMMA OutsideStep ==
  ASSUME Types, Waiting, NEW t \in Tasks, NEW q \in Queues,
         NEW to \in Labels \ {"park", "unqueue", "wake"},
         pc[t] \notin {"park", "unqueue", "wake"},
         GoesTo(t, q, to), UNCHANGED <<parkingVars, queueVars>>
  PROVE  Waiting'
<1>1. \A u \in Tasks : pc'[u] = IF u = t THEN to ELSE pc[u]
  BY DEF Types, GoesTo
<1>2. \A u \in Tasks : self'[u] = IF u = t THEN (IF to = "idle" THEN None ELSE q) ELSE self[u]
  BY DEF Types, GoesTo
<1>3. parked' = parked /\ pending' = pending /\ waiters' = waiters /\ waking' = waking
  BY DEF parkingVars, queueVars
<1>4. Calls'
  BY <1>1, <1>2, <1>3, WaitQueueAssumption DEF Waiting, Calls, Labels
<1>5. Entries'
  BY <1>1, <1>2, <1>3 DEF Waiting, Entries
<1>6. Popping'
  BY <1>1, <1>3 DEF Waiting, Popping
<1>7. Notes'
  BY <1>1, <1>3 DEF Waiting, Notes, Types
<1>8. Waits'
  <2>1. \A u : Held(u)' <=> Held(u)
    BY <1>3 DEF Held
  <2>2. QED
    BY <1>1, <1>3, <2>1 DEF Waiting, Waits, Types
<1>9. QED
  BY <1>4, <1>5, <1>6, <1>7, <1>8 DEF Waiting

\* wait's push_back: t is now held by its entry.
LEMMA PushStep ==
  ASSUME Types, Waiting, NEW t \in Tasks, NEW q \in Queues, WaitPush(t, q)
  PROVE  Waiting'
<1> DEFINE s == waiters[q]
<1>0. s \in Seq(Tasks)
  BY DEF Types
<1>1. /\ \A u \in Tasks : pc'[u] = IF u = t THEN "park" ELSE pc[u]
      /\ \A u \in Tasks : self'[u] = self[u]
      /\ self[t] = q /\ pc[t] = "push" /\ t \notin parked
      /\ parked' = parked /\ pending' = pending /\ waking' = waking
  BY DEF Types, WaitPush, Step, parkingVars
<1>2. \A r \in Queues : waiters'[r] = IF r = q THEN Append(s, t) ELSE waiters[r]
  BY DEF Types, WaitPush
<1>3. /\ \A r \in Queues : ~Contains(waiters[r], t)
      /\ t \notin pending
      /\ \A u \in Tasks : waking[u] # t
  BY <1>1 DEF Waiting, Entries, Notes, Popping
<1>4. \A r \in Queues, u \in Tasks :
        Contains(waiters'[r], u) <=> Contains(waiters[r], u) \/ (r = q /\ u = t)
  <2>1. \A u : Contains(Append(s, t), u) <=> Contains(s, u) \/ u = t
    BY <1>0, AppendEntry
  <2>2. QED
    BY <1>2, <2>1
<1>5. Calls'
  BY <1>1 DEF Waiting, Calls
<1>6. Entries'
  <2>1. \A r \in Queues : Distinct(waiters'[r])
    BY <1>0, <1>2, <1>3, AppendEntry DEF Waiting, Entries
  <2>2. QED
    BY <1>1, <1>4, <2>1 DEF Waiting, Entries
<1>7. Popping'
  BY <1>1, <1>3, <1>4 DEF Waiting, Popping
<1>8. Notes'
  BY <1>1, <1>3, <1>4 DEF Waiting, Notes, Types
<1>9. Waits'
  <2>1. \A u \in Tasks : Held(u)' <=> Held(u) \/ u = t
    BY <1>1, <1>4 DEF Held
  <2>2. QED
    BY <1>1, <2>1 DEF Waiting, Waits, Types
<1>10. QED
  BY <1>5, <1>6, <1>7, <1>8, <1>9 DEF Waiting

\* block_current: t sleeps, held, unless its note is there; then nobody holds it.
LEMMA ParkStep ==
  ASSUME Types, Waiting, NEW t \in Tasks, NEW q \in Queues, WaitPark(t, q)
  PROVE  Waiting'
<1>1. /\ \A u \in Tasks : pc'[u] = IF u = t THEN "unqueue" ELSE pc[u]
      /\ \A u \in Tasks : self'[u] = self[u]
      /\ self[t] = q /\ pc[t] = "park" /\ t \notin parked
      /\ waiters' = waiters /\ waking' = waking
  BY DEF Types, WaitPark, Step, queueVars
<1>2. \/ t \in pending /\ pending' = pending \ {t} /\ parked' = parked
      \/ t \notin pending /\ pending' = pending /\ parked' = parked \cup {t}
  BY DEF WaitPark, Park
<1>3. \A u : Held(u)' <=> Held(u)
  BY <1>1 DEF Held
<1>4. t \in pending => ~Held(t)
  BY DEF Waiting, Notes, Popping, Held
<1>5. Calls'
  BY <1>1 DEF Waiting, Calls
<1>6. Entries'
  BY <1>1 DEF Waiting, Entries
<1>7. Popping'
  BY <1>1, <1>2 DEF Waiting, Popping
<1>8. Notes'
  BY <1>1, <1>2 DEF Waiting, Notes, Types
<1>9. Waits'
  BY <1>1, <1>2, <1>3, <1>4 DEF Waiting, Waits, Types
<1>10. QED
  BY <1>5, <1>6, <1>7, <1>8, <1>9 DEF Waiting

\* wait's retain: a task that is awake again has no entry, so nothing is removed.
LEMMA UnqueueStep ==
  ASSUME Types, Waiting, NEW t \in Tasks, NEW q \in Queues, WaitUnqueue(t, q)
  PROVE  Waiting'
<1>1. /\ \A u \in Tasks : pc'[u] = IF u = t THEN "check" ELSE pc[u]
      /\ \A u \in Tasks : self'[u] = self[u]
      /\ self[t] = q /\ pc[t] = "unqueue" /\ t \notin parked
      /\ parked' = parked /\ pending' = pending /\ waking' = waking
  BY DEF Types, WaitUnqueue, Step, parkingVars
<1>2. ~Held(t)
  BY <1>1 DEF Waiting, Waits
<1>3. waiters' = waiters
  <2>1. Without(waiters[q], t) = waiters[q]
    BY <1>2 DEF Held, Without
  <2>2. QED
    BY <2>1 DEF Types, WaitUnqueue
<1>4. \A u : Held(u)' <=> Held(u)
  BY <1>1, <1>3 DEF Held
<1>5. Calls'
  BY <1>1 DEF Waiting, Calls
<1>6. Entries'
  BY <1>1, <1>2, <1>3 DEF Waiting, Entries, Held
<1>7. Popping'
  BY <1>1, <1>2, <1>3 DEF Waiting, Popping, Held
<1>8. Notes'
  BY <1>1, <1>3 DEF Waiting, Notes, Types
<1>9. Waits'
  BY <1>1, <1>4 DEF Waiting, Waits, Types
<1>10. QED
  BY <1>5, <1>6, <1>7, <1>8, <1>9 DEF Waiting

\* wake_one's pop_front: the hold passes from the entry to the waker.
LEMMA PopStep ==
  ASSUME Types, Waiting, NEW t \in Tasks, NEW q \in Queues, WakePop(t, q)
  PROVE  Waiting'
<1> DEFINE s == waiters[q]
<1>1. CASE s = <<>>
  <2>1. GoesTo(t, q, "idle") /\ pc[t] = "pop" /\ UNCHANGED <<parkingVars, queueVars>>
    BY <1>1 DEF WakePop, Step, GoesTo
  <2>2. QED
    BY <2>1, OutsideStep DEF Labels
<1>2. CASE s # <<>>
  <2>0. PICK w \in Tasks :
        /\ w = Popped(s)[1]
        /\ Contains(s, w)
        /\ \A u : Contains(Popped(s)[2], u) <=> Contains(s, u) /\ u # w
        /\ Distinct(Popped(s)[2])
    BY <1>2, PopEntry DEF Types, Waiting, Entries
  <2>1. /\ \A u \in Tasks : pc'[u] = IF u = t THEN "wake" ELSE pc[u]
        /\ \A u \in Tasks : self'[u] = self[u]
        /\ self[t] = q /\ pc[t] = "pop" /\ t \notin parked
        /\ parked' = parked /\ pending' = pending
    BY <1>2 DEF Types, WakePop, Step, parkingVars
  <2>2. /\ \A r \in Queues : waiters'[r] = IF r = q THEN Popped(s)[2] ELSE waiters[r]
        /\ \A u \in Tasks : waking'[u] = IF u = t THEN w ELSE waking[u]
    BY <1>2, <2>0 DEF Types, WakePop
  <2>3. \A r \in Queues, u \in Tasks :
          Contains(waiters'[r], u) <=> Contains(waiters[r], u) /\ ~(r = q /\ u = w)
    BY <2>0, <2>2
  <2>4. /\ self[w] = q /\ pc[w] \in {"park", "unqueue"} /\ w # t
        /\ w \notin pending
        /\ \A u \in Tasks : waking[u] # w
        /\ \A r \in Queues : Contains(waiters[r], w) => r = q
    BY <2>0, <2>1 DEF Waiting, Entries, Notes, Popping
  <2>5. Calls'
    BY <2>0, <2>1, <2>2, WaitQueueAssumption DEF Waiting, Calls
  <2>6. Entries'
    <3>1. \A r \in Queues : Distinct(waiters'[r])
      BY <2>0, <2>2 DEF Waiting, Entries
    <3>2. QED
      BY <2>1, <2>3, <2>4, <3>1 DEF Waiting, Entries
  <2>7. Popping'
    <3>1. \A u \in Tasks : waking'[u] = w <=> u = t
      BY <2>2, <2>4
    <3>2. \A u, v \in Tasks : waking'[u] = v /\ v # w => waking[u] = v
      BY <2>2
    <3>3. QED
      BY <2>1, <2>3, <2>4, <3>1, <3>2 DEF Waiting, Popping
  <2>8. Notes'
    BY <2>1, <2>3 DEF Waiting, Notes, Types
  <2>9. Waits'
    <3>1. waking[t] = None
      BY <2>1 DEF Waiting, Calls
    <3>2. Held(w) /\ Held(w)'
      BY <2>0, <2>2 DEF Held
    <3>3. ASSUME NEW u \in Tasks, u # w PROVE Held(u)' <=> Held(u)
      BY <2>2, <2>3, <3>1, <3>3, WaitQueueAssumption DEF Held
    <3>4. QED
      BY <2>1, <2>4, <3>2, <3>3 DEF Waiting, Waits, Types
  <2>10. QED
    BY <2>5, <2>6, <2>7, <2>8, <2>9 DEF Waiting
<1>3. QED
  BY <1>1, <1>2

\* scheduler::wake: the popped task is runnable, or gets its note before it parks.
LEMMA WakeStep ==
  ASSUME Types, Waiting, NEW t \in Tasks, NEW q \in Queues, WakeWaiter(t, q)
  PROVE  Waiting'
<1>1. /\ \A u \in Tasks : pc'[u] = IF u = t THEN "idle" ELSE pc[u]
      /\ \A u \in Tasks : self'[u] = IF u = t THEN None ELSE self[u]
      /\ self[t] = q /\ pc[t] = "wake" /\ t \notin parked
      /\ waiters' = waiters
      /\ \A u \in Tasks : waking'[u] = IF u = t THEN None ELSE waking[u]
  BY DEF Types, WakeWaiter, Step
<1>2. PICK w \in Tasks : w = waking[t]
  BY <1>1 DEF Types, Waiting, Calls
<1>3. \/ w \in parked /\ parked' = parked \ {w} /\ pending' = pending
      \/ w \notin parked /\ pending' = pending \cup {w} /\ parked' = parked
  BY <1>2 DEF WakeWaiter, Unpark
<1>4. /\ pc[w] \in {"park", "unqueue"} /\ w # t
      /\ w \notin pending
      /\ \A r \in Queues : ~Contains(waiters[r], w)
      /\ \A u \in Tasks : waking[u] = w => u = t
  BY <1>1, <1>2 DEF Waiting, Popping
<1>5. /\ Held(w)
      /\ ~Held(w)'
      /\ \A u \in Tasks : u # w => (Held(u)' <=> Held(u))
  <2>1. Held(w)
    BY <1>2 DEF Held
  <2>2. ~Held(w)'
    <3>1. \A u \in Tasks : waking'[u] # w
      BY <1>1, <1>2, <1>4, WaitQueueAssumption
    <3>2. QED
      BY <1>1, <1>4, <3>1 DEF Held
  <2>3. ASSUME NEW u \in Tasks, u # w PROVE Held(u)' <=> Held(u)
    BY <1>1, <1>2, <2>3, WaitQueueAssumption DEF Held
  <2>4. QED
    BY <2>1, <2>2, <2>3
<1>6. pc[w] = "unqueue" <=> w \in parked
  BY <1>2, <1>4, <1>5 DEF Waiting, Waits
<1>7. Calls'
  BY <1>1, WaitQueueAssumption DEF Waiting, Calls
<1>8. Entries'
  BY <1>1 DEF Waiting, Entries
<1>9. Popping'
  <2>1. \A u, v \in Tasks : waking'[u] = v => waking[u] = v /\ v # w
    BY <1>1, <1>4, WaitQueueAssumption
  <2>2. QED
    BY <1>1, <1>3, <2>1 DEF Waiting, Popping
<1>10. Notes'
  <2>0. w \notin parked => pc[w] = "park"
    BY <1>4, <1>6
  <2>1. \A u \in pending' : u \in pending \/ (u = w /\ pc[w] = "park")
    BY <1>3, <2>0
  <2>2. \A u \in pending' : u \in Tasks /\ u # t
    BY <1>1, <1>2, <1>4, <2>1 DEF Waiting, Notes, Types
  <2>3. QED
    BY <1>1, <1>4, <2>1, <2>2 DEF Waiting, Notes
<1>11. Waits'
  BY <1>1, <1>2, <1>3, <1>4, <1>5, <1>6 DEF Waiting, Waits, Types
<1>12. QED
  BY <1>7, <1>8, <1>9, <1>10, <1>11 DEF Waiting

\* wait and wake_one keep the types, and touch neither the flag nor the counter.
LEMMA QueueStepTypes ==
  ASSUME Types, Waiting, NEW t \in Tasks, NEW q \in Queues, QueueStep(t, q),
         UNCHANGED <<mutexVars, semaphoreVars>>
  PROVE  Types' /\ \A u \in Tasks : self'[u] \in {self[u], None}
<1>0. /\ locked' = locked /\ guards' = guards /\ count' = count /\ holders' = holders
      /\ waiters[q] \in Seq(Tasks)
  BY DEF mutexVars, semaphoreVars, Types
<1>1. CASE WaitPush(t, q)
  <2>1. Append(waiters[q], t) \in Seq(Tasks)
    BY <1>0, AppendEntry
  <2>2. QED
    BY <1>0, <1>1, <2>1 DEF WaitPush, Step, Types, Labels, parkingVars
<1>2. CASE WaitPark(t, q)
  BY <1>0, <1>2 DEF WaitPark, Park, Step, Types, Labels, queueVars
<1>3. CASE WaitUnqueue(t, q)
  <2>1. ~Contains(waiters[q], t)
    BY <1>3 DEF WaitUnqueue, Step, Waiting, Waits, Held
  <2>2. Without(waiters[q], t) = waiters[q]
    BY <2>1 DEF Without
  <2>3. QED
    BY <1>0, <1>3, <2>2 DEF WaitUnqueue, Step, Types, Labels, parkingVars
<1>4. CASE WakePop(t, q)
  <2>1. CASE waiters[q] = <<>>
    BY <1>0, <1>4, <2>1 DEF WakePop, Step, Types, Labels, parkingVars, queueVars
  <2>2. CASE waiters[q] # <<>>
    <3>1. Popped(waiters[q])[1] \in Tasks /\ Popped(waiters[q])[2] \in Seq(Tasks)
      BY <1>0, <2>2, PopEntry DEF Waiting, Entries
    <3>2. /\ waiters' = [waiters EXCEPT ![q] = Popped(waiters[q])[2]]
          /\ waking' = [waking EXCEPT ![t] = Popped(waiters[q])[1]]
          /\ Step(t, q, "pop", "wake")
          /\ UNCHANGED parkingVars
      BY <1>4, <2>2 DEF WakePop
    <3>3. waiters' \in [Queues -> Seq(Tasks)] /\ waking' \in [Tasks -> Tasks \cup {None}]
      BY <3>1, <3>2 DEF Types
    <3>4. QED
      BY <1>0, <3>2, <3>3 DEF Step, Types, Labels, parkingVars
  <2>3. QED
    BY <2>1, <2>2
<1>5. CASE WakeWaiter(t, q)
  <2>1. waking[t] \in Tasks
    BY <1>5 DEF WakeWaiter, Step, Types, Waiting, Calls
  <2>2. QED
    BY <1>0, <1>5, <2>1 DEF WakeWaiter, Unpark, Step, Types, Labels
<1>6. QED
  BY <1>1, <1>2, <1>3, <1>4, <1>5 DEF QueueStep

\* The steps of wait and wake_one keep the invariant, whichever primitive takes them.
LEMMA QueueStepIInv ==
  ASSUME IInv, NEW t \in Tasks, NEW q \in Queues, QueueStep(t, q),
         UNCHANGED <<mutexVars, semaphoreVars>>
  PROVE  IInv'
<1>1. Types /\ Waiting
  BY DEF IInv, Waiting
<1>2. Waiting'
  BY <1>1, PushStep, ParkStep, UnqueueStep, PopStep, WakeStep DEF QueueStep
<1>3. Types' /\ \A u \in Tasks : self'[u] \in {self[u], None}
  BY <1>1, QueueStepTypes
<1>4. Borrowers'
  BY <1>3, SemaphoreAssumption, WaitQueueAssumption DEF IInv, Borrowers, semaphoreVars
<1>5. MutualExclusion'
  BY DEF IInv, MutualExclusion, mutexVars
<1>6. QED
  BY <1>2, <1>3, <1>4, <1>5 DEF IInv, Waiting

\* The calls of the mutex and its own steps keep the invariant: the exchange makes a
\* guard only when there is none.
LEMMA MutexStepIInv ==
  ASSUME IInv, NEW t \in Tasks, UNCHANGED semaphoreVars,
         MutexCall(t) \/ CompareExchange(t) \/ WaitUntilFree(t)
  PROVE  IInv'
<1> DEFINE q == MutexQueue
<1>0. Types /\ Waiting /\ count' = count /\ holders' = holders /\ q \in Queues
  BY MutexAssumption DEF IInv, Waiting, semaphoreVars
<1>1. PICK to \in {"idle", "try", "check", "push", "pop"} :
        /\ GoesTo(t, q, to)
        /\ pc[t] \in {"idle", "try", "check"}
        /\ UNCHANGED <<parkingVars, queueVars>>
  <2>1. CASE Lock(t)
    BY <2>1 DEF Lock, Call, GoesTo
  <2>2. CASE TryLock(t)
    BY <2>2 DEF TryLock, Call, GoesTo
  <2>3. CASE Unlock(t)
    BY <2>3 DEF Unlock, Call, GoesTo
  <2>4. CASE CompareExchange(t)
    BY <2>4 DEF CompareExchange, Step, GoesTo
  <2>5. CASE WaitUntilFree(t)
    BY <2>5 DEF WaitUntilFree, WaitCheck, Step, GoesTo
  <2>6. QED
    BY <2>1, <2>2, <2>3, <2>4, <2>5 DEF MutexCall
<1>2. Waiting'
  BY <1>0, <1>1, OutsideStep DEF Labels
<1>3. \/ locked' = locked /\ guards' = guards
      \/ locked' = TRUE /\ guards' = IF locked THEN guards ELSE guards \cup {t}
      \/ t \in guards /\ locked' = FALSE /\ guards' = guards \ {t}
  BY DEF MutexCall, Lock, TryLock, Unlock, CompareExchange, WaitUntilFree, mutexVars
<1>4. Types'
  BY <1>0, <1>1, <1>3 DEF Types, GoesTo, parkingVars, queueVars, Labels
<1>5. Borrowers'
  <2>1. \A u \in Tasks : self'[u] \in {self[u], None, MutexQueue}
    BY <1>0, <1>1 DEF Types, GoesTo
  <2>2. QED
    BY <1>0, <2>1, SemaphoreAssumption, WaitQueueAssumption, SyncAssumption DEF IInv, Borrowers
<1>6. MutualExclusion'
  BY <1>3 DEF IInv, MutualExclusion
<1>7. QED
  BY <1>2, <1>4, <1>5, <1>6 DEF IInv, Waiting

\* So do those of the semaphore: it takes a permit only when there is one, for a task
\* that has none.
LEMMA SemaphoreStepIInv ==
  ASSUME IInv, NEW t \in Tasks, UNCHANGED mutexVars,
         SemaphoreCall(t) \/ TakePermit(t) \/ WaitUntilPermit(t)
  PROVE  IInv'
<1> DEFINE q == SemaphoreQueue
<1>0. Types /\ Waiting /\ locked' = locked /\ guards' = guards /\ q \in Queues
  BY SemaphoreAssumption DEF IInv, Waiting, mutexVars
<1>1. PICK to \in {"idle", "try", "check", "push", "pop"} :
        /\ GoesTo(t, q, to)
        /\ pc[t] \in {"idle", "try", "check"}
        /\ UNCHANGED <<parkingVars, queueVars>>
        /\ \/ count' = count /\ holders' = holders /\ (pc[t] = "idle" => t \notin holders)
              /\ (pc[t] # "idle" => self[t] = q)
           \/ count > 0 /\ to = "idle" /\ count' = count - 1 /\ holders' = holders \cup {t}
           \/ count' = count + 1 /\ holders' = holders \ {t}
  <2>1. CASE Acquire(t)
    BY <2>1 DEF Acquire, Call, GoesTo, semaphoreVars
  <2>2. CASE Release(t)
    BY <2>2 DEF Release, Call, GoesTo
  <2>3. CASE TakePermit(t)
    BY <2>3 DEF TakePermit, Available, Step, GoesTo, semaphoreVars
  <2>4. CASE WaitUntilPermit(t)
    BY <2>4 DEF WaitUntilPermit, WaitCheck, Step, GoesTo, semaphoreVars
  <2>5. QED
    BY <2>1, <2>2, <2>3, <2>4 DEF SemaphoreCall
<1>2. Waiting'
  BY <1>0, <1>1, OutsideStep DEF Labels
<1>3. Types'
  BY <1>0, <1>1 DEF Types, GoesTo, parkingVars, queueVars, Labels
<1>4. Borrowers'
  <2>1. \A u \in Tasks : self'[u] = IF u = t THEN (IF to = "idle" THEN None ELSE q) ELSE self[u]
    BY <1>0, <1>1 DEF Types, GoesTo
  <2>2. QED
    BY <1>0, <1>1, <2>1, WaitQueueAssumption DEF IInv, Borrowers
<1>5. MutualExclusion'
  BY <1>0 DEF IInv, MutualExclusion
<1>6. QED
  BY <1>2, <1>3, <1>4, <1>5 DEF IInv, Waiting

------------------------------------------------------------------------------
(* The invariant and what follows from it                                     *)

\* Nobody is in a call at boot.
LEMMA InitIInv == Init => IInv
<1> SUFFICES ASSUME Init PROVE IInv
  OBVIOUS
<1> USE DEF Init, QueueInit, ParkingInit, MutexInit, SemaphoreInit
<1>1. Types
  <2>1. Initial \in Nat
    BY SemaphoreAssumption
  <2>2. waiters \in [Queues -> Seq(Tasks)]
    BY EmptySeq
  <2>3. QED
    BY <2>1, <2>2 DEF Types, Labels
<1>2. \A q \in Queues, t \in Tasks : ~Contains(waiters[q], t)
  <2>1. Len(<<>>) = 0
    BY EmptySeq
  <2>2. 1 .. 0 = {}
    OBVIOUS
  <2>3. \A t \in Tasks : ~Contains(<<>>, t)
    BY <2>1, <2>2, Zenon DEF Contains
  <2>4. QED
    BY <2>3, Zenon
<1>3. Calls /\ Popping /\ Notes
  BY WaitQueueAssumption DEF Calls, Popping, Notes
<1>4. Entries
  BY <1>2, EmptySeq DEF Entries, Distinct
<1>5. Waits
  BY DEF Waits
<1>6. Borrowers /\ MutualExclusion
  BY DEF Borrowers, MutualExclusion
<1>7. QED
  BY <1>1, <1>3, <1>4, <1>5, <1>6 DEF IInv

\* Every step of every task keeps the invariant.
LEMMA NextIInv == IInv /\ [Next]_vars => IInv'
<1> SUFFICES ASSUME IInv, [Next]_vars PROVE IInv'
  OBVIOUS
<1>1. ASSUME NEW t \in Tasks, MutexCall(t), UNCHANGED semaphoreVars PROVE IInv'
  BY <1>1, MutexStepIInv
<1>2. ASSUME NEW t \in Tasks, SemaphoreCall(t), UNCHANGED mutexVars PROVE IInv'
  BY <1>2, SemaphoreStepIInv
<1>3. ASSUME NEW t \in Tasks, MutexContinue(t), UNCHANGED semaphoreVars PROVE IInv'
  BY <1>3, MutexStepIInv, QueueStepIInv, MutexAssumption DEF MutexContinue
<1>4. ASSUME NEW t \in Tasks, SemaphoreContinue(t), UNCHANGED mutexVars PROVE IInv'
  BY <1>4, SemaphoreStepIInv, QueueStepIInv, SemaphoreAssumption DEF SemaphoreContinue
<1>5. CASE UNCHANGED vars
  BY <1>5 DEF vars, parkingVars, queueVars, mutexVars, semaphoreVars, IInv, Types, Calls,
     Entries, Popping, Notes, Waits, Held, Borrowers, MutualExclusion
<1>6. QED
  BY <1>1, <1>2, <1>3, <1>4, <1>5 DEF Next, Continue

\* The invariant holds throughout.
THEOREM Invariance == Spec => []IInv
<1>1. QED
  BY InitIInv, NextIInv, PTL DEF Spec

\* Mutex: one guard at a time, and `locked` says whether there is one, for any
\* number of tasks and whatever the waiters and wakers are doing.
THEOREM Exclusion == Spec => []MutualExclusion
<1>1. IInv => MutualExclusion
  BY DEF IInv
<1>2. QED
  BY <1>1, Invariance, PTL

\* WaitQueue: a sleeper has its entry in the queue it waits on or a wake_one that is
\* about to call wake for it, so no wakeup is lost between push_back and block_current.
THEOREM SleepersHeld == Spec => []SleeperIsHeld
<1>1. IInv => SleeperIsHeld
  <2> SUFFICES ASSUME IInv, NEW t \in parked
               PROVE  Contains(waiters[self[t]], t) \/ \E u \in Tasks : waking[u] = t
    BY DEF SleeperIsHeld
  <2>1. t \in Tasks /\ Held(t)
    BY DEF IInv, Types, Waits
  <2>2. QED
    BY <2>1 DEF Held, IInv, Entries
<1>2. QED
  BY <1>1, Invariance, PTL

\* WaitQueue: every entry is of a task that waits on that queue, and its only one,
\* and a note in wakeup_pending is consumed by the wait it was left for.
THEOREM WakesNotWasted == Spec => []NoWakeWasted
<1>1. IInv => NoWakeWasted
  <2> SUFFICES ASSUME IInv PROVE NoWakeWasted
    OBVIOUS
  <2>1. ASSUME NEW q \in Queues, NEW i \in 1 .. Len(waiters[q])
        PROVE  self[waiters[q][i]] = q /\ pc[waiters[q][i]] \in {"park", "unqueue"}
    <3>1. waiters[q][i] \in Tasks /\ Contains(waiters[q], waiters[q][i])
      BY ElementOfSeq DEF IInv, Types, Contains
    <3>2. QED
      BY <3>1 DEF IInv, Entries
  <2>2. QED
    BY <2>1 DEF IInv, NoWakeWasted, Entries, Distinct, Notes
<1>2. QED
  BY <1>1, Invariance, PTL

\* Semaphore implements Permits: whatever the interleaving of acquires, releases and
\* wakeups, a step takes a permit there is, for a task without one, or gives one back.
THEOREM PermitsRefinement == Spec => ImplementsPermits
<1>1. Init => P!PermitsInit
  BY DEF Init, SemaphoreInit, P!PermitsInit
<1>2. IInv /\ [Next]_vars => [P!PermitsNext]_(P!permitVars)
  <2> SUFFICES ASSUME IInv, [Next]_vars
               PROVE  P!PermitsNext \/ UNCHANGED semaphoreVars
    BY DEF semaphoreVars, P!permitVars
  <2>1. ASSUME NEW t \in Tasks, SemaphoreCall(t)
        PROVE  P!PermitsNext \/ UNCHANGED semaphoreVars
    BY <2>1 DEF SemaphoreCall, Acquire, Release, P!PermitsNext, P!Give
  <2>2. ASSUME NEW t \in Tasks, TakePermit(t)
        PROVE  P!PermitsNext \/ UNCHANGED semaphoreVars
    <3>1. t \notin holders
      BY <2>2 DEF TakePermit, Step, IInv, Borrowers
    <3>2. QED
      BY <2>2, <3>1 DEF TakePermit, Available, P!PermitsNext, P!Take
  <2>3. QED
    BY <2>1, <2>2 DEF Next, Continue, SemaphoreContinue, WaitUntilPermit, vars
<1>3. QED
  BY <1>1, <1>2, Invariance, PTL DEF Spec, ImplementsPermits, P!PermitsSpec

=============================================================================
