------------------------------- MODULE Process -------------------------------
(***************************************************************************)
(* The process tree: sys_fork, sys_waitpid, sys_exit and kill_current of   *)
(* kernel/src/syscall/mod.rs, task/process.rs, task/scheduler.rs and       *)
(* trap/mod.rs, on top of Parking.                                         *)
(*                                                                         *)
(* System calls run with interrupts enabled, so another task may run       *)
(* between any two of their critical sections; each section is a step.     *)
(* A task is reference counted: it is freed when no strong reference to it *)
(* is left, and a child refers to its parent weakly.                       *)
(***************************************************************************)
EXTENDS Parking, Integers, FiniteSets, SequencesExt

CONSTANTS
  Root,        \* the first user process, init
  Codes,       \* values passed to exit
  Killed,      \* the exit code of a process the kernel kills
  Faulty,      \* the processes that may run into an illegal operation
  None

ASSUME ProcessAssumption ==
  /\ Root \in Tasks
  /\ Faulty \subseteq Tasks
  /\ None \notin Tasks
  /\ Killed \notin Codes

VARIABLES
  life,        \* "unborn", "alive", or "zombie" once it has switched away for good
  parent,      \* TaskInner::parent, a Weak
  children,    \* TaskInner::children
  exit_code,
  space,       \* tasks that still own an address space
  child_exit,  \* tasks with an entry in their own child_exit queue
  pc,
  want,        \* sys_waitpid: `want`; None stands for a negative one, any child
  reaping,     \* sys_waitpid: `found`
  upgraded,    \* on_exit: `parent`, the upgraded reference
  waking,      \* on_exit: the waiter that wake_all took from the parent's queue
  leaked,      \* tasks whose kernel stack still holds a reference to themselves
  collected    \* history: <<parent, child, code>> for each child waitpid returned

inner == <<life, parent, children, exit_code, space>>
local == <<want, reaping, upgraded, waking, leaked, collected>>
vars  == <<parkingVars, inner, child_exit, pc, local>>

Step(t, from, to) ==
  /\ life[t] = "alive"
  /\ t \notin parked
  /\ pc[t] = from
  /\ pc' = [pc EXCEPT ![t] = to]

------------------------------------------------------------------------------
(* Who is in memory                                                           *)

\* Tasks with a strong reference other than a parent's child list: the scheduler
\* or a wait queue refers to every task that is not a zombie.
Referenced ==
  {t \in Tasks : life[t] = "alive"} \cup leaked
    \cup {reaping[t] : t \in Tasks} \cup {upgraded[t] : t \in Tasks} \cup {waking[t] : t \in Tasks}

\* X has every task with such a reference and, with a task, its children.
Closed(X) == Referenced \ {None} \subseteq X /\ \A t \in X : ToSet(children[t]) \subseteq X

\* Tasks not yet freed.  Freeing a task drops its child list, so what counts is
\* whether a chain of child lists leads to the task.
InMemory == {t \in Tasks : \A X \in SUBSET Tasks : Closed(X) => t \in X}

------------------------------------------------------------------------------
(* sys_fork                                                                   *)

\* fork_from, the push onto the child list, and admit: nobody can tell them
\* apart, since only the parent knows the child before it is admitted.
Fork(t, c) ==
  /\ Step(t, "user", "user")
  /\ life[c] = "unborn"
  /\ life' = [life EXCEPT ![c] = "alive"]
  /\ parent' = [parent EXCEPT ![c] = t]
  /\ children' = [children EXCEPT ![t] = Append(@, c)]
  /\ space' = space \cup {c}
  /\ UNCHANGED <<exit_code, parkingVars, child_exit, local>>

------------------------------------------------------------------------------
(* sys_exit: exit_current                                                     *)

\* store the exit code
ExitCode(t, code) ==
  /\ Step(t, "user", "exit_space")
  /\ exit_code' = [exit_code EXCEPT ![t] = code]
  /\ UNCHANGED <<life, parent, children, space, parkingVars, child_exit, local>>

\* take the address space, switch to the kernel's, drop it
ExitSpace(t) ==
  /\ Step(t, "exit_space", "exit_parent")
  /\ space' = space \ {t}
  /\ UNCHANGED <<life, parent, children, exit_code, parkingVars, child_exit, local>>

\* mutant of HasParent: the reference is used without upgrading it
ParentIsStrong(t) == parent[t] # None

HasParent(t) == parent[t] \in InMemory

\* on_exit: upgrade the weak reference
ExitParent(t) ==
  /\ Step(t, "exit_parent", IF HasParent(t) THEN "exit_drain" ELSE "exit_switch")
  /\ upgraded' = [upgraded EXCEPT ![t] = IF HasParent(t) THEN parent[t] ELSE None]
  /\ UNCHANGED <<inner, parkingVars, child_exit, want, reaping, waking, leaked, collected>>

\* on_exit: wake_all takes the waiters of the parent's queue, the parent at most
ExitDrain(t) ==
  LET p == upgraded[t]
  IN  /\ Step(t, "exit_drain", "exit_wake")
      /\ child_exit' = child_exit \ {p}
      /\ waking' = [waking EXCEPT ![t] = IF p \in child_exit THEN p ELSE None]
      /\ UNCHANGED <<inner, parkingVars, want, reaping, upgraded, leaked, collected>>

\* mutant of ExitWake: the upgraded reference is forgotten instead of dropped
ExitWakeForgets(t) ==
  /\ Step(t, "exit_wake", "exit_switch")
  /\ \/ waking[t] # None /\ Unpark(waking[t])
     \/ waking[t] = None /\ UNCHANGED parkingVars
  /\ waking' = [waking EXCEPT ![t] = None]
  /\ UNCHANGED <<inner, child_exit, want, reaping, upgraded, leaked, collected>>

\* on_exit: wake each of them, and drop the parent
ExitWake(t) ==
  /\ Step(t, "exit_wake", "exit_switch")
  /\ \/ waking[t] # None /\ Unpark(waking[t])
     \/ waking[t] = None /\ UNCHANGED parkingVars
  /\ waking' = [waking EXCEPT ![t] = None]
  /\ upgraded' = [upgraded EXCEPT ![t] = None]
  /\ UNCHANGED <<inner, child_exit, want, reaping, leaked, collected>>

\* switch_to_idle(Zombie), and the idle loop drops the scheduler's reference
ExitSwitch(t) ==
  /\ Step(t, "exit_switch", "exit_switch")
  /\ life' = [life EXCEPT ![t] = "zombie"]
  /\ UNCHANGED <<parent, children, exit_code, space, parkingVars, child_exit, local>>

\* kill_current, on an exception from user mode: all of exit_current with
\* interrupts masked, under a reference that is never dropped
Kill(t) ==
  /\ t \in Faulty
  /\ Step(t, "user", "exit_switch")
  /\ exit_code' = [exit_code EXCEPT ![t] = Killed]
  /\ space' = space \ {t}
  /\ \/ /\ HasParent(t) /\ parent[t] \in child_exit
        /\ Unpark(parent[t])
        /\ child_exit' = child_exit \ {parent[t]}
     \/ /\ ~(HasParent(t) /\ parent[t] \in child_exit)
        /\ UNCHANGED <<parkingVars, child_exit>>
  /\ life' = [life EXCEPT ![t] = "zombie"]
  /\ leaked' = leaked \cup {t}
  /\ UNCHANGED <<parent, children, want, reaping, upgraded, waking, collected>>

------------------------------------------------------------------------------
(* sys_waitpid                                                                *)

Waitpid(t, w) ==
  /\ Step(t, "user", "scan")
  /\ want' = [want EXCEPT ![t] = w]
  /\ UNCHANGED <<inner, parkingVars, child_exit, reaping, upgraded, waking, leaked, collected>>

Matches(t, c) == want[t] \in {None, c}

\* mutant of Reapable: the state of the child is not looked at
MatchIsEnough(t, c) == Matches(t, c)

Reapable(t, c) == Matches(t, c) /\ life[c] = "zombie"

\* the scan under the caller's lock: take the first zombie that matches, fail if
\* no child could ever match, and otherwise wait
Scan(t) ==
  LET list == children[t]
      Zombie(i) == Reapable(t, list[i])
      hopeful == \E i \in 1 .. Len(list) : Matches(t, list[i])
  IN  /\ \/ \E i \in 1 .. Len(list) :
              /\ Zombie(i) /\ \A j \in 1 .. i - 1 : ~Zombie(j)
              /\ Step(t, "scan", "reap")
              /\ reaping' = [reaping EXCEPT ![t] = list[i]]
              /\ children' = [children EXCEPT ![t] = RemoveAt(@, i)]
              /\ want' = [want EXCEPT ![t] = None]
         \/ /\ \A i \in 1 .. Len(list) : ~Zombie(i)
            /\ Step(t, "scan", IF hopeful THEN "push" ELSE "user")
            /\ want' = [want EXCEPT ![t] = IF hopeful THEN @ ELSE None]
            /\ UNCHANGED <<reaping, children>>
      /\ UNCHANGED <<life, parent, exit_code, space, parkingVars, child_exit,
                     upgraded, waking, leaked, collected>>

\* read the exit code, copy it out, and drop the child
Reap(t) ==
  LET c == reaping[t]
  IN  /\ Step(t, "reap", "user")
      /\ collected' = collected \cup {<<t, c, exit_code[c]>>}
      /\ reaping' = [reaping EXCEPT ![t] = None]
      /\ UNCHANGED <<inner, parkingVars, child_exit, want, upgraded, waking, leaked>>

\* child_exit.wait(), in the three sections of WaitQueue::wait
WaitPush(t) ==
  /\ Step(t, "push", "park")
  /\ child_exit' = child_exit \cup {t}
  /\ UNCHANGED <<inner, parkingVars, local>>

WaitPark(t) ==
  /\ Step(t, "park", "unqueue")
  /\ Park(t)
  /\ UNCHANGED <<inner, child_exit, local>>

WaitUnqueue(t) ==
  /\ Step(t, "unqueue", "scan")
  /\ child_exit' = child_exit \ {t}
  /\ UNCHANGED <<inner, parkingVars, local>>

------------------------------------------------------------------------------

\* start_init has created the first process.
Init ==
  /\ ParkingInit
  /\ life = [t \in Tasks |-> IF t = Root THEN "alive" ELSE "unborn"]
  /\ parent = [t \in Tasks |-> None]
  /\ children = [t \in Tasks |-> <<>>]
  /\ exit_code = [t \in Tasks |-> None]
  /\ space = {Root}
  /\ child_exit = {}
  /\ pc = [t \in Tasks |-> "user"]
  /\ want = [t \in Tasks |-> None]
  /\ reaping = [t \in Tasks |-> None]
  /\ upgraded = [t \in Tasks |-> None]
  /\ waking = [t \in Tasks |-> None]
  /\ leaked = {}
  /\ collected = {}

\* What a program asks for, and when, is up to it.
UserStep(t) ==
  \/ \E c \in Tasks : Fork(t, c)
  \/ \E code \in Codes : ExitCode(t, code)
  \/ \E w \in Tasks \cup {None} : Waitpid(t, w)
  \/ Kill(t)

\* The rest of a system call that has begun.
Continue(t) ==
  \/ ExitSpace(t) \/ ExitParent(t) \/ ExitDrain(t) \/ ExitWake(t) \/ ExitSwitch(t)
  \/ Scan(t) \/ Reap(t) \/ WaitPush(t) \/ WaitPark(t) \/ WaitUnqueue(t)

Next == \E t \in Tasks : UserStep(t) \/ Continue(t)

Spec == Init /\ [][Next]_vars

\* A runnable task gets to run.
FairSpec == Spec /\ \A t \in Tasks : WF_vars(Continue(t))

------------------------------------------------------------------------------
(* Properties                                                                 *)

\* An exit status is neither lost, nor made up, nor delivered twice: a process is
\* in its parent's child list, once, from fork until its parent's waitpid takes
\* it out as a zombie, and waitpid reports the code it exited with.
StatusDeliveredOnce ==
  /\ \A c \in Tasks : life[c] # "unborn" /\ c # Root =>
       LET p == parent[c]
           listed == {i \in 1 .. Len(children[p]) : children[p][i] = c}
       IN  /\ Cardinality(listed) =
                IF reaping[p] = c \/ \E code \in Codes \cup {Killed} : <<p, c, code>> \in collected
                THEN 0 ELSE 1
           /\ \A q \in Tasks \ {p} : ~Contains(children[q], c)
  /\ \A r \in collected :
       /\ r[1] = parent[r[2]]
       /\ life[r[2]] = "zombie"
       /\ r[3] = exit_code[r[2]]

\* Nothing is used after it was freed: no reference to a freed task comes back,
\* in particular none through the weak reference of an orphan that exits.
FreedStaysFreed ==
  [][\A t \in Tasks : life[t] # "unborn" /\ t \notin InMemory => t \notin InMemory']_vars

\* Nobody is left who could ask for the status of t.
Abandoned(t) ==
  life[t] = "zombie" /\ parent[t] # None /\
    (~Contains(children[parent[t]], t) \/ parent[t] \notin InMemory)

\* waitpid: "Last reference: dropping it here frees the child's kernel stack and
\* address space."  A zombie that called exit itself and was collected, or whose
\* parent is gone, is freed, at the latest when the exits in progress have
\* finished with it.  (One that kill_current ended leaves a reference to itself
\* on its dead stack, and is never freed.)
ExitedIsFreed ==
  \A t \in Tasks : Abandoned(t) /\ exit_code[t] # Killed ~> t \notin InMemory

\* on_exit: "The parent may be blocked in waitpid. [...] a missed [wake] hangs
\* it."  A parent asleep in waitpid has no zombie it waits for, or somebody is
\* about to wake it.
NoSleepBesideZombie ==
  \A t \in parked :
    (\E i \in 1 .. Len(children[t]) : Reapable(t, children[t][i])) =>
      \E u \in Tasks :
        \/ waking[u] = t
        \/ life[u] = "alive" /\ parent[u] = t /\ pc[u] \in {"exit_space", "exit_parent", "exit_drain"}

=============================================================================
