------------------------------ MODULE UserTrap -------------------------------
(***************************************************************************)
(* The way into the kernel and back to a user program: trap/user.S,        *)
(* user_trap_handler of kernel/src/trap/mod.rs, and the trap frames that   *)
(* new_user, fork_from, exec_current and user_entry of task/process.rs     *)
(* build, replace and resume.                                              *)
(*                                                                         *)
(* A frame is a block of the kernel heap.  Its 31 registers and sepc are   *)
(* abstracted to r, the point the program has reached, and a0, which the   *)
(* kernel writes.  A kernel stack is named by its task.  Scheduling is     *)
(* abstracted: a task leaves the hart to the idle task, and any task that  *)
(* is neither running nor dead may be dispatched.                          *)
(***************************************************************************)
EXTENDS Integers

CONSTANTS
  Tasks, Blocks,
  Idle, NoBlock,
  POINTS            \* a program runs through 0 .. POINTS - 1 for ever

ASSUME UserTrapAssumption == POINTS \in Nat \ {0} /\ Idle \notin Tasks /\ NoBlock \notin Blocks

VARIABLES
  free,             \* blocks of the heap that are free
  saved,            \* saved[b]: the frame in block b
  frame,            \* TaskInner::frame
  pc,               \* where the task is, or "none"
  arg,              \* the argument `frame` of user_trap_handler, dead: NoBlock
  kctx,             \* the stack TaskContext::sp of a switched-off task points into
  current,
  stack,            \* whose kernel stack sp points into, in supervisor mode
  stvec,
  sscratch,         \* NoBlock: no frame, but 0 or the stack pointer of the last program
  regs,             \* the program's registers, in user mode
  expected,         \* history: the registers the program must find when it resumes
  struck            \* history: blocks whose a0 was written through a stale pointer

heapVars == <<free, saved, frame>>
hartVars == <<current, stack, stvec, sscratch, regs>>
vars     == <<heapVars, pc, arg, kctx, hartVars, expected, struck>>

\* Contents nobody depends on: a free block, the registers of kernel code.
Blank == [r |-> POINTS, a0 |-> "kernel", ksp |-> Idle]
KernelRegs == [r |-> POINTS, a0 |-> "kernel"]

\* Interrupts are on in system calls and in the first steps of a new task
\* (task_entry), and off on the way out of user_trap_handler.
Unmasked == {"syscall", "return", "entry", "vectored"}

Step(t, from, to) ==
  /\ current = t
  /\ pc[t] = from
  /\ pc' = [pc EXCEPT ![t] = to]

------------------------------------------------------------------------------
(* Frames                                                                     *)

\* mutant of ForkFrame: the child traps onto its parent's kernel stack
ForkFrameShared(t, u) == [saved[arg[t]] EXCEPT !.a0 = "zero"]

\* child_frame: a copy with its own kernel stack and a0 zeroed
ForkFrame(t, u) == [saved[arg[t]] EXCEPT !.a0 = "zero", !.ksp = u]

\* TrapFrame::new_user, with argc in a0
NewUserFrame(t) == [r |-> 0, a0 |-> "argc", ksp |-> t]

\* user_trap_return: sscratch, sstatus, sepc and the registers, then sret
Resume(b) ==
  /\ sscratch' = b
  /\ regs' = [r |-> saved[b].r, a0 |-> saved[b].a0]

------------------------------------------------------------------------------
(* User mode                                                                  *)

Compute(t) ==
  /\ Step(t, "user", "user")
  /\ regs' = [r |-> (regs.r + 1) % POINTS, a0 |-> "prog"]
  /\ expected' = [expected EXCEPT ![t] = regs']
  /\ UNCHANGED <<heapVars, arg, kctx, current, stack, stvec, sscratch, struck>>

\* mutant of Vectored: set_kernel_vector is forgotten
VectoredNowhere == UNCHANGED stvec

\* set_kernel_vector
Vectored == stvec' = "kernel"

\* user_trap_entry and user_trap_handler up to its match.  The frame is found
\* through sscratch, which is left with the program's stack pointer.
Enter(t, stored) ==
  /\ saved' = [saved EXCEPT ![sscratch] = [r |-> stored.r, a0 |-> stored.a0, ksp |-> @.ksp]]
  /\ stack' = saved[sscratch].ksp
  /\ arg' = [arg EXCEPT ![t] = sscratch]
  /\ sscratch' = NoBlock
  /\ struck' = struck \ {sscratch}
  /\ regs' = KernelRegs
  /\ Vectored
  /\ UNCHANGED <<free, frame, kctx, current>>

\* ecall: sepc is advanced and interrupts go on
Ecall(t) ==
  LET advanced == [regs EXCEPT !.r = (@ + 1) % POINTS]
  IN  /\ Step(t, "user", "syscall")
      /\ Enter(t, advanced)
      /\ expected' = [expected EXCEPT ![t] = [advanced EXCEPT !.a0 = "ret"]]

\* a timer, external or software interrupt
UserInterrupt(t) ==
  /\ Step(t, "user", "resched")
  /\ Enter(t, regs)
  /\ expected' = [expected EXCEPT ![t] = regs]

\* any other exception: kill_current, with interrupts off
UserFault(t) ==
  /\ Step(t, "user", "killed")
  /\ Enter(t, regs)
  /\ UNCHANGED expected

------------------------------------------------------------------------------
(* System calls: dispatch                                                     *)

\* one that neither makes nor replaces a frame, or one that fails
SysOther(t) ==
  /\ Step(t, "syscall", "return")
  /\ UNCHANGED <<heapVars, arg, kctx, hartVars, expected, struck>>

\* sys_fork: u is the child, b the block Box::new gets for its frame
SysFork(t, u, b) ==
  /\ current = t /\ pc[t] = "syscall" /\ pc[u] = "none" /\ b \in free
  /\ pc' = [pc EXCEPT ![t] = "return", ![u] = "fresh"]
  /\ free' = free \ {b}
  /\ saved' = [saved EXCEPT ![b] = ForkFrame(t, u)]
  /\ frame' = [frame EXCEPT ![u] = b]
  /\ kctx' = [kctx EXCEPT ![u] = u]
  /\ expected' = [expected EXCEPT ![u] = [expected[t] EXCEPT !.a0 = "zero"]]
  /\ UNCHANGED <<arg, hartVars, struck>>

\* mutant of Released: assigning inner.frame leaks the old box
ReleasedNone(t) == {}

\* inner.frame = Some(frame) drops the frame it replaces
Released(t) == {frame[t]}

\* sys_exec, from Box::new to its return; `frame` of the handler now dangles
SysExec(t, b) ==
  /\ Step(t, "syscall", "return")
  /\ b \in free
  /\ free' = (free \ {b}) \cup Released(t)
  /\ saved' = [c \in Blocks |-> IF c = b THEN NewUserFrame(t)
                                ELSE IF c \in Released(t) THEN Blank ELSE saved[c]]
  /\ frame' = [frame EXCEPT ![t] = b]
  /\ struck' = struck \ Released(t)
  /\ expected' = [expected EXCEPT ![t] = [r |-> 0, a0 |-> "argc"]]
  /\ UNCHANGED <<arg, kctx, hartVars>>

\* interrupts go off, then frame.set_return: through the argument, whether or
\* not it still is this task's frame, or anybody's
SetReturn(t) ==
  /\ Step(t, "return", "resched")
  /\ saved' = IF arg[t] \in free THEN saved ELSE [saved EXCEPT ![arg[t]].a0 = "ret"]
  /\ struck' = IF arg[t] \in free \cup {frame[t]} THEN struck ELSE struck \cup {arg[t]}
  /\ UNCHANGED <<free, frame, arg, kctx, hartVars, expected>>

\* exit_current, from sys_exit or kill_current
Exit(t) ==
  /\ current = t /\ pc[t] \in {"syscall", "killed"}
  /\ pc' = [pc EXCEPT ![t] = "zombie"]
  /\ arg' = [arg EXCEPT ![t] = NoBlock]
  /\ current' = Idle /\ stack' = Idle
  /\ UNCHANGED <<heapVars, kctx, stvec, sscratch, regs, expected, struck>>

\* the last reference to a dead task goes, and its frame with it; a task that was
\* killed keeps a reference to itself and never gets here, which this step allows
DropTask(t) ==
  /\ pc[t] = "zombie"
  /\ pc' = [pc EXCEPT ![t] = "none"]
  /\ free' = free \cup {frame[t]}
  /\ saved' = [saved EXCEPT ![frame[t]] = Blank]
  /\ frame' = [frame EXCEPT ![t] = NoBlock]
  /\ struck' = struck \ {frame[t]}
  /\ UNCHANGED <<arg, kctx, hartVars, expected>>

------------------------------------------------------------------------------
(* Switching, and the way back to user mode                                   *)

\* resched_if_needed, at the end of user_trap_handler or of kernel_trap_handler,
\* or a system call that gives up the hart
SwitchOff(t) ==
  /\ current = t
  /\ pc[t] \in {"resched"} \cup (Unmasked \ {"vectored"})
  /\ kctx' = [kctx EXCEPT ![t] = stack]
  /\ current' = Idle /\ stack' = Idle
  /\ UNCHANGED <<heapVars, pc, arg, stvec, sscratch, regs, expected, struck>>

Dispatch(t) ==
  /\ current = Idle
  /\ pc[t] \notin {"none", "zombie"}
  /\ current' = t /\ stack' = kctx[t]
  /\ UNCHANGED <<heapVars, pc, arg, kctx, stvec, sscratch, regs, expected, struck>>

\* mutant of FrameToResume: the frame the trap arrived with
FrameToResumeArg(t) == arg[t]

\* frame_ptr
FrameToResume(t) == frame[t]

\* set_user_vector and the return of user_trap_handler
TrapReturn(t) ==
  /\ Step(t, "resched", "user")
  /\ stvec' = "user"
  /\ Resume(FrameToResume(t))
  /\ stack' = Idle
  /\ arg' = [arg EXCEPT ![t] = NoBlock]
  /\ UNCHANGED <<heapVars, kctx, current, expected, struck>>

\* task_entry
TaskEntry(t) ==
  /\ Step(t, "fresh", "entry")
  /\ UNCHANGED <<heapVars, arg, kctx, hartVars, expected, struck>>

\* user_entry: set_user_vector, while interrupts are on
UserEntry(t) ==
  /\ Step(t, "entry", "vectored")
  /\ stvec' = "user"
  /\ UNCHANGED <<heapVars, arg, kctx, current, stack, sscratch, regs, expected, struck>>

\* user_entry: frame_ptr and user_trap_return, which masks interrupts
UserEntryReturn(t) ==
  /\ Step(t, "vectored", "user")
  /\ Resume(frame[t])
  /\ stack' = Idle
  /\ UNCHANGED <<heapVars, arg, kctx, current, stvec, expected, struck>>

\* An interrupt between the two runs user_trap_entry in supervisor mode.  The swap
\* makes sp what sscratch holds, a user address or 0, and the first store faults,
\* because SUM is never set.  That fault enters once more and swaps back: what the
\* entry takes for a frame is the task's own kernel stack pointer.  It stores the
\* registers there, over the live stack, and loads sp from a word that nobody set
\* up; if that is a stack at all, user_trap_handler finds a fault and kills the
\* task.  (The window goes on for the instructions of user_trap_return from its
\* write of sscratch to its write of sstatus; that part is left out.)
SupervisorInUserEntry(t) ==
  /\ Step(t, "vectored", "killed")
  /\ stack' \in Tasks \cup {Idle}
  /\ arg' = [arg EXCEPT ![t] = NoBlock]
  /\ Vectored
  /\ UNCHANGED <<heapVars, kctx, current, sscratch, regs, expected, struck>>

------------------------------------------------------------------------------

\* start_init: one process, made by new_user, no user mode yet
Init ==
  \E t \in Tasks, b \in Blocks :
    /\ free = Blocks \ {b}
    /\ saved = [c \in Blocks |-> IF c = b THEN NewUserFrame(t) ELSE Blank]
    /\ frame = [u \in Tasks |-> IF u = t THEN b ELSE NoBlock]
    /\ pc = [u \in Tasks |-> IF u = t THEN "fresh" ELSE "none"]
    /\ arg = [u \in Tasks |-> NoBlock]
    /\ kctx = [u \in Tasks |-> u]
    /\ current = Idle /\ stack = Idle
    /\ stvec = "kernel" /\ sscratch = NoBlock
    /\ regs = KernelRegs
    /\ expected = [u \in Tasks |-> [r |-> 0, a0 |-> "argc"]]
    /\ struck = {}

TaskStep(t) ==
  \/ Compute(t) \/ Ecall(t) \/ UserInterrupt(t) \/ UserFault(t)
  \/ SysOther(t) \/ Exit(t) \/ SetReturn(t)
  \/ \E b \in Blocks : SysExec(t, b) \/ \E u \in Tasks : SysFork(t, u, b)
  \/ SwitchOff(t) \/ Dispatch(t) \/ DropTask(t)
  \/ TrapReturn(t) \/ TaskEntry(t) \/ UserEntry(t) \/ UserEntryReturn(t)

Quiet == \E t \in Tasks : TaskStep(t)

Next == Quiet \/ \E t \in Tasks : SupervisorInUserEntry(t)

Spec == Init /\ [][Next]_vars

\* No interrupt in the few instructions between set_user_vector and sstatus in
\* user_entry.  The code does not ensure this; everything else is as in Spec.
QuietSpec == Init /\ [][Quiet]_vars

------------------------------------------------------------------------------
(* Properties                                                                 *)

InUser == current # Idle /\ pc[current] = "user"

\* The heap blocks in use are exactly the frames of the tasks that exist, one
\* each: exec frees the frame it replaces, a dead task takes its own along.
FramesOwned ==
  /\ {frame[t] : t \in {u \in Tasks : pc[u] # "none"}} = Blocks \ free
  /\ \A t, u \in Tasks : t # u /\ frame[t] = frame[u] => frame[t] = NoBlock

\* A program resumes where it left off: after an interrupt with the registers it
\* had, after a system call past the ecall with the result in a0, after exec at
\* the start of the new image, a fork child beside its parent with a0 zero,
\* however many other tasks trapped in between.  Only a0 may differ, and only if
\* an exec that was preempted before its set_return has since written it through
\* the frame it no longer owns.
ContextKept ==
  InUser => /\ regs.r = expected[current].r
            /\ sscratch \notin struck => regs.a0 = expected[current].a0

\* The kernel code of a task runs on that task's kernel stack: every frame names
\* its owner's, through fork and exec.
OwnStack == current # Idle /\ ~InUser => stack = current

\* The trap vector and sscratch fit what the hart is doing: user code traps
\* through user_trap_entry into its own frame, and an interrupt of the kernel goes
\* to kernel_trap_entry, except in user_entry.
VectorFits ==
  IF InUser THEN stvec = "user" /\ sscratch = frame[current]
  ELSE stvec = "kernel" \/ (current # Idle /\ pc[current] = "vectored")

\* user_trap_handler is "called from user.S with the saved frame": its argument is
\* the frame of the task that trapped.
HandlerHasFrame ==
  \A t \in Tasks : pc[t] \in {"syscall", "killed"} => arg[t] = frame[t]

=============================================================================
