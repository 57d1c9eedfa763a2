--------------------------- MODULE UserTrapProofs ---------------------------
(***************************************************************************)
(* Proofs about UserTrap, for any numbers of tasks, heap blocks and        *)
(* program points: every frame has one owner, a program resumes where it   *)
(* left off, kernel code runs on its own task's stack and the trap vector  *)
(* fits the mode, when no interrupt falls between the two steps of         *)
(* user_entry (QuietSpec).                                                 *)
(***************************************************************************)
EXTENDS UserTrap, TLAPS

Labels == {"none", "fresh", "entry", "vectored", "user", "syscall", "return", "resched",
           "killed", "zombie"}
Args   == {"kernel", "prog", "zero", "argc", "ret"}
Regs   == [r : 0 .. POINTS, a0 : Args]
Frames == [r : 0 .. POINTS, a0 : Args, ksp : Tasks \cup {Idle}]

Types ==
  /\ free \subseteq Blocks
  /\ saved \in [Blocks -> Frames]
  /\ frame \in [Tasks -> Blocks \cup {NoBlock}]
  /\ pc \in [Tasks -> Labels]
  /\ arg \in [Tasks -> Blocks \cup {NoBlock}]
  /\ kctx \in [Tasks -> Tasks \cup {Idle}]
  /\ current \in Tasks \cup {Idle}
  /\ regs \in Regs
  /\ expected \in [Tasks -> Regs]
  /\ struck \subseteq Blocks

\* A block is free or the frame of one task that exists.
Owners ==
  /\ \A t \in Tasks : frame[t] = NoBlock <=> pc[t] = "none"
  /\ \A t, u \in Tasks : t # u /\ frame[t] = frame[u] => frame[t] = NoBlock
  /\ \A b \in Blocks : b \in free <=> \A t \in Tasks : frame[t] # b
  /\ struck \cap free = {}

\* A frame names its owner's kernel stack, and a task that is switched off will be
\* resumed on its own.
Stacks ==
  /\ \A t \in Tasks : kctx[t] = t
  /\ \A t \in Tasks : pc[t] # "none" => saved[frame[t]].ksp = t
  /\ OwnStack

\* A task is on the hart throughout user mode, kill_current and the end of
\* user_entry, and a dead one never is.
Control ==
  /\ \A t \in Tasks : pc[t] \in {"user", "vectored", "killed"} => current = t
  /\ \A t \in Tasks : pc[t] \in {"none", "zombie"} => current # t
  /\ \A t \in Tasks : pc[t] = "vectored" => stvec = "user"
  /\ VectorFits

\* In the kernel the program's registers are in its frame.  In a system call a0 is
\* still to be written, through arg, which is the frame unless exec replaced it.
Contexts ==
  /\ \A t \in Tasks :
       pc[t] \in {"fresh", "entry", "vectored", "syscall", "return", "resched"} =>
         saved[frame[t]].r = expected[t].r
  /\ \A t \in Tasks :
       (pc[t] \in {"fresh", "entry", "vectored", "resched"}
          \/ (pc[t] = "return" /\ arg[t] # frame[t])) =>
         frame[t] \in struck \/ saved[frame[t]].a0 = expected[t].a0
  /\ \A t \in Tasks : pc[t] \in {"syscall", "killed"} => arg[t] = frame[t]
  /\ \A t \in Tasks : pc[t] = "syscall" => expected[t].a0 = "ret"
  /\ \A t \in Tasks : pc[t] = "return" => 
       arg[t] \in Blocks /\ (arg[t] = frame[t] => expected[t].a0 = "ret")
  /\ ContextKept

IInv == Types /\ Owners /\ Stacks /\ Control /\ Contexts

------------------------------------------------------------------------------
(* One lemma per action                                                       *)

\* The program computes in user mode.
LEMMA ComputeIInv ==
  ASSUME IInv, NEW t \in Tasks, Compute(t)
  PROVE  IInv'
<1> USE UserTrapAssumption DEF IInv, Compute, Step, heapVars, hartVars, Types
<1>1. Types'
  BY DEF Labels, Args, Regs, Frames
<1>2. Owners'
  BY DEF Owners
<1>3. Stacks'
  BY DEF Stacks, Owners, Control, OwnStack, InUser, VectorFits
<1>4. Control'
  BY DEF Control, VectorFits, InUser
<1>5. Contexts'
  BY DEF Contexts, ContextKept, InUser, Control, VectorFits, Owners
<1>6. QED
  BY <1>1, <1>2, <1>3, <1>4, <1>5

\* A system call saves the program past the ecall, in its own frame.
LEMMA EcallIInv ==
  ASSUME IInv, NEW t \in Tasks, Ecall(t)
  PROVE  IInv'
<1> USE UserTrapAssumption DEF IInv, Ecall, Step, Enter, Vectored, KernelRegs, heapVars, hartVars, Types
<1>1. Types'
  <2>1. sscratch \in Blocks /\ saved[sscratch].ksp \in Tasks \cup {Idle}
    BY DEF Control, VectorFits, InUser, Owners, Frames
  <2>2. (regs.r + 1) % POINTS \in 0 .. POINTS /\ regs.a0 \in Args
    BY DEF Regs
  <2>3. saved' \in [Blocks -> Frames]
    BY <2>1, <2>2 DEF Frames
  <2>4. expected' \in [Tasks -> Regs]
    BY <2>2, Zenon DEF Regs, Args
  <2>5. QED
    BY <2>1, <2>3, <2>4 DEF Labels, Args, Regs
<1>2. Owners'
  BY DEF Owners
<1>3. Stacks'
  BY DEF Stacks, Owners, Control, OwnStack, InUser, VectorFits
<1>4. Control'
  BY DEF Control, VectorFits, InUser
<1>5. Contexts'
  BY DEF Contexts, ContextKept, InUser, Control, VectorFits, Owners
<1>6. QED
  BY <1>1, <1>2, <1>3, <1>4, <1>5

\* An interrupt saves the program where it is, in its own frame.
LEMMA UserInterruptIInv ==
  ASSUME IInv, NEW t \in Tasks, UserInterrupt(t)
  PROVE  IInv'
<1> USE UserTrapAssumption DEF IInv, UserInterrupt, Step, Enter, Vectored, KernelRegs, heapVars, hartVars, Types
<1>1. Types'
  <2>1. sscratch \in Blocks
    BY DEF Control, VectorFits, InUser, Owners, Labels
  <2>2. saved' \in [Blocks -> Frames]
    BY <2>1 DEF Regs, Frames
  <2>3. QED
    BY <2>1, <2>2 DEF Labels, Args, Regs
<1>2. Owners'
  BY DEF Owners
<1>3. Stacks'
  BY DEF Stacks, Owners, Control, OwnStack, InUser, VectorFits
<1>4. Control'
  BY DEF Control, VectorFits, InUser
<1>5. Contexts'
  BY DEF Contexts, ContextKept, InUser, Control, VectorFits, Owners
<1>6. QED
  BY <1>1, <1>2, <1>3, <1>4, <1>5

\* A fault saves the program as well, and kills it.
LEMMA UserFaultIInv ==
  ASSUME IInv, NEW t \in Tasks, UserFault(t)
  PROVE  IInv'
<1> USE UserTrapAssumption DEF IInv, UserFault, Step, Enter, Vectored, KernelRegs, heapVars, hartVars, Types
<1>1. Types'
  <2>1. sscratch \in Blocks
    BY DEF Control, VectorFits, InUser, Owners, Labels
  <2>2. saved' \in [Blocks -> Frames]
    BY <2>1 DEF Regs, Frames
  <2>3. QED
    BY <2>1, <2>2 DEF Labels, Args, Regs
<1>2. Owners'
  BY DEF Owners
<1>3. Stacks'
  BY DEF Stacks, Owners, Control, OwnStack, InUser, VectorFits
<1>4. Control'
  BY DEF Control, VectorFits, InUser
<1>5. Contexts'
  BY DEF Contexts, ContextKept, InUser, Control, VectorFits, Owners
<1>6. QED
  BY <1>1, <1>2, <1>3, <1>4, <1>5

\* A system call that leaves the frames alone.
LEMMA SysOtherIInv ==
  ASSUME IInv, NEW t \in Tasks, SysOther(t)
  PROVE  IInv'
<1> USE UserTrapAssumption DEF IInv, SysOther, Step, heapVars, hartVars, Types
<1>1. Types'
  BY DEF Labels, Args, Regs, Frames
<1>2. Owners'
  BY DEF Owners
<1>3. Stacks'
  BY DEF Stacks, Owners, Control, OwnStack, InUser, VectorFits
<1>4. Control'
  BY DEF Control, VectorFits, InUser
<1>5. Contexts'
  BY DEF Contexts, ContextKept, InUser, Control, VectorFits, Owners
<1>6. QED
  BY <1>1, <1>2, <1>3, <1>4, <1>5

\* fork gives the child a block of its own, a copy of the parent's frame that names the
\* child's stack.
LEMMA SysForkIInv ==
  ASSUME IInv, NEW t \in Tasks, NEW u \in Tasks, NEW b \in Blocks, SysFork(t, u, b)
  PROVE  IInv'
<1> USE UserTrapAssumption DEF IInv, SysFork, ForkFrame, heapVars, hartVars, Types
<1>1. Types'
  <2>1. arg[t] \in Blocks
    BY DEF Contexts, Owners
  <2>2. saved' \in [Blocks -> Frames]
    <3> DEFINE f == saved[arg[t]]
    <3>0. f \in Frames
      BY <2>1
    <3>1. [f EXCEPT !.a0 = "zero", !.ksp = u] \in Frames
      <4> HIDE DEF f
      <4>1. QED
        BY <3>0, Zenon DEF Frames, Args
    <3>2. QED
      BY <3>1
  <2>3. expected' \in [Tasks -> Regs]
    <3>1. [expected[t] EXCEPT !.a0 = "zero"] \in Regs
      BY DEF Regs, Args
    <3>2. QED
      BY <3>1
  <2>4. QED
    BY <2>2, <2>3 DEF Labels
<1>2. Owners'
  BY DEF Owners
<1>3. Stacks'
  BY DEF Stacks, Owners, Control, OwnStack, InUser, VectorFits
<1>4. Control'
  BY DEF Control, VectorFits, InUser
<1>5. Contexts'
  BY DEF Contexts, ContextKept, InUser, Control, VectorFits, Owners
<1>6. QED
  BY <1>1, <1>2, <1>3, <1>4, <1>5

\* exec replaces the task's frame and frees the one it replaces.
LEMMA SysExecIInv ==
  ASSUME IInv, NEW t \in Tasks, NEW b \in Blocks, SysExec(t, b)
  PROVE  IInv'
<1> USE UserTrapAssumption DEF IInv, SysExec, Step, Released, NewUserFrame, Blank, heapVars, hartVars, Types
<1>1. Types'
  <2>1. frame[t] \in Blocks
    BY DEF Owners
  <2>2. saved' \in [Blocks -> Frames]
    BY DEF Frames, Args
  <2>3. expected' \in [Tasks -> Regs]
    BY DEF Regs, Args
  <2>4. QED
    BY <2>1, <2>2, <2>3 DEF Labels
<1>2. Owners'
  BY DEF Owners
<1>3. Stacks'
  BY DEF Stacks, Owners, Control, OwnStack, InUser, VectorFits
<1>4. Control'
  BY DEF Control, VectorFits, InUser
<1>5. Contexts'
  BY DEF Contexts, ContextKept, InUser, Control, VectorFits, Owners
<1>6. QED
  BY <1>1, <1>2, <1>3, <1>4, <1>5

\* exit leaves the hart to the idle task; the frame stays with the dead task.
LEMMA ExitIInv ==
  ASSUME IInv, NEW t \in Tasks, Exit(t)
  PROVE  IInv'
<1> USE UserTrapAssumption DEF IInv, Exit, heapVars, hartVars, Types
<1>1. Types'
  BY DEF Labels, Args, Regs, Frames
<1>2. Owners'
  BY DEF Owners
<1>3. Stacks'
  BY DEF Stacks, Owners, Control, OwnStack, InUser, VectorFits
<1>4. Control'
  BY DEF Control, VectorFits, InUser
<1>5. Contexts'
  BY DEF Contexts, ContextKept, InUser, Control, VectorFits, Owners
<1>6. QED
  BY <1>1, <1>2, <1>3, <1>4, <1>5

\* set_return writes a0 of this task's frame, or strikes a frame it no longer owns.
LEMMA SetReturnIInv ==
  ASSUME IInv, NEW t \in Tasks, SetReturn(t)
  PROVE  IInv'
<1> USE UserTrapAssumption DEF IInv, SetReturn, Step, heapVars, hartVars, Types
<1>1. Types'
  <2>1. arg[t] \in Blocks
    BY DEF Contexts
  <2>2. saved' \in [Blocks -> Frames]
    <3>1. PICK f \in Frames : f = saved[arg[t]]
      BY <2>1
    <3>2. [f EXCEPT !.a0 = "ret"] \in Frames
      BY DEF Frames, Args
    <3>3. saved' \in {saved, [saved EXCEPT ![arg[t]] = [f EXCEPT !.a0 = "ret"]]}
      BY <3>1, Zenon
    <3>4. QED
      BY <2>1, <3>2, <3>3
  <2>3. QED
    BY <2>1, <2>2 DEF Labels
<1>2. Owners'
  BY DEF Owners
<1>3. Stacks'
  BY DEF Stacks, Owners, Control, OwnStack, InUser, VectorFits
<1>4. Control'
  BY DEF Control, VectorFits, InUser
<1>5. Contexts'
  BY DEF Contexts, ContextKept, InUser, Control, VectorFits, Owners
<1>6. QED
  BY <1>1, <1>2, <1>3, <1>4, <1>5

\* A task switched off is switched off on its own stack.
LEMMA SwitchOffIInv ==
  ASSUME IInv, NEW t \in Tasks, SwitchOff(t)
  PROVE  IInv'
<1> USE UserTrapAssumption DEF IInv, SwitchOff, Unmasked, heapVars, hartVars, Types
<1>1. Types'
  <2>1. stack = t
    BY DEF Stacks, OwnStack, InUser
  <2>2. QED
    BY <2>1
<1>2. Owners'
  BY DEF Owners
<1>3. Stacks'
  BY DEF Stacks, Owners, Control, OwnStack, InUser, VectorFits
<1>4. Control'
  BY DEF Control, VectorFits, InUser
<1>5. Contexts'
  BY DEF Contexts, ContextKept, InUser, Control, VectorFits, Owners
<1>6. QED
  BY <1>1, <1>2, <1>3, <1>4, <1>5

\* A dispatched task resumes on its own stack.
LEMMA DispatchIInv ==
  ASSUME IInv, NEW t \in Tasks, Dispatch(t)
  PROVE  IInv'
<1> USE UserTrapAssumption DEF IInv, Dispatch, heapVars, hartVars, Types
<1>1. Types'
  BY DEF Labels, Args, Regs, Frames
<1>2. Owners'
  BY DEF Owners
<1>3. Stacks'
  BY DEF Stacks, Owners, Control, OwnStack, InUser, VectorFits
<1>4. Control'
  BY DEF Control, VectorFits, InUser
<1>5. Contexts'
  BY DEF Contexts, ContextKept, InUser, Control, VectorFits, Owners
<1>6. QED
  BY <1>1, <1>2, <1>3, <1>4, <1>5

\* The frame of a dead task is freed.
LEMMA DropTaskIInv ==
  ASSUME IInv, NEW t \in Tasks, DropTask(t)
  PROVE  IInv'
<1> USE UserTrapAssumption DEF IInv, DropTask, Blank, heapVars, hartVars, Types
<1>1. Types'
  <2>1. frame[t] \in Blocks
    BY DEF Owners
  <2>2. saved' \in [Blocks -> Frames]
    BY <2>1 DEF Frames, Args
  <2>3. QED
    BY <2>1, <2>2 DEF Labels
<1>2. Owners'
  BY DEF Owners
<1>3. Stacks'
  BY DEF Stacks, Owners, Control, OwnStack, InUser, VectorFits
<1>4. Control'
  BY DEF Control, VectorFits, InUser
<1>5. Contexts'
  BY DEF Contexts, ContextKept, InUser, Control, VectorFits, Owners
<1>6. QED
  BY <1>1, <1>2, <1>3, <1>4, <1>5

\* user_trap_handler returns through the task's frame.
LEMMA TrapReturnIInv ==
  ASSUME IInv, NEW t \in Tasks, TrapReturn(t)
  PROVE  IInv'
<1> USE UserTrapAssumption DEF IInv, TrapReturn, Step, Resume, FrameToResume, heapVars, hartVars, Types
<1>1. Types'
  <2>1. frame[t] \in Blocks
    BY DEF Owners
  <2>2. regs' \in Regs
    BY <2>1 DEF Regs, Frames
  <2>3. QED
    BY <2>2 DEF Labels
<1>2. Owners'
  BY DEF Owners
<1>3. Stacks'
  BY DEF Stacks, Owners, Control, OwnStack, InUser, VectorFits
<1>4. Control'
  BY DEF Control, VectorFits, InUser
<1>5. Contexts'
  BY DEF Contexts, ContextKept, InUser, Control, VectorFits, Owners
<1>6. QED
  BY <1>1, <1>2, <1>3, <1>4, <1>5

\* A new task starts.
LEMMA TaskEntryIInv ==
  ASSUME IInv, NEW t \in Tasks, TaskEntry(t)
  PROVE  IInv'
<1> USE UserTrapAssumption DEF IInv, TaskEntry, Step, heapVars, hartVars, Types
<1>1. Types'
  BY DEF Labels, Args, Regs, Frames
<1>2. Owners'
  BY DEF Owners
<1>3. Stacks'
  BY DEF Stacks, Owners, Control, OwnStack, InUser, VectorFits
<1>4. Control'
  BY DEF Control, VectorFits, InUser
<1>5. Contexts'
  BY DEF Contexts, ContextKept, InUser, Control, VectorFits, Owners
<1>6. QED
  BY <1>1, <1>2, <1>3, <1>4, <1>5

\* user_entry sets the vector.
LEMMA UserEntryIInv ==
  ASSUME IInv, NEW t \in Tasks, UserEntry(t)
  PROVE  IInv'
<1> USE UserTrapAssumption DEF IInv, UserEntry, Step, heapVars, hartVars, Types
<1>1. Types'
  BY DEF Labels, Args, Regs, Frames
<1>2. Owners'
  BY DEF Owners
<1>3. Stacks'
  BY DEF Stacks, Owners, Control, OwnStack, InUser, VectorFits
<1>4. Control'
  BY DEF Control, VectorFits, InUser
<1>5. Contexts'
  BY DEF Contexts, ContextKept, InUser, Control, VectorFits, Owners
<1>6. QED
  BY <1>1, <1>2, <1>3, <1>4, <1>5

\* user_entry returns through the task's frame.
LEMMA UserEntryReturnIInv ==
  ASSUME IInv, NEW t \in Tasks, UserEntryReturn(t)
  PROVE  IInv'
<1> USE UserTrapAssumption DEF IInv, UserEntryReturn, Step, Resume, heapVars, hartVars, Types
<1>1. Types'
  <2>1. frame[t] \in Blocks
    BY DEF Owners
  <2>2. regs' \in Regs
    BY <2>1 DEF Regs, Frames
  <2>3. QED
    BY <2>2 DEF Labels
<1>2. Owners'
  BY DEF Owners
<1>3. Stacks'
  BY DEF Stacks, Owners, Control, OwnStack, InUser, VectorFits
<1>4. Control'
  BY DEF Control, VectorFits, InUser
<1>5. Contexts'
  BY DEF Contexts, ContextKept, InUser, Control, VectorFits, Owners
<1>6. QED
  BY <1>1, <1>2, <1>3, <1>4, <1>5

------------------------------------------------------------------------------
(* The invariant and what follows from it                                     *)

\* start_init makes one process with one frame.
LEMMA InitIInv == Init => IInv
<1> SUFFICES ASSUME NEW t \in Tasks, NEW b \in Blocks,
                    free = Blocks \ {b},
                    saved = [c \in Blocks |-> IF c = b THEN NewUserFrame(t) ELSE Blank],
                    frame = [u \in Tasks |-> IF u = t THEN b ELSE NoBlock],
                    pc = [u \in Tasks |-> IF u = t THEN "fresh" ELSE "none"],
                    arg = [u \in Tasks |-> NoBlock],
                    kctx = [u \in Tasks |-> u],
                    current = Idle, stack = Idle, stvec = "kernel", sscratch = NoBlock,
                    regs = KernelRegs,
                    expected = [u \in Tasks |-> [r |-> 0, a0 |-> "argc"]],
                    struck = {}
             PROVE  IInv
  BY DEF Init
<1> USE UserTrapAssumption DEF NewUserFrame, Blank, KernelRegs
<1>1. Types
  BY DEF Types, Labels, Args, Regs, Frames
<1>2. Owners
  BY DEF Owners
<1>3. Stacks
  BY DEF Stacks, OwnStack
<1>4. Control
  BY DEF Control, VectorFits, InUser
<1>5. Contexts
  BY DEF Contexts, ContextKept, InUser
<1>6. QED
  BY <1>1, <1>2, <1>3, <1>4, <1>5 DEF IInv

\* Every step keeps the invariant.
LEMMA QuietIInv == IInv /\ [Quiet]_vars => IInv'
<1> SUFFICES ASSUME IInv, [Quiet]_vars PROVE IInv'
  OBVIOUS
<1>1. ASSUME NEW t \in Tasks, TaskStep(t) PROVE IInv'
  BY <1>1, ComputeIInv, EcallIInv, UserInterruptIInv, UserFaultIInv, SysOtherIInv, ExitIInv,
     SetReturnIInv, SysExecIInv, SysForkIInv, SwitchOffIInv, DispatchIInv, DropTaskIInv,
     TrapReturnIInv, TaskEntryIInv, UserEntryIInv, UserEntryReturnIInv DEF TaskStep
<1>2. CASE UNCHANGED vars
  BY <1>2 DEF vars, heapVars, hartVars, IInv, Types, Owners, Stacks, Control, Contexts,
     OwnStack, VectorFits, ContextKept, InUser
<1>3. QED
  BY <1>1, <1>2 DEF Quiet

\* The invariant holds throughout.
THEOREM Invariance == QuietSpec => []IInv
<1>1. QED
  BY InitIInv, QuietIInv, PTL DEF QuietSpec

\* new_user, fork_from, exec_current and the drop of a dead task neither leak a frame
\* nor let two tasks share one.
THEOREM FramesSafe == QuietSpec => []FramesOwned
<1>1. IInv => FramesOwned
  <2> SUFFICES ASSUME IInv
               PROVE  {frame[t] : t \in {u \in Tasks : pc[u] # "none"}} = Blocks \ free
    BY DEF FramesOwned, IInv, Owners
  <2>1. ASSUME NEW b \in Blocks \ free
        PROVE  b \in {frame[t] : t \in {u \in Tasks : pc[u] # "none"}}
    <3>1. PICK t \in Tasks : frame[t] = b
      BY <2>1 DEF IInv, Owners
    <3>2. pc[t] # "none"
      BY <2>1, <3>1, UserTrapAssumption DEF IInv, Owners
    <3>3. QED
      BY <3>1, <3>2
  <2>2. ASSUME NEW t \in Tasks, pc[t] # "none" PROVE frame[t] \in Blocks \ free
    BY <2>2 DEF IInv, Owners, Types
  <2>3. QED
    BY <2>1, <2>2
<1>2. QED
  BY <1>1, Invariance, PTL

\* user_trap_entry and user_trap_return: a program finds its registers as it left them,
\* or as its system call, fork or exec says, however many tasks trapped in between.
THEOREM ContextSafe == QuietSpec => []ContextKept
<1>1. IInv => ContextKept
  BY DEF IInv, Contexts
<1>2. QED
  BY <1>1, Invariance, PTL

\* The kernel code of a task never runs on the stack of another: kernel_sp of the frame
\* and TaskContext::sp both belong to their task.
THEOREM StackSafe == QuietSpec => []OwnStack
<1>1. IInv => OwnStack
  BY DEF IInv, Stacks
<1>2. QED
  BY <1>1, Invariance, PTL

\* set_user_vector and set_kernel_vector: user code traps into its own frame, kernel
\* code through kernel_trap_entry.
THEOREM VectorSafe == QuietSpec => []VectorFits
<1>1. IInv => VectorFits
  BY DEF IInv, Control
<1>2. QED
  BY <1>1, Invariance, PTL

\* user_trap_handler, outside the window of user_entry, is called with the frame of
\* the task that trapped.
THEOREM HandlerSafe == QuietSpec => []HandlerHasFrame
<1>1. IInv => HandlerHasFrame
  BY DEF IInv, Contexts, HandlerHasFrame
<1>2. QED
  BY <1>1, Invariance, PTL

=============================================================================
