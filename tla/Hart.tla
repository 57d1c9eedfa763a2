-------------------------------- MODULE Hart ---------------------------------
(***************************************************************************)
(* What the hart executes, seen from its locks: system calls, handlers and *)
(* the idle loop as sequences of operations (module KernelPaths), the      *)
(* interrupts that come between two steps of them while sstatus.SIE is     *)
(* set, the switches from stack to stack, panics and supervisor faults.    *)
(*                                                                         *)
(* Every stack has a base thread and, while an interrupt of kernel code is *)
(* being handled on it, a trap thread.  A thread executes Code[path[th]],  *)
(* where it has reached pos[th].  An operation is a record:                *)
(*   op     lock, drop: of a SpinLock, arg                                 *)
(*          enable, disable: intr_enable, intr_disable                     *)
(*          mask, restore: switch_to_idle keeps the bit and restores it    *)
(*          switch: switch_context, to the stack arg; die: by a zombie     *)
(*          count, deadline, arm: of on_tick                               *)
(*          panic, off, stop: the ways down                                *)
(*          work: anything else; end: of the path; user: user mode         *)
(*   held   the locks the code has taken when it gets here, outer: the     *)
(*          first of them, sie: whether it expects interrupts to be on     *)
(*          when it has taken none, was: what switch_to_idle has kept,     *)
(*          tick: how far on_tick has come                                 *)
(***************************************************************************)
EXTENDS SpinLock, Timer, Sequences

CONSTANTS
  Tasks, Idle,
  Names, Code,
  User,                     \* a program in user mode
  Entry,                    \* what a new task executes, by task
  Calls,                    \* system calls and faults of user code, by task
  UserTicks, UserDevices,   \* interrupts of user code, by task
  Ticks, Devices,           \* interrupts of kernel code, by stack
  Loops, Resting,           \* what the idle loop does; if the queue is empty
  Fatal, Panicking, Halting,
  MAX_FAULTS                \* bound: supervisor faults and failed assertions

Stacks == Tasks \cup {Idle}

ASSUME StackAssumption == Idle \notin Tasks /\ Threads = Stacks \X {"base", "trap"}

\* What a path may start with: traps and switches leave interrupts masked.
Starts(o) == o.held = {} /\ ~o.sie /\ ~o.was /\ o.tick = 0

\* What the code knows at p, the operation after o.
Follows(o, p) ==
  /\ p.held = IF o.op = "lock" THEN o.held \cup {o.arg}
              ELSE IF o.op = "drop" THEN o.held \ {o.arg} ELSE o.held
  /\ p.outer = IF o.op = "lock" /\ o.held = {} THEN o.arg ELSE o.outer
  /\ p.sie = IF o.op = "enable" THEN TRUE
             ELSE IF o.op \in {"disable", "mask"} THEN FALSE
             ELSE IF o.op = "restore" THEN o.was ELSE o.sie
  /\ p.was = IF o.op = "mask" THEN o.sie ELSE IF o.op = "restore" THEN FALSE ELSE o.was
  /\ p.tick = IF o.op = "count" THEN 1
              ELSE IF o.op = "deadline" THEN 2
              ELSE IF o.op = "arm" THEN 0 ELSE o.tick
  /\ p.op # "count"

\* What the code must see to: a lock is not taken twice, the first of several is
\* dropped last, and no lock is held where interrupts are switched on or off
\* otherwise, or across a switch.
Disciplined(o) ==
  /\ o.held \subseteq Locks /\ (o.held # {} => o.outer \in o.held)
  /\ o.op = "lock" => o.arg \in Locks \ o.held
  /\ o.op = "drop" => o.arg \in o.held /\ (o.arg = o.outer => o.held = {o.arg})
  /\ o.op \in {"enable", "disable", "mask", "restore", "switch", "die", "end", "user"} => o.held = {}
  /\ o.op \in {"restore", "switch", "die"} => ~o.sie
  /\ o.op \in {"mask", "end", "user"} => ~o.was
  /\ o.op = "user" => o.sie
  /\ o.op \in {"switch", "die"} => o.arg \in Stacks
  /\ o.op = "deadline" => o.tick = 1
  /\ o.op = "arm" => o.tick = 2
  /\ o.op \notin {"lock", "drop", "work", "deadline", "arm"} => o.tick = 0
  /\ o.tick # 0 => ~o.sie

OpNames == {"lock", "drop", "enable", "disable", "mask", "restore", "switch", "die", "count",
            "deadline", "arm", "panic", "off", "stop", "work", "end", "user"}

\* The operations that leave a path.
Leaving == {"die", "panic", "off", "stop", "end", "user"}

DownNames == {Fatal, Panicking, Halting}
TickNames == (UNION {Ticks[s] : s \in Stacks}) \cup (UNION {UserTicks[t] : t \in Tasks})

\* The handlers of kernel code.
HandlerNames == (UNION {Ticks[s] : s \in Stacks}) \cup (UNION {Devices[s] : s \in Stacks})

ASSUME PathsAssumption ==
  \A n \in Names :
    /\ Len(Code[n]) \in Nat \ {0}
    /\ \A i \in 1 .. Len(Code[n]) :
         /\ Code[n][i].op \in OpNames
         /\ Code[n][i].sie \in BOOLEAN /\ Code[n][i].was \in BOOLEAN /\ Code[n][i].tick \in 0 .. 2
         /\ Disciplined(Code[n][i])
         /\ Code[n][i].op \in Leaving <=> i = Len(Code[n])
         /\ i < Len(Code[n]) => Follows(Code[n][i], Code[n][i + 1])
         /\ n \in HandlerNames \cup DownNames => ~Code[n][i].sie /\ Code[n][i].op # "die"
         /\ n \in Loops => Code[n][i].op # "die" /\ (Code[n][i].op = "end" => ~Code[n][i].sie)
    /\ n # User => Starts(Code[n][1])
    /\ Code[n][1].op = "count" => n \in TickNames

ASSUME NamesAssumption ==
  /\ User \in Names /\ Code[User][1].op = "user"
  /\ DownNames \cup Loops \subseteq Names \ ({User} \cup TickNames)
  /\ \A t \in Tasks : /\ {Entry[t]} \cup Calls[t] \cup UserDevices[t] \subseteq Names \ ({User} \cup TickNames)
                      /\ UserTicks[t] \subseteq Names \ {User}
  /\ \A s \in Stacks : /\ Devices[s] \subseteq Names \ ({User} \cup TickNames)
                       /\ Ticks[s] \subseteq Names \ {User}

VARIABLES
  stack,         \* the stack in use
  trapped,       \* the stacks with an interrupt being handled on them
  path, pos,
  was_enabled,   \* switch_to_idle: `was_enabled`
  PANIC_DEPTH,
  power,
  faults,
  abandoned      \* history: locks whose holder panicked or faulted

downVars == <<PANIC_DEPTH, power, faults, abandoned>>
hereVars == <<stack, trapped>>
vars     == <<intr, lockVars, timerVars, at, saved, path, pos, was_enabled, hereVars, downVars>>

Active == <<stack, IF stack \in trapped THEN "trap" ELSE "base">>

OpOf(th) == Code[path[th]][pos[th]]
Op       == OpOf(Active)

At(kind) == power = "on" /\ Op.op = kind

InUser == Op.op = "user"

Advanced == pos' = [pos EXCEPT ![Active] = @ + 1]

\* th goes on at the start of path n.
Jump(th, n) ==
  /\ path' = [path EXCEPT ![th] = n]
  /\ pos' = [pos EXCEPT ![th] = 1]
  /\ at' = [at EXCEPT ![th] = "go"]

-----------------------------------------------------------------------------
(* The operations of a path. *)

Lock ==
  /\ At("lock")
  /\ \/ (LockRead(Active, Op.arg) \/ LockMask(Active, Op.arg)) /\ UNCHANGED pos
     \/ LockSwap(Active, Op.arg) /\ Advanced
  /\ UNCHANGED <<timerVars, path, was_enabled, hereVars, downVars>>

Drop ==
  /\ At("drop")
  /\ DropRelease(Active, Op.arg) \/ DropRestore(Active, Op.arg)
  /\ IF at'[Active] = "go" THEN Advanced ELSE UNCHANGED pos
  /\ UNCHANGED <<timerVars, path, was_enabled, hereVars, downVars>>

\* mutant of SetIntr: interrupts stay masked, around wfi and in system calls
SetIntrMasked ==
  /\ At("enable") \/ At("disable")
  /\ intr' = FALSE
  /\ Advanced
  /\ UNCHANGED <<lockVars, timerVars, at, saved, path, was_enabled, hereVars, downVars>>

\* intr_enable, intr_disable
SetIntr ==
  /\ At("enable") \/ At("disable")
  /\ intr' = (Op.op = "enable")
  /\ Advanced
  /\ UNCHANGED <<lockVars, timerVars, at, saved, path, was_enabled, hereVars, downVars>>

\* switch_to_idle: `was_enabled`
SwitchRead ==
  /\ At("mask") /\ at[Active] = "go" /\ Goto(Active, "mask")
  /\ was_enabled' = [was_enabled EXCEPT ![Active] = intr]
  /\ UNCHANGED <<intr, lockVars, timerVars, saved, path, pos, hereVars, downVars>>

\* switch_to_idle: intr_disable
SwitchMask ==
  /\ At("mask") /\ at[Active] = "mask" /\ Goto(Active, "go")
  /\ intr' = FALSE
  /\ Advanced
  /\ UNCHANGED <<lockVars, timerVars, saved, path, was_enabled, hereVars, downVars>>

\* switch_to_idle: back on this stack
SwitchRestore ==
  /\ At("restore")
  /\ intr' = (intr \/ was_enabled[Active])
  /\ was_enabled' = [was_enabled EXCEPT ![Active] = FALSE]
  /\ Advanced
  /\ UNCHANGED <<lockVars, timerVars, at, saved, path, hereVars, downVars>>

\* switch_context
Switch ==
  /\ At("switch")
  /\ stack' = Op.arg
  /\ Advanced
  /\ UNCHANGED <<intr, lockVars, timerVars, at, saved, path, was_enabled, trapped, downVars>>

\* The last switch of a task that has exited; its name goes to a new task.
Die ==
  /\ At("die")
  /\ stack' = Op.arg
  /\ Jump(Active, Entry[stack])
  /\ was_enabled' = [was_enabled EXCEPT ![Active] = FALSE]
  /\ UNCHANGED <<intr, lockVars, timerVars, saved, trapped, downVars>>

\* on_tick
OnTick ==
  /\ \/ At("count") /\ CountTick
     \/ At("deadline") /\ StoreDeadline
     \/ At("arm") /\ SetTimer
  /\ Advanced
  /\ UNCHANGED <<intr, lockVars, at, saved, path, was_enabled, hereVars, downVars>>

Work ==
  /\ At("work")
  /\ Advanced
  /\ UNCHANGED <<intr, lockVars, timerVars, at, saved, path, was_enabled, hereVars, downVars>>

\* The end of a path: sret to the code the handler interrupted, the next
\* iteration of the idle loop, or sret to user mode.  The loop does not find the
\* run queue empty while a task waits in a handler to go on: such a task is ready.
Return ==
  /\ At("end")
  /\ IF stack \in trapped
       THEN trapped' = trapped \ {stack} /\ intr' = TRUE /\ Jump(Active, User)
     ELSE IF stack = Idle
       THEN /\ \E n \in Loops : (n \in Resting => trapped = {}) /\ Jump(Active, n)
            /\ UNCHANGED <<trapped, intr>>
     ELSE Jump(Active, User) /\ intr' = TRUE /\ UNCHANGED trapped
  /\ UNCHANGED <<lockVars, timerVars, saved, was_enabled, stack, downVars>>

-----------------------------------------------------------------------------
(* Traps: the hardware clears SIE and the handler runs on the kernel stack *)
(* of the task. *)

Trap(ofUser, ofKernel) ==
  /\ power = "on"
  /\ intr' = FALSE
  /\ \/ /\ InUser
        /\ \E n \in ofUser : Jump(Active, n)
        /\ UNCHANGED trapped
     \/ /\ ~InUser /\ intr /\ stack \notin trapped
        /\ \E n \in ofKernel : Jump(<<stack, "trap">>, n)
        /\ trapped' = trapped \cup {stack}
  /\ UNCHANGED <<lockVars, timerVars, saved, was_enabled, stack, downVars>>

TimerInterrupt ==
  Pending /\ Trap(IF stack = Idle THEN {} ELSE UserTicks[stack], Ticks[stack])

\* a system call, a fault of the program, a device
OtherTrap ==
  Trap(IF stack = Idle THEN {} ELSE Calls[stack] \cup UserDevices[stack], Devices[stack])

-----------------------------------------------------------------------------
(* The ways down. *)

\* The hart goes on at n and never leaves it: masked, it returns to nothing that
\* it was executing, which is forgotten, and what was locked stays locked.
GoDown(n) ==
  /\ intr' = FALSE
  /\ path' = [th \in Threads |-> n]
  /\ pos' = [th \in Threads |-> 1]
  /\ at' = [th \in Threads |-> "go"]
  /\ saved' = [th \in Threads |-> FALSE]
  /\ was_enabled' = [th \in Threads |-> FALSE]
  /\ trapped' = {} /\ stack' = Idle
  /\ abandoned' = abandoned \cup locked
  /\ UNCHANGED <<lockVars, timerVars, power>>

\* mutant of PanicHandler: a second panic is handled like the first
PanicAgain ==
  /\ PANIC_DEPTH' = PANIC_DEPTH + 1
  /\ GoDown(Panicking)

\* panic: intr_disable and `depth`
PanicHandler ==
  /\ PANIC_DEPTH' = PANIC_DEPTH + 1
  /\ GoDown(IF PANIC_DEPTH > 0 THEN Halting ELSE Panicking)

\* panic! at the end of fatal
Panic == At("panic") /\ PanicHandler /\ UNCHANGED faults

\* an assertion, an unwrap or an overflow check fails somewhere in the kernel
Assertion ==
  /\ power = "on" /\ ~InUser /\ faults < MAX_FAULTS
  /\ faults' = faults + 1
  /\ PanicHandler

\* an exception in kernel code: kernel_trap_handler calls fatal
Fault ==
  /\ power = "on" /\ ~InUser /\ faults < MAX_FAULTS
  /\ faults' = faults + 1
  /\ GoDown(Fatal)
  /\ UNCHANGED PANIC_DEPTH

\* sbi::shutdown, and halt
Down ==
  /\ At("off") \/ At("stop")
  /\ power' = IF Op.op = "off" THEN "off" ELSE "halted"
  /\ UNCHANGED <<intr, lockVars, timerVars, at, saved, path, pos, was_enabled, hereVars,
                 PANIC_DEPTH, faults, abandoned>>

-----------------------------------------------------------------------------

\* The counter runs; what it shows once the machine is going down is of no
\* consequence.
Time ==
  /\ faults = 0 /\ Advance
  /\ UNCHANGED <<intr, lockVars, at, saved, path, pos, was_enabled, hereVars, downVars>>

\* The idle loop of run(), from its first masking on; the tasks have not run yet.
Init ==
  /\ TimerInit
  /\ intr = FALSE /\ locked = {}
  /\ restore_intr = [l \in Locks |-> FALSE]
  /\ stack = Idle /\ trapped = {}
  /\ \E n \in Loops : path = [th \in Threads |-> IF th[2] = "trap" THEN User
                                           ELSE IF th[1] = Idle THEN n ELSE Entry[th[1]]]
  /\ pos = [th \in Threads |-> 1]
  /\ at = [th \in Threads |-> "go"]
  /\ saved = [th \in Threads |-> FALSE]
  /\ was_enabled = [th \in Threads |-> FALSE]
  /\ PANIC_DEPTH = 0 /\ power = "on" /\ faults = 0 /\ abandoned = {}

KernelStep ==
  \/ Lock \/ Drop \/ SetIntr
  \/ SwitchRead \/ SwitchMask \/ SwitchRestore \/ Switch \/ Die
  \/ OnTick \/ Work \/ Return \/ Panic \/ Down

Next == KernelStep \/ TimerInterrupt \/ OtherTrap \/ Assertion \/ Fault \/ Time

Spec == Init /\ [][Next]_vars

\* The hart executes, and takes a pending timer interrupt if it can again and again.
FairSpec == Spec /\ WF_vars(KernelStep) /\ SF_vars(TimerInterrupt)

-----------------------------------------------------------------------------
(* Properties *)

\* The hart never spins on a lock held by code that it has interrupted, switched
\* away from or is itself in the middle of: on the only hart nobody would ever
\* release it (SpinLock::lock, and the masking that is there to prevent it).
\* What a panic or a fault has left locked is another matter: see PanicStops.
NoSelfDeadlock ==
  power = "on" /\ Op.op = "lock" /\ at[Active] = "swap" => Op.arg \notin locked \ abandoned

\* Interrupts are masked as long as any lock is held and throughout a handler
\* (the debug_assert of kernel_trap_handler), and as soon as the last guard is
\* dropped they are exactly what the code around it had made them, after any
\* nesting of locks, preemption inside a handler or wait inside a system call.
MaskingIsExact ==
  power = "on" =>
    /\ locked \ abandoned # {} => ~intr
    /\ stack \in trapped => ~intr
    /\ at[Active] = "go" /\ Op.held = {} => intr = Op.sie

\* However late on_tick runs: no tick is counted before its time; no deadline is
\* more than a period ahead, and each lies after the time that on_tick read when it
\* chose it, so that a late handler does not work off the periods it missed one by
\* one; and the ticks stay on the grid of INTERVAL, without drift, until one of
\* them has had to be skipped.
TickRate ==
  faults = 0 =>
    /\ TICKS * INTERVAL <= now
    /\ looked < NEXT_DEADLINE /\ NEXT_DEADLINE <= now + INTERVAL
    /\ Op.tick = 0 => /\ armed = NEXT_DEADLINE
                      /\ ~skipped => NEXT_DEADLINE = (TICKS + 1) * INTERVAL

\* A pending timer interrupt is handled and the next one armed, whatever the
\* kernel or the program is doing, unless the machine goes down first.
TickHandled == Pending ~> (~Pending \/ faults > 0)

\* The locks that the ways down take: println! in fatal and in backtrace::print.
DownLocks ==
  UNION {{Code[n][i].arg : i \in {j \in 1 .. Len(Code[n]) : Code[n][j].op = "lock"}} :
           n \in {Fatal, Panicking, Halting}}

\* A panic or a supervisor fault, wherever it happens, switches the machine off
\* or halts it, unless it left locked one of the locks that the way down takes;
\* a panic on the way down halts it in any case, if nothing faults after that (two
\* faults are all that MAX_FAULTS allows).
PanicStops ==
  /\ (faults > 0) ~> (power # "on" \/ abandoned \cap DownLocks # {})
  /\ (PANIC_DEPTH > 1) ~> (power = "halted")

=============================================================================
