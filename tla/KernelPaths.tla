----------------------------- MODULE KernelPaths -----------------------------
(***************************************************************************)
(* The kernel's code as the paths of module Hart: for every function, the  *)
(* locks it takes and drops, the switches it makes and the interrupt state *)
(* it sets, in the order of the source and with guards living as long as   *)
(* Rust keeps them (a temporary to the end of its statement or of the      *)
(* `if let` body).  Of alternatives that take the same locks the longest   *)
(* is given; an early return is a prefix of it.  t is the running task, u  *)
(* another one: its parent, its child or a waiter.                         *)
(***************************************************************************)
EXTENDS Hart, TLC, FiniteSetsExt

Lk(l)  == <<[op |-> "lock", arg |-> l]>>
Ul(l)  == <<[op |-> "drop", arg |-> l]>>
Do(op) == <<[op |-> op, arg |-> <<>>]>>

\* let guard = l.lock(); body; drop(guard)
Section(l, body) == Lk(l) \o body \o Ul(l)

\* a statement that only takes l for itself
Short(l) == Section(l, <<>>)

HEAP    == <<"KERNEL_HEAP">>
FRAMES  == <<"FRAME_ALLOCATOR">>
KSPACE  == <<"KERNEL_SPACE">>
CONSOLE == <<"CONSOLE_LOCK">>
UART    == <<"UART">>
RX      == <<"RX_QUEUE">>
RUNQ    == <<"RUN_QUEUE">>
ALL     == <<"ALL_TASKS">>
CURRENT == <<"current">>
PREV    == <<"previous">>
READERS == <<"READERS">>
inner(t)      == <<"inner", t>>
name(t)       == <<"name", t>>
child_exit(t) == <<"child_exit", t>>

\* of the tasks T
KernelLocks(T) ==
  {HEAP, FRAMES, KSPACE, CONSOLE, UART, RX, RUNQ, ALL, CURRENT, PREV, READERS}
    \cup UNION {{inner(t), name(t), child_exit(t)} : t \in T}

-----------------------------------------------------------------------------
(* Memory and console *)

alloc_frames == Short(FRAMES)
free_frames  == Short(FRAMES)

\* GlobalAlloc: the frames are taken with the heap locked, and given back without
alloc   == Section(HEAP, alloc_frames)
dealloc == Short(HEAP) \o free_frames

\* Vec::push that has to grow
grow == alloc \o dealloc

kernel_token == Short(KSPACE)

write_bytes == Short(UART)
_print      == Section(CONSOLE, write_bytes)

-----------------------------------------------------------------------------
(* scheduler.rs and wait.rs *)

current_task == Short(CURRENT)

switch_to_idle(t, last) ==
  Do("mask") \o Short(CURRENT) \o Short(inner(t)) \o Short(PREV)
    \o (IF last THEN <<[op |-> "die", arg |-> Idle]>>
        ELSE <<[op |-> "switch", arg |-> Idle]>> \o Do("restore"))

wake(u) == Short(inner(u)) \o Section(RUNQ, grow)

wake_all(q, u) == Short(q) \o wake(u) \o dealloc

wait(q, t) == current_task \o Section(q, grow) \o switch_to_idle(t, FALSE) \o Short(q)

resched_if_needed(t, needs) ==
  current_task \o Short(inner(t)) \o (IF needs THEN switch_to_idle(t, FALSE) ELSE <<>>)

admit == Section(ALL, grow) \o Section(RUNQ, grow)

exit_current(t, u) ==
  current_task \o Short(inner(t)) \o Short(inner(t))
    \o kernel_token \o dealloc
    \o Short(inner(t)) \o wake_all(child_exit(u), u)
    \o switch_to_idle(t, TRUE)

\* run(): who has switched away; the guard of `previous` lives as long as the `if let`
requeue(t) == Section(PREV, Short(inner(t)) \o Section(RUNQ, grow))
reap(t)    == Section(PREV, Short(inner(t)) \o dealloc)

\* run(): from `next` to the next time round there
run_none == Short(RUNQ) \o Do("enable") \o Do("work") \o Do("disable") \o Short(PREV) \o Do("end")

run_task(t, previous) ==
  Short(RUNQ) \o Section(inner(t), kernel_token) \o Short(inner(t)) \o Short(CURRENT)
    \o <<[op |-> "switch", arg |-> t]>> \o previous \o Do("end")

\* retain drops the last references to dead tasks
dump_tasks(u) ==
  Section(ALL, dealloc \o alloc) \o _print
    \o Section(inner(u), Section(name(u), alloc \o _print \o dealloc)) \o dealloc

-----------------------------------------------------------------------------
(* trap/mod.rs, timer.rs, plic.rs, uart.rs *)

frame_ptr(t) == current_task \o Short(inner(t))

\* user_trap_handler after its match, and enter_user_mode
to_user(t, needs) == resched_if_needed(t, needs) \o frame_ptr(t) \o Do("end")

\* task_entry, user_entry
task_entry(t) == current_task \o Do("enable") \o frame_ptr(t) \o Do("disable") \o Do("end")

on_tick(s) ==
  Do("count") \o current_task \o (IF s = Idle THEN <<>> ELSE Short(inner(s)))
    \o Do("deadline") \o Do("arm")

handle_interrupt == Short(UART) \o Short(RX) \o Short(UART)

\* a byte for a reader, and an interrupt without a handler
handle_external_interrupt(u) == handle_interrupt \o wake_all(READERS, u)
no_handler == _print

\* kernel_trap_handler after its match
to_kernel(s, needs) ==
  (IF s = Idle THEN current_task ELSE resched_if_needed(s, needs)) \o Do("end")

ecall(t, body) == Do("enable") \o body \o Do("disable") \o to_user(t, FALSE)

kill_current(t, u) == current_task \o Section(name(t), _print) \o exit_current(t, u)

fatal == _print \o Do("panic")

\* _print_unlocked takes no lock; backtrace::print does
panic == Do("work") \o _print \o Do("off")
halt  == Do("work") \o Do("stop")

-----------------------------------------------------------------------------
(* syscall/mod.rs and process.rs *)

read_user_buf(t) == current_task \o Section(inner(t), alloc)

sys_write(t) == read_user_buf(t) \o write_bytes \o dealloc

\* wait_until, once round or not at all
sys_read(t, waits) ==
  Short(RX) \o (IF waits THEN wait(READERS, t) \o Short(RX) ELSE <<>>)
    \o alloc \o Short(RX) \o current_task \o Short(inner(t)) \o dealloc

sys_getppid(t) == current_task \o Short(inner(t))

\* a page table and a region of a new space
new_space == alloc_frames \o kernel_token \o alloc_frames \o alloc

\* the guard of parent.name lives to the end of the expression, past Arc::new
fork_from(t) ==
  Section(inner(t), new_space) \o alloc_frames \o alloc \o kernel_token \o Section(name(t), alloc \o alloc)

sys_fork(t) == current_task \o fork_from(t) \o Section(inner(t), grow) \o admit

exec_current(t) ==
  new_space \o alloc \o Section(name(t), dealloc)
    \o Section(inner(t), kernel_token \o alloc \o dealloc) \o dealloc

\* found, or not: the message is for an image that does not load
sys_exec(t, loads) ==
  current_task \o Section(inner(t), grow)
    \o (IF loads THEN exec_current(t) ELSE new_space \o _print \o dealloc) \o dealloc

sys_waitpid(t, u, waits) ==
  LET scan == Section(inner(t), Short(inner(u)))
  IN  current_task \o scan
        \o (IF waits THEN wait(child_exit(t), t) \o scan ELSE <<>>)
        \o Short(inner(u)) \o Short(inner(t)) \o dealloc

adjust_brk(t) == Section(inner(t), alloc_frames \o grow)
sys_sbrk(t)   == current_task \o adjust_brk(t)

unknown(t) == current_task \o _print

\* dispatch
Syscalls(t, u) ==
  <<sys_write(t), sys_read(t, FALSE), sys_read(t, TRUE), switch_to_idle(t, FALSE), sys_getppid(t),
    sys_fork(t), sys_exec(t, TRUE), sys_exec(t, FALSE), sys_waitpid(t, u, FALSE),
    sys_waitpid(t, u, TRUE), sys_sbrk(t), dump_tasks(u), unknown(t)>>

-----------------------------------------------------------------------------
(* The constants of module Hart *)

\* The operations with what the code knows when it comes to each.  (The \o makes
\* TLC compute the sequence once and for all.)
Annotated(ops, sie) ==
  LET Before(i, kinds) == {j \in 1 .. i - 1 : ops[j].op \in kinds}
      Latest(i, kinds, none) == IF Before(i, kinds) = {} THEN none ELSE ops[Max(Before(i, kinds))].op
      Held(i)  == {ops[j].arg : j \in {j \in Before(i, {"lock"}) :
                     \A k \in j + 1 .. i - 1 : ops[k].arg # ops[j].arg}}
      Firsts   == {j \in Before(Len(ops), {"lock"}) : Held(j) = {}}
      Outer(i) == LET S == {j \in Firsts : j < i} IN IF S = {} THEN <<>> ELSE ops[Max(S)].arg
      On(i)    == Latest(i, {"enable", "disable"}, IF sie THEN "enable" ELSE "disable") = "enable"
      Inside(i) == Latest(i, {"mask", "restore"}, "restore") = "mask"
      Phase    == [count |-> 1, deadline |-> 2, arm |-> 0]
  IN  [i \in 1 .. Len(ops) |->
        [op |-> ops[i].op, arg |-> ops[i].arg, held |-> Held(i), outer |-> Outer(i),
         sie |-> On(i) /\ ~Inside(i), was |-> On(i) /\ Inside(i),
         tick |-> Phase[Latest(i, DOMAIN Phase, "arm")]]] \o <<>>

Path(kind, s, ops) == <<[kind |-> kind, of |-> s, ops |-> ops]>>

\* What task t does, and what is done on its stack.
TaskPaths(t, u) ==
  LET calls == Syscalls(t, u)
  IN  [c \in DOMAIN calls |-> [kind |-> "call", of |-> t, ops |-> ecall(t, calls[c])]]
        \o Path("call", t, Do("enable") \o exit_current(t, u))
        \o Path("call", t, kill_current(t, u))
        \o Path("entry", t, task_entry(t))
        \o Path("utick", t, on_tick(t) \o to_user(t, TRUE))
        \o Path("udevice", t, handle_external_interrupt(u) \o to_user(t, FALSE))
        \o Path("udevice", t, no_handler \o to_user(t, FALSE))
        \o Path("loop", t, run_task(t, requeue(t)))
        \o Path("loop", t, run_task(t, reap(t)))

StackPaths(s, u) ==
  Path("tick", s, on_tick(s) \o to_kernel(s, TRUE))
    \o Path("device", s, handle_external_interrupt(u) \o to_kernel(s, FALSE))
    \o Path("device", s, no_handler \o to_kernel(s, FALSE))

SharedPaths ==
  Path("user", Idle, Do("user")) \o Path("fatal", Idle, fatal)
    \o Path("panic", Idle, panic) \o Path("halt", Idle, halt)
    \o Path("rest", Idle, run_none)

=============================================================================
