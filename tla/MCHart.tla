------------------------------- MODULE MCHart --------------------------------
(***************************************************************************)
(* One task, its peer and the idle loop, with every system call, handler   *)
(* and way down of module KernelPaths.  A path is named by its number.     *)
(***************************************************************************)
EXTENDS KernelPaths

CONSTANTS t1, t2

Paths ==
  SharedPaths \o TaskPaths(t1, t2) \o StackPaths(t1, t2) \o StackPaths(Idle, t1)

Numbers(kind, s) == {n \in DOMAIN Paths : Paths[n].kind = kind /\ Paths[n].of = s}
Number(kind)     == CHOOSE n \in DOMAIN Paths : Paths[n].kind = kind

\* TLC computes a definition once, but what replaces a constant at every use: the
\* replacements are therefore other names of definitions.
Table      == [n \in DOMAIN Paths |-> Annotated(Paths[n].ops, Paths[n].kind = "user")] \o <<>>
UserPath   == Number("user")
OfTask(kind)  == [t \in Tasks |-> Numbers(kind, t)]
OfStack(kind) == [s \in Stacks |-> Numbers(kind, s)]
CallTable  == OfTask("call")
TickTable  == OfStack("tick")
OtherTable == OfStack("device")
LoopTable  == Numbers("rest", Idle) \cup Numbers("loop", t1)
LockTable  == KernelLocks({t1, t2})
ThreadTable == Stacks \X {"base", "trap"}

MCThreads   == ThreadTable
MCNames     == DOMAIN Table
MCCode      == Table
MCUser      == UserPath
MCFatal     == Number("fatal")
MCPanicking == Number("panic")
MCHalting   == Number("halt")
MCResting   == Numbers("rest", Idle)
MCLoops     == LoopTable
MCEntry     == [t \in Tasks |-> CHOOSE n \in Numbers("entry", t) : TRUE]
MCCalls     == CallTable
MCUserTicks   == OfTask("utick")
MCUserDevices == OfTask("udevice")
MCTicks     == TickTable
MCDevices   == OtherTable
MCLocks     == LockTable

=============================================================================
