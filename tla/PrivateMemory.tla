---------------------------- MODULE PrivateMemory ----------------------------
(***************************************************************************)
(* What address spaces promise the processes: memory of their own.  Only   *)
(* the running process changes its memory, and what it changes nobody else *)
(* sees.  Fork copies memory, exec replaces it by the program's, sbrk adds *)
(* zeroed pages, exit ends it, and a program's text never changes.         *)
(***************************************************************************)
CONSTANTS
  Procs, Pages, Values,
  Zero,        \* what a fresh page holds
  Absent,      \* an unmapped page
  Fresh,       \* a program's memory when it starts
  ReadOnly     \* the pages of its text

VARIABLES
  memory,      \* what each process sees at each page
  running

memoryVars == <<memory, running>>

Nothing == [pg \in Pages |-> Absent]

Becomes(p, pg) == memory'[p][pg]

Unseen(p) == \A q \in Procs \ {p} : memory'[q] = memory[q]

Store(p) ==
  /\ running = p /\ Unseen(p)
  /\ \A pg \in Pages :
       \/ Becomes(p, pg) = memory[p][pg]
       \/ pg \notin ReadOnly /\ memory[p][pg] # Absent /\ Becomes(p, pg) \in Values

Grow(p) ==
  /\ running = p /\ Unseen(p)
  /\ \A pg \in Pages :
       \/ Becomes(p, pg) = memory[p][pg]
       \/ memory[p][pg] = Absent /\ Becomes(p, pg) = Zero

Copy(p, c) ==
  /\ running = p /\ Unseen(c)
  /\ memory[c] = Nothing /\ memory'[c] = memory[p]

Replace(p) == running = p /\ Unseen(p) /\ memory'[p] = Fresh

Release(p) == running = p /\ Unseen(p) /\ memory'[p] = Nothing

Switch == UNCHANGED memory

MemoryInit ==
  /\ \E first \in Procs : memory = [p \in Procs |-> IF p = first THEN Fresh ELSE Nothing]
  /\ running \notin Procs

MemoryNext ==
  \/ Switch
  \/ \E p \in Procs : Store(p) \/ Grow(p) \/ Replace(p) \/ Release(p)
  \/ \E p, c \in Procs : Copy(p, c)

MemorySpec == MemoryInit /\ [][MemoryNext]_memoryVars

=============================================================================
