------------------------------- MODULE Permits -------------------------------
(***************************************************************************)
(* What Semaphore promises its users: a permit is taken only when there is *)
(* one, by one taker, and one given back is there for the next.            *)
(***************************************************************************)
EXTENDS Integers

CONSTANTS Tasks, Initial

VARIABLES count, holders

permitVars == <<count, holders>>

Take(t) ==
  /\ t \notin holders
  /\ count > 0
  /\ count' = count - 1
  /\ holders' = holders \cup {t}

Give(t) ==
  /\ count' = count + 1
  /\ holders' = holders \ {t}

PermitsInit == count = Initial /\ holders = {}
PermitsNext == \E t \in Tasks : Take(t) \/ Give(t)
PermitsSpec == PermitsInit /\ [][PermitsNext]_permitVars

=============================================================================
