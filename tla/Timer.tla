-------------------------------- MODULE Timer --------------------------------
(***************************************************************************)
(* kernel/src/timer.rs: the time counter, the comparator that firmware     *)
(* programs for the kernel, and on_tick, which counts a tick and arms the  *)
(* next.  The handler may run late, because interrupts were masked, and    *)
(* time goes on while it runs.  u64 does not overflow in the life of a     *)
(* machine (10 MHz).                                                       *)
(***************************************************************************)
EXTENDS Integers

CONSTANTS
  INTERVAL,      \* interval()
  MAX_TIME       \* bound: the counter stops here

ASSUME TimerAssumption == INTERVAL \in Nat \ {0} /\ MAX_TIME \in Nat

VARIABLES
  now,           \* the time counter
  armed,         \* the comparator
  TICKS, NEXT_DEADLINE,
  looked,        \* history: when on_tick last read the time
  skipped        \* history: on_tick has found the next deadline in the past

timerVars == <<now, armed, TICKS, NEXT_DEADLINE, looked, skipped>>

\* init, at time 0
TimerInit ==
  /\ now = 0 /\ armed = INTERVAL
  /\ TICKS = 0 /\ NEXT_DEADLINE = INTERVAL
  /\ looked = 0 /\ skipped = FALSE

Advance ==
  /\ now < MAX_TIME
  /\ now' = now + 1
  /\ UNCHANGED <<armed, TICKS, NEXT_DEADLINE, looked, skipped>>

\* The timer interrupt is pending.
Pending == now >= armed

\* on_tick: TICKS
CountTick ==
  /\ TICKS' = TICKS + 1
  /\ UNCHANGED <<now, armed, NEXT_DEADLINE, looked, skipped>>

\* mutant of NextDeadline: a deadline that is just over is kept
NextDeadlineOver ==
  IF NEXT_DEADLINE + INTERVAL < now THEN now + INTERVAL ELSE NEXT_DEADLINE + INTERVAL

\* on_tick: `next`
NextDeadline ==
  IF NEXT_DEADLINE + INTERVAL <= now THEN now + INTERVAL ELSE NEXT_DEADLINE + INTERVAL

\* on_tick: read_time and the store
StoreDeadline ==
  /\ NEXT_DEADLINE' = NextDeadline
  /\ looked' = now
  /\ skipped' = (skipped \/ NEXT_DEADLINE + INTERVAL <= now)
  /\ UNCHANGED <<now, armed, TICKS>>

\* on_tick: set_timer
SetTimer ==
  /\ armed' = NEXT_DEADLINE
  /\ UNCHANGED <<now, TICKS, NEXT_DEADLINE, looked, skipped>>

=============================================================================
