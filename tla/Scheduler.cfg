SPECIFICATION Spec
CONSTANTS
  Tasks = {a, b, c}
  First = a
  Idle = idle
  Queues = {q}
  Ops = {"yield", "wait", "wake_one", "wake_all", "spawn", "exit"}
  PRIORITY_LEVELS = 2
  QUANTA_PER_LEVEL = 2
  None = None
SYMMETRY Symmetry
INVARIANT TypeOK
INVARIANT SwitchedOffBeforeQueued
INVARIANT QueuedOnce
INVARIANT RunnableNotLost
INVARIANT BlockedIsHeld
INVARIANT NoStaleWakeup
INVARIANT CurrentIsCaller
INVARIANT MaskedWhileSwitching
PROPERTY ImplementsParking
