SPECIFICATION FairSpec
CONSTANTS
  Tasks = {a, b, c}
  First = a
  Idle = idle
  Queues = {q}
  Ops = {"yield", "spawn", "exit"}
  PRIORITY_LEVELS = 2
  QUANTA_PER_LEVEL = 2
  None = None
PROPERTY ReadyRuns
