SPECIFICATION Spec
CONSTANTS
  Tasks = {a, b, c}
  Queues = {mq, sq}
  MutexQueue = mq
  SemaphoreQueue = sq
  None = None
  Initial = 1
  MaxCount = 1
INVARIANT MutualExclusion
INVARIANT SleeperIsHeld
INVARIANT NoWakeWasted
PROPERTY ImplementsPermits
PROPERTY TurnComes
CHECK_DEADLOCK FALSE
