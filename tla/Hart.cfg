\* One task beside the idle loop; time enough for a late tick and a skipped one;
\* a second fault while the machine is going down.
CONSTANTS
  t1 = t1
  t2 = t2
  Idle = idle
  Tasks = {t1}
  Locks <- MCLocks
  Threads <- MCThreads
  Names <- MCNames
  Code <- MCCode
  User <- MCUser
  Entry <- MCEntry
  Calls <- MCCalls
  UserTicks <- MCUserTicks
  UserDevices <- MCUserDevices
  Ticks <- MCTicks
  Devices <- MCDevices
  Loops <- MCLoops
  Resting <- MCResting
  Fatal <- MCFatal
  Panicking <- MCPanicking
  Halting <- MCHalting
  MAX_FAULTS = 2
  INTERVAL = 2
  MAX_TIME = 4
SPECIFICATION FairSpec
INVARIANT NoSelfDeadlock
INVARIANT MaskingIsExact
INVARIANT TickRate
PROPERTY TickHandled
PROPERTY PanicStops
CHECK_DEADLOCK FALSE
