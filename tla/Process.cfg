SPECIFICATION FairSpec
CONSTANTS
  Tasks = {init, a, b}
  Root = init
  Codes = {0, 1}
  Killed = killed
  Faulty = {a, b}
  None = None
INVARIANT StatusDeliveredOnce
PROPERTY FreedStaysFreed
PROPERTY ExitedIsFreed
CHECK_DEADLOCK FALSE
