SPECIFICATION Spec
CONSTANTS
  Tasks = {init, a}
  Root = init
  Codes = {0}
  Killed = killed
  Faulty = {}
  None = None
INVARIANT NoSleepBesideZombie
CHECK_DEADLOCK FALSE
