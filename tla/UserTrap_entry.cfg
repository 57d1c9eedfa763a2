\* When the last process has exited nothing is left to run.
CHECK_DEADLOCK FALSE
SPECIFICATION Spec
CONSTANTS
  Tasks = {a, b, c}
  Blocks = {x, y, z, w}
  Idle = Idle
  NoBlock = NoBlock
  POINTS = 2
SYMMETRY Symmetry
INVARIANT HandlerHasFrame
