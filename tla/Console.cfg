SPECIFICATION Spec
CONSTANTS
  Tasks = {a, b}
  CAP = 3
  FIFO_SIZE = 3
  Bytes = {0, 1}
  Lengths = {1, 2}
SYMMETRY Symmetry
INVARIANT AwakeForInput
PROPERTY ImplementsInputLine
