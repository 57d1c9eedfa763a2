\* one frame is left when sbrk asks for two pages
SPECIFICATION Spec
CONSTANTS
  Procs = {p, q}
  SV39_LEVELS = 3
  PTE_PER_TABLE = 4
  Sections <- KernelImage
  KERNEL_END = 7
  DRAM_END = 18
  MMIO_REGIONS <- Devices
  PAGE_SIZE = 2
  USER_HEAP_BASE = 6
  USER_STACK_TOP = 14
  Image <- Text
  Deltas <- TwoPages
  Values = {0, 1}
  Zero = 0
  Junk = 1
  Stored = {1}
  TLB_SIZE = 1
  MAX_CALLS = 1
  None = None
SYMMETRY Symmetry
INVARIANT MappedIsOwned
CHECK_DEADLOCK FALSE
