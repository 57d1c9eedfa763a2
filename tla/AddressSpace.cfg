SPECIFICATION Spec
CONSTANTS
  Procs = {p, q}
  SV39_LEVELS = 3
  PTE_PER_TABLE = 4
  Sections <- KernelImage
  KERNEL_END = 7
  DRAM_END = 27
  MMIO_REGIONS <- Devices
  PAGE_SIZE = 2
  USER_HEAP_BASE = 6
  USER_STACK_TOP = 12
  Image <- Text
  Deltas <- OnePage
  Values = {0, 1}
  Zero = 0
  Junk = 1
  Stored = {1}
  TLB_SIZE = 1
  MAX_CALLS = 2
  None = None
SYMMETRY Symmetry
INVARIANT FramesAccounted
INVARIANT MappedIsOwned
INVARIANT RunsInLiveSpace
INVARIANT NoStaleTranslation
INVARIANT KernelInEverySpace
PROPERTY ImplementsPrivateMemory
CHECK_DEADLOCK FALSE
