SPECIFICATION HeapSpec
CONSTANTS
  MAX_ORDER = 2
  Frames = 5
  NIL = NIL
  PAGE_SIZE = 4
  CLASS_SIZES <- Sizes
  Layouts <- Requests
  MAX_OBJECTS = 2
INVARIANT Partition
INVARIANT ListsMatchBitmap
INVARIANT FailsOnlyWhenFull
INVARIANT ObjectsSound
INVARIANT Accounted
