SPECIFICATION Spec
CONSTANTS
  HEAP_SIZE = 3
  MAX_GC_ROOTS = 1
  StackSize = 2
  MaxWrites = 3
INVARIANTS HeapOK OomIsFull
PROPERTY StraysOnlyByGc
CHECK_DEADLOCK FALSE
