SPECIFICATION FairSpec
CONSTANTS
  BUFSZ = 4
  MaxBytes = 14
INVARIANTS Ordered
PROPERTIES IsFifo EveryByteIsEchoed
