SPECIFICATION Spec
CONSTANTS
  Char <- MCChar
  Texts <- MCTexts
  STR_POOL_SIZE = 11
  FIELD = 8
  NAME_POOL_SIZE = 12
  MAX_SYMBOLS = 5
  MaxStrings = 3
  MaxResets = 1
CHECK_DEADLOCK FALSE
INVARIANTS TablesOK TextIsKept GensymIsUnique
