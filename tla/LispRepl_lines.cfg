SPECIFICATION FairSpec
CONSTANTS
  LineMax = 28
  SymMax = 6
  StrMax = 5
  Keys <- MCKeys
  Uninit = {"nul", "a"}
  Spellings <- AllSpellings
  MaxKeys = 5
  MaxTypos = 1
  MaxSpelled = 1
INVARIANTS LineOK EditorAgrees SpelledIsRead
PROPERTIES LinesEnd
CHECK_DEADLOCK FALSE
