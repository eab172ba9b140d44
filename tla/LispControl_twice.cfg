SPECIFICATION Spec
CONSTANTS
  Tags = {"s", "t"}
  NoTag = "none"
  MAX_CATCH_DEPTH = 2
  MAX_WIND_DEPTH = 2
  MaxForms = 7
INVARIANTS AfterIsRunOnce
CHECK_DEADLOCK FALSE
