SPECIFICATION Spec
CONSTANTS
  Workers = {"dev1"}
  Topics = {"a"}
  Owner <- OneWorker
  MaxRebases = 1
  MaxStops = 1
  MaxConflicts = 0
  MaxReleases = 2
  MaxSyncs = 1
  InitialDevs <- Both
  Overlap = TRUE
INVARIANTS ReapedIsKept
CHECK_DEADLOCK FALSE
