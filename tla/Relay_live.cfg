SPECIFICATION FairSpec
CONSTANTS
  Workers = {"dev1", "dev2"}
  Topics = {"a", "b"}
  Owner <- TwoWorkers
  MaxRebases = 0
  MaxStops = 1
  MaxConflicts = 1
  MaxReleases = 2
  MaxSyncs = 0
  InitialDevs <- Fresh
  Overlap = FALSE
INVARIANTS RefsOK ReportedIsPublished
PROPERTIES BareDevGrows SignalledIsRelayed
CHECK_DEADLOCK FALSE
