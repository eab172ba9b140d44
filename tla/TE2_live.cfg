SPECIFICATION FairSpec
CONSTANTS
  Byte = {"x", "y"}
  NoData = "none"
  LoaderBase = 2
  Images <- Mixed
  SeqMod = 4
  Retries = 5
  MaxFaults = 2
  MaxMemFaults = 0
  MaxRuns = 2
  Timely = TRUE
  ProgramsReturn = TRUE
INVARIANTS IntactUploadVerifies OneJumpPerRun
PROPERTIES RunsEnd FewFaultsVerify
CHECK_DEADLOCK FALSE
