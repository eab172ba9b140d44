SPECIFICATION Spec
CONSTANTS
  Byte = {"x", "y"}
  NoData = "none"
  LoaderBase = 2
  Images <- Differ
  SeqMod = 2
  Retries = 2
  MaxFaults = 1
  MaxMemFaults = 1
  MaxRuns = 3
  Timely = FALSE
  ProgramsReturn = FALSE
INVARIANTS FinalizedIsImage TerminalMeansImage BelievedIsFinalized
PROPERTY JumpOntoImage
CHECK_DEADLOCK FALSE
