SPECIFICATION FairSpec
CONSTANTS
  hextab <- MChextab
  Other <- MCOther
  ADDR = 1
  LINSIZ = 8
  Filling = {3}
  Typed = {";"}
  Noise <- MCNoise
  Files <- MCFiles
  BOARDBUF = 10
  HOSTBUF = 2
  MaxKeys = 1
  MaxFaults = 1
CHECK_DEADLOCK FALSE
INVARIANTS FlowOK UploadIsStored RejectedIsLast IntactCompletes
PROPERTIES OnlyLineIsStored UploadEnds
