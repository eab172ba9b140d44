SPECIFICATION FairSpec
CONSTANTS
  Byte = {"1", "2", "q", "nl", "attn"}
  Attention = "attn"
  Newline = {"nl"}
  NoByte = "none"
  App <- Menu
  Quit = {"q"}
  RingSize = 3
  MaxTyped = 6
INVARIANTS TypeOK
PROPERTIES ImplementsConsole AttentionReturns InputIsTaken
CHECK_DEADLOCK FALSE
