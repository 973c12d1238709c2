SPECIFICATION PDFairSpec
CONSTANTS
  PTp = 1
  DTp = 1
  Req = {r1, r2}
  NumSenderTasks = 1
  MaxGen = 2
  BadLayout = {}
  WriteMayRaise = TRUE
  BootstrapMayFail = TRUE
  LossyPeer = TRUE
INVARIANT PDTypeOK
INVARIANT NoWriteAfterTerminal
PROPERTY ReceiveEnds
CHECK_DEADLOCK FALSE
