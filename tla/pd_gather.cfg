SPECIFICATION PDFairSpec
CONSTANTS
  PTp = 2
  DTp = 1
  Req = {r1}
  NumSenderTasks = 1
  MaxGen = 2
  BadLayout = {}
  WriteMayRaise = TRUE
  BootstrapMayFail = TRUE
  LossyPeer = FALSE
INVARIANT OkMeansWritten
INVARIANT CountExact
PROPERTY KeepsContracts
PROPERTY ReceiveEnds
PROPERTY FenceEnds
CHECK_DEADLOCK FALSE
