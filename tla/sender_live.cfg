SPECIFICATION FairSpec
CONSTANTS
  PTp = 1
  DTp = 3
  Req = {r1}
  NumSenderTasks = 1
  MaxGen = 2
  BadLayout = {2}
  WriteMayRaise = TRUE
PROPERTY SourceReleased
PROPERTY MessageEnds
CHECK_DEADLOCK FALSE
