SPECIFICATION FairSpec
CONSTANTS
  PTp = 1
  DTp = 1
  Req = {r1}
  NumSenderTasks = 1
  MaxGen = 2
  BadLayout = {}
  WriteMayRaise = FALSE
PROPERTY EntryReclaimed
CHECK_DEADLOCK FALSE
