SPECIFICATION Spec
CONSTANTS
  PTp = 1
  DTp = 2
  Req = {r1, r2}
  NumSenderTasks = 2
  MaxGen = 2
  BadLayout = {}
  WriteMayRaise = TRUE
INVARIANT NoReadAfterRelease
INVARIANT SendingBalanced
INVARIANT PopIsOwn
INVARIANT FinishedMeansServed
INVARIANT AnsweredOnce
INVARIANT IInv
SYMMETRY Symmetry
CHECK_DEADLOCK FALSE
