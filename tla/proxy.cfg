SPECIFICATION ProxyFairSpec
CONSTANTS
  Session = {s1, s2}
  Malformed = {s2}
  QueueSize = 1
  MaxChunks = 2
INVARIANT ProxyTypeOK
INVARIANT SuccessMeansBoth
INVARIANT LeavesNothing
INVARIANT RecordedOnce
PROPERTY RequestsEnd
CHECK_DEADLOCK FALSE
