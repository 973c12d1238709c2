SPECIFICATION ProxySpec
CONSTANTS
  Session = {s1}
  Malformed = {}
  QueueSize = 1
  MaxChunks = 2
INVARIANT CompleteIsSuccess
CHECK_DEADLOCK FALSE
