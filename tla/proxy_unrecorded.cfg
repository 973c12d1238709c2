SPECIFICATION ProxySpec
CONSTANTS
  Session = {s1}
  Malformed = {}
  QueueSize = 1
  MaxChunks = 2
INVARIANT EveryRequestRecorded
CHECK_DEADLOCK FALSE
