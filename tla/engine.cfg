SPECIFICATION EngineFairSpec
CONSTANTS
  Req = {r1}
  Rank = {w1, w2}
  Prompt = 2
  MaxTokens = 3
  MaxTables = 2
INVARIANT EngineTypeOK
INVARIANT BlocksQuiet
INVARIANT LoadedIsValid
INVARIANT ReportsExpected
INVARIANT NothingRemembered
PROPERTY KeepsContracts
PROPERTY WaitsEnd
CHECK_DEADLOCK FALSE
