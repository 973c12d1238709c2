SPECIFICATION PoolFairSpec
CONSTANTS
  BlockSizes <- MCBlockSizes
  Req = {r1}
  l1 = l1
  l2 = l2
  Line = {l1, l2}
  MaxToken = 4
  Lcm = 2
  SaveInput <- MCSaveInput
  LoadRange <- MCLoadRange
  MaxSaves = 3
  MaxLoads = 1
  LoadWorkers = 1
  MayClose = TRUE
INVARIANT PoolTypeOK
INVARIANT ReadsReadyBlocks
INVARIANT MergesExactly
INVARIANT NoSaveLost
PROPERTY KeepsContracts
PROPERTY SaveResultHonest
PROPERTY LoadResultHonest
PROPERTY BlocksComeBack
PROPERTY CallsReturn
CHECK_DEADLOCK FALSE
