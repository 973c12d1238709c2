SPECIFICATION PlanSpec
CONSTANTS
  Lcm = 2
  Prompt = 5
  TPSize = 4
  NumKVHead = 2
  MaxLost = 2
  MaxFailed = 1
  BlockSizes <- MCBlockSizes
  Windows <- MCWindows
INVARIANT HitIsLongest
INVARIANT SavedIsFound
INVARIANT SuffixCovers
CHECK_DEADLOCK FALSE
