SPECIFICATION FairWarmingSpec
CONSTANTS
  Walks = {w1}
  Defs = 3
  Unnamed = {2}
  prefetchConcurrency = 1
  User = User
  MaxCalls = 1
  TTLs = {2}
  MaxVersion = 2
  MaxFlight = 1
  None = None
INVARIANTS
  WarmingIInv
  Accounting
  Throttled
  NothingLeftBehind
  ColdWalkWarms
PROPERTIES
  WalkEnds
