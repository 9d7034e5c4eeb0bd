SPECIFICATION Spec
CONSTANTS
  MaxTime = 4
  MaxFailed = 1
  Policies <- TwoPolicies
  Immortal = 9
  MinDays = 1
  Tokens = {1, 2, 3, 4}
  Nature <- FourNatures
  FirstHolders <- HeadOfTwo
  MaxHolders = 1
  HeadMin = 1
  HeadLimit = 2
  Batch = 2
  MaxPages = 2
  MinAttempts = 2
  StreakLimit = 2
  StrikeLimit = 2
  Window = 2
  MaxMoves = 1
  MaxFlips = 1
  Processes = {web, indexer}
  web = web
  indexer = indexer
  Costs = {2}
  CuMax = 3
  HourlyMax = 2
  MaxMonth = 2
  w1 = w1
  b1 = b1
  b2 = b2
  p1 = p1
  p2 = p2
  None = None
  Hooks = {w1}
  Blocks = {b1, b2}
  Watches <- WatchesAll
  Notifiers = {p1, p2}
  KeyHolders = {p1}
  Slots = {1}
  FailLimit = 2
  Prunable = {b1}
INVARIANTS
  GapsInWindowCounted
CHECK_DEADLOCK FALSE
