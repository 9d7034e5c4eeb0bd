SPECIFICATION IndexerSpec
CONSTANTS
  MaxBlock = 3
  MaxVersion = 1
  MaxFloorPersists = 1
  MaxLag = 2
  SkipKeep = 1
  BatchSize = 2
  Concurrency = 2
  HighWaterBlocks = 1
  HighWaterRows = 5
  QuarantineAfter = 2
  Bad = {3}
  FreshDatabase = FALSE
  MaxCrashes = 1
  Horizons = {2, 3}
  ReorgHorizon = 2
  RowCount <- MCRowCount
INVARIANTS
  IndexerTypeOK
  NothingUnrecorded
PROPERTIES
  QuarantineEarned
CHECK_DEADLOCK FALSE
