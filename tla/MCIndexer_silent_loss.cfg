SPECIFICATION IndexerSpec
CONSTANTS
  MaxBlock = 4
  MaxVersion = 0
  MaxFloorPersists = 1
  MaxLag = 2
  SkipKeep = 1
  BatchSize = 2
  Concurrency = 2
  HighWaterBlocks = 1
  HighWaterRows = 5
  QuarantineAfter = 2
  Bad = {}
  FreshDatabase = FALSE
  MaxCrashes = 1
  Horizons = {4}
  ReorgHorizon = 0
  RowCount <- MCRowCount
INVARIANTS
  NoSilentLoss
CHECK_DEADLOCK FALSE
