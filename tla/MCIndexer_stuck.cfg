SPECIFICATION IndexerFairSpec
CONSTANTS
  MaxBlock = 3
  MaxVersion = 0
  MaxFloorPersists = 1
  MaxLag = 1
  SkipKeep = 0
  BatchSize = 2
  Concurrency = 1
  HighWaterBlocks = 1
  HighWaterRows = 5
  QuarantineAfter = 2
  Bad = {}
  FreshDatabase = FALSE
  MaxCrashes = 0
  Horizons = {3}
  ReorgHorizon = 0
  RowCount <- MCRowCount
PROPERTIES
  WatermarkNotStuck
CHECK_DEADLOCK FALSE
