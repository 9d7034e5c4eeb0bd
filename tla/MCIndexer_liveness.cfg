SPECIFICATION IndexerFairSpec
CONSTANTS
  MaxBlock = 2
  MaxVersion = 0
  MaxFloorPersists = 0
  MaxLag = 9
  SkipKeep = 1
  BatchSize = 2
  Concurrency = 2
  HighWaterBlocks = 1
  HighWaterRows = 5
  QuarantineAfter = 2
  Bad = {1}
  FreshDatabase = FALSE
  MaxCrashes = 1
  Horizons = {2}
  ReorgHorizon = 0
  RowCount <- MCRowCount
PROPERTIES
  ReachesTip
  WatermarkFollows
  EveryDecodeLands
CHECK_DEADLOCK FALSE
