SPECIFICATION Spec
CONSTANTS
  r1 = r1
  i1 = i1
  i2 = i2
  Nobody = Nobody
  PoolSize = 2
  Workers = {0, 1}
  Readers = {r1}
  Kinds = {"block", "reorg"}
  BlockKind = "block"
  DemoteAfter = 2
  MaxCooldown = 2
  MaxWaves = 1
  Crews <- TwoOfAKindOrTwoKinds
  BlockOf <- SevenRows
  HashRank <- HashOrder
  Heads = {3, 7}
  PageSize = 2
  LocalSize = 1
  SeenCap = 1
  Unusables = {{}, {2}}
  Instances = {i1, i2}
  MaxPages = 2
  MaxRows = 6
  MaxAttempts = 2
  g1 = g1
  g2 = g2
  Generations = {g1, g2}
  FirstParts = {1}
  MaxPartition = 2
  Extenders = {g1, g2}
  Widths <- SameOrChanged
  Ahead = 1
  MaxWidth = 3
  Keep = 2
  MaxHeight = 4
INVARIANTS
  ServicesTypeOK
  OutcomeTrue
  HealthEarned
  
  EachRowOnce
  SchemaKept
PROPERTIES
  KeepsCachePromise
  EntitiesSettle
  SchemaSettles
CHECK_DEADLOCK FALSE
