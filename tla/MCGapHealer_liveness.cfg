SPECIFICATION FairSpec
CONSTANTS
  Procs = {old}
  MaxHeight = 3
  GapEnd <- TwoGaps
  Poison = {2}
  ResumeWindow = 0
  HealBatch = 2
  FirstNewest = 3
  MaxNewest = 4
  MaxFloor = 1
  MaxCrashes = 1
  BlockFitsMargin = TRUE
  old = old
PROPERTIES
  EveryGapHeals
CHECK_DEADLOCK FALSE
