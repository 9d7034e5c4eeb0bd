SPECIFICATION Spec
CONSTANTS
  Procs = {old, new}
  MaxHeight = 3
  GapEnd <- Overlapping
  Poison = {2}
  ResumeWindow = 0
  HealBatch = 2
  FirstNewest = 4
  MaxNewest = 4
  MaxFloor = 2
  MaxCrashes = 1
  BlockFitsMargin = TRUE
  old = old
  new = new
SYMMETRY Generations
INVARIANTS
  GapRowsTrue
  
PROPERTIES
  DrainedBeforeCursor
CHECK_DEADLOCK FALSE
