SPECIFICATION Spec
CONSTANTS
  MaxBlock = 2
  MaxVersion = 1
  MaxFloorPersists = 1
  RowCount <- MCRowCount
INVARIANTS
  RowCounterExact
  NoLostWakeup
  
  
PROPERTIES
  OnlyUnwindDeletes
  NoDecodeDropped
  
