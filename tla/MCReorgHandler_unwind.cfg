SPECIFICATION FairSpec
CONSTANTS
  Endpoints = {a, b}
  Strangers <- NobodyOrB
  MaxHeight = 2
  ReorgDepth = 1
  BatchSize = 2
  MaxReorgs = 1
  MaxFaults = 2
  a = a
  b = b
INVARIANTS
  IndexUsable
PROPERTIES
  OneEndpointDeletesNothing
  TipConverges
