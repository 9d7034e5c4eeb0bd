SPECIFICATION Spec
CONSTANTS
  Endpoints = {a, b}
  Strangers <- Nobody
  MaxHeight = 3
  ReorgDepth = 2
  BatchSize = 2
  MaxReorgs = 1
  MaxFaults = 1
  a = a
  b = b
INVARIANTS
  UnwindIsRetried
