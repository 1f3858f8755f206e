SPECIFICATION Spec
CONSTANTS
  x1 = x1
  x2 = x2
  x3 = x3
  x4 = x4
  x5 = x5
  Items <- ItemsMC
  NumBuckets = 5
  WordBits = 2
  CompactAt = 2
  Factors <- FactorsMC
SYMMETRY Symmetric
CHECK_DEADLOCK FALSE
INVARIANTS
  ScanFindsFirst
PROPERTIES
  ImplementsBucketQueues
