SPECIFICATION LiveCombinedSpec
CONSTANTS
  a1 = a1
  a2 = a2
  b1 = b1
  k1 = k1
  k2 = k2
  Items <- MCItems
  Keys <- MCKeys
  Key <- MCKey
  NumDest = 2
  NumBuckets = 2
  BUFSIZE = 4
  BufSizes = {1, 2, 4}
  Thresholds = {0, 1}
  DirectThresholds = {0}
  Selectivities = {1, 2}
  SelUnit = 2
  AddFillers = TRUE
  Merges <- MergePairs
INVARIANTS
  CombinedCounterExact
  BufferBounds
PROPERTIES
  CombinedFlushComplete
  CombinedNoBacklog
  FullUnlessFlushed
  ImplementsCombiningService
  HandlerReturns
  AdmittedLeaves
