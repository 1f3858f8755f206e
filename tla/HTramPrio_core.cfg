SPECIFICATION Spec
CONSTANTS
  NumDest = 1
  NumBuckets = 4
  Items = {x1, x2, x3, x4}
  BUFSIZE = 4
  BufSizes = {2, 4}
  Thresholds = {0, 2, 3}
  DirectThresholds = {0, 1}
  Selectivities = {1, 2}
  SelUnit = 2
  AddFillers = TRUE
  Merges <- MergePairs
SYMMETRY ItemSymmetry
INVARIANTS
  TypeOK
PROPERTIES
  DriftIsWhatStrands
  CoarseningStrandsOnlyKept
  FullUnlessFlushed
  ImplementsTramService
