SPECIFICATION MixedSpec
CONSTANTS
  NumDest = 1
  NumBuckets = 3
  Items = {x1, x2, x3}
  BUFSIZE = 3
  BufSizes = {2}
  Thresholds = {0, 2}
  DirectThresholds = {0}
  Selectivities = {2}
  SelUnit = 2
  AddFillers = FALSE
  Merges <- MergePairs
INVARIANT
  EmptyCountsZero
