SPECIFICATION RoundSpec
CONSTANTS
  NumDest = 2
  NumBuckets = 3
  Items = {x1, x2, x3, x4}
  BUFSIZE = 2
  BufSizes = {1, 2}
  Thresholds = {0, 1, 2}
  DirectThresholds = {0}
  Selectivities = {1}
  SelUnit = 2
  AddFillers = TRUE
  Merges <- MergePairs
SYMMETRY ItemSymmetry
INVARIANTS
  NoBacklog
  BufferBounds
PROPERTIES
  NoItemWaitsTwoRounds
  FlushComplete
