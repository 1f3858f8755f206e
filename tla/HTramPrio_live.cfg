SPECIFICATION LiveSpec
CONSTANTS
  NumDest = 1
  NumBuckets = 2
  Items = {x1, x2, x3}
  BUFSIZE = 3
  BufSizes = {1, 3}
  Thresholds = {0, 1}
  DirectThresholds <- DirectNoneOrLowest
  Selectivities = {1}
  SelUnit = 2
  AddFillers = TRUE
  Merges <- MergePairs
PROPERTIES
  HandlerReturns
  AdmittedIsSent
