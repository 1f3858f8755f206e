SPECIFICATION Spec
CONSTANTS
  k1 = k1
  k2 = k2
  k3 = k3
  a1 = a1
  a2 = a2
  b1 = b1
  b2 = b2
  c1 = c1
  Items <- MCItems
  Keys <- MCKeys
  Key <- MCKey
  Hash <- MCHash
  Tag <- MCTag
  NumBuckets = 2
  FirstSize = 4
  Highs = {0, 2}
  Limits = {1, 2}
INVARIANTS
  TableFindsEveryKey
  RefsAreExact
  LowestIsSound
PROPERTIES
  ReleaseComplete
  ImplementsHoldService
