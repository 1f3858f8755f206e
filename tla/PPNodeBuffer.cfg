SPECIFICATION LiveSpec
CONSTANTS
  Threads = {t1, t2, t3}
  Items = {x1, x2, x3, x4}
  bufSize = 2
  LOCAL_BUFSIZE = 1
INVARIANTS
  OneOwner
  NoHoleShipped
PROPERTIES
  ImplementsTramService
  EveryItemLeaves
