SPECIFICATION LiveSpec
CONSTANTS
  Threads = {t1, t2}
  Items = {x1, x2, x3, x4, x5}
  bufSize = 3
  LOCAL_BUFSIZE = 2
PROPERTY
  EveryItemLeaves
