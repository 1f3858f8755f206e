SPECIFICATION TimerSpec
CONSTANTS
  PEs = {p1, p2}
  Items = {x1, x2, x3}
PROPERTY FiresWhenBuffersEmpty
