SPECIFICATION Spec
CONSTANTS
  PEs = {p1, p2, p3}
  Items = {x1, x2, x3}
INVARIANT TypeOK
PROPERTIES
  FiresWhenEmpty
  CallbackFires
