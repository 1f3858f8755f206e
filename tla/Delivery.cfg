SPECIFICATION LiveSpec
CONSTANTS
  x1 = x1
  x2 = x2
  Garbage = Garbage
  Items <- ItemsMC
  NumNodes = 2
  NodeSize = 2
  Self = 0
  Targets <- TargetsMC
  Procs <- ProcsMC
  BufSizes <- SizesMC
  Modes <- ModesMC
INVARIANTS
  RoomForNext
  LocalsAgree
  MessagesWellFormed
  EveryItemAccounted
  RefsExact
PROPERTIES
  ImplementsDeliveryService
  EveryItemDelivered
