\* Frames sound and flawed, cut anywhere; writes that fail or wait; a lost adapter.
SPECIFICATION FairSpec
CONSTANTS
  MaxPieces = 4
  MaxMessages = 2
  Frontends = {"stdio", "interface"}
  WritesMayFail = TRUE
  UpstreamMayDrop = TRUE
INVARIANTS
  TypeOK
  DispatchedInOrder
  LineWhole
  ClosedAfterDrain
PROPERTIES
  LetGo
  ImplementsDuplex
CHECK_DEADLOCK FALSE
