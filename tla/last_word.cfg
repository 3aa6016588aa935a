\* The adapter is lost under a client; the program exits.
SPECIFICATION Spec
CONSTANTS
  MaxPieces = 2
  MaxMessages = 1
  Frontends = {"tcp"}
  WritesMayFail = FALSE
  UpstreamMayDrop = TRUE
INVARIANT
  LastWordWritten
CHECK_DEADLOCK FALSE
