\* The adapter refuses a restart and stays stopped.
SPECIFICATION Spec
CONSTANTS
  MaxClients = 1
  MaxRequests = 2
  MaxStops = 1
  MaxAsks = 0
  MaxBroken = 0
  Commands = {"initialize", "restart"}
  AsksFor = {}
  OptIns = {FALSE}
  Offers <- FullOffer
  OperatorOwned = FALSE
  Disciplined = TRUE
  SeqMayBeMissing = FALSE
  UpstreamMayBreak = FALSE
  UpstreamMayDrop = FALSE
INVARIANT
  NoForgottenStop
CHECK_DEADLOCK FALSE
