\* The operator's session boundary meets a client being accepted.
SPECIFICATION Spec
CONSTANTS
  MaxClients = 1
  MaxRequests = 0
  MaxStops = 0
  MaxAsks = 0
  MaxBroken = 0
  Commands = {"initialize"}
  AsksFor = {}
  OptIns = {FALSE}
  Offers <- NoOffers
  OperatorOwned = TRUE
  Disciplined = TRUE
  SeqMayBeMissing = FALSE
  UpstreamMayBreak = FALSE
  UpstreamMayDrop = TRUE
INVARIANT
  BoundaryClosesConnections
CHECK_DEADLOCK FALSE
