\* A continue is answered, no event says so, and a second client joins.
SPECIFICATION Spec
CONSTANTS
  MaxClients = 2
  MaxRequests = 3
  MaxStops = 1
  MaxAsks = 0
  MaxBroken = 0
  Commands = {"initialize", "continue"}
  AsksFor = {}
  OptIns = {FALSE}
  Offers <- NoOffers
  OperatorOwned = FALSE
  Disciplined = TRUE
  SeqMayBeMissing = FALSE
  UpstreamMayBreak = FALSE
  UpstreamMayDrop = FALSE
PROPERTY
  NoStaleStop
CHECK_DEADLOCK FALSE
