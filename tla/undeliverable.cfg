\* A reverse request is routed to a client whose write loop has died.
SPECIFICATION Spec
CONSTANTS
  MaxClients = 1
  MaxRequests = 1
  MaxStops = 0
  MaxAsks = 1
  MaxBroken = 1
  Commands = {"initialize"}
  AsksFor = {"runInTerminal"}
  OptIns = {TRUE}
  Offers <- NoOffers
  OperatorOwned = FALSE
  Disciplined = TRUE
  SeqMayBeMissing = FALSE
  UpstreamMayBreak = FALSE
  UpstreamMayDrop = FALSE
INVARIANT
  UndeliverableIsAnswered
CHECK_DEADLOCK FALSE
