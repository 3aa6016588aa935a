\* Clients that ignore the protocol, whose requests may lack a seq and whose write
\* loops may die; a reverse request.
SPECIFICATION Spec
CONSTANTS
  MaxClients = 2
  MaxRequests = 3
  MaxStops = 0
  MaxAsks = 1
  MaxBroken = 1
  Commands = {"initialize", "configurationDone", "disconnect", "threads"}
  AsksFor = {"runInTerminal"}
  OptIns = {TRUE}
  Offers <- FullOffer
  OperatorOwned = FALSE
  Disciplined = FALSE
  SeqMayBeMissing = TRUE
  UpstreamMayBreak = FALSE
  UpstreamMayDrop = FALSE
INVARIANTS
  TypeOK
  RoutesIntact
  HandshakeOnce
  ReverseAccounted
PROPERTY
  ImplementsRelay
CHECK_DEADLOCK FALSE
