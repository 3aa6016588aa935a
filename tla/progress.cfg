\* Requests and reverse requests get their answers, of clients that opt in or not;
\* the queue to the adapter may lose its reader and an operator ends the session.
SPECIFICATION FairSpec
CONSTANTS
  MaxClients = 2
  MaxRequests = 2
  MaxStops = 0
  MaxAsks = 1
  MaxBroken = 0
  Commands = {"initialize", "launch", "disconnect"}
  AsksFor = {"runInTerminal", "startDebugging"}
  OptIns = {TRUE, FALSE}
  Offers <- NoOffers
  OperatorOwned = TRUE
  Disciplined = TRUE
  SeqMayBeMissing = FALSE
  UpstreamMayBreak = TRUE
  UpstreamMayDrop = FALSE
PROPERTIES
  AsksReachWillingClients
  ImplementsBoundary
  EveryRequestSettled
  EveryAskSettled
CHECK_DEADLOCK FALSE
