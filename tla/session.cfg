\* Three clients race through the handshake, restart and terminate, come and go;
\* the debuggee stops and resumes; the adapter may be lost.
SPECIFICATION Spec
CONSTANTS
  MaxClients = 3
  MaxRequests = 3
  MaxStops = 1
  MaxAsks = 0
  MaxBroken = 0
  Commands <- SessionCommands
  AsksFor = {}
  OptIns = {FALSE}
  Offers <- FullOrNothing
  OperatorOwned = FALSE
  Disciplined = TRUE
  SeqMayBeMissing = FALSE
  UpstreamMayBreak = FALSE
  UpstreamMayDrop = TRUE
INVARIANTS
  ResponsesRouted
  NothingLost
  GoneLeaveNothing
  JoinersCaughtUp
  StopKept
CHECK_DEADLOCK FALSE
