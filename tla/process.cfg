\* The interface over two sessions, and the plain server, in every mode.
SPECIFICATION FairSpec
CONSTANTS
  Muxes = {m1, m2}
  Clients = {c1, c2}
  Launcher = c1
  NoMux = NoMux
  Configs <- Resolvable
INVARIANTS
  TypeOK
  OneAdapter
  FeedsTheCurrentSession
  AdapterReaped
PROPERTIES
  ImplementsBoundary
  ConnectingResolves
  LostAdapterEndsSession
  EndedSessionFreesAdapter
