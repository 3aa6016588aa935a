\* A server that spawned its adapter, on every way out.
SPECIFICATION Spec
CONSTANTS
  Muxes = {m1, m2}
  Clients = {c1, c2}
  Launcher = c1
  NoMux = NoMux
  Configs <- SpawningServer
INVARIANT
  NoOrphan
