\* The levels the clamp and the filters tell apart; a pane of one row over two lines.
SPECIFICATION Spec
CONSTANTS
  Capacity = 2
  Rows = 1
  MaxLines = 1
  MaxStderr = 2
  LogLevels = {2, 5}
  EventLevels = {1, 5}
INVARIANTS
  TypeOK
  PaneShowsLatest
  StderrKept
  ShellRestored
PROPERTIES
  StderrDrained
CHECK_DEADLOCK FALSE
