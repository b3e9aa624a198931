SPECIFICATION FairSpec
CONSTANTS
  Conns = {p, x}
  Phones = {p}
  MaxOpen = 1
  MaxSessions = 2
  MaxMessages = 5
  None = None
\* Every connection may end.
CHECK_DEADLOCK FALSE
INVARIANTS TypeOK SessionNeeded Proven DisconnectedCloses SessionRunsOut
PROPERTIES SilentEnds
