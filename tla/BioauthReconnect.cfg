SPECIFICATION Spec
CONSTANTS
  ExtApps = {e1}
  ProbeApps = {p1}
  MaxExtConns = 2
  MaxProbeConns = 2
  MaxRpcs = 2
  MaxAgain = 1
  MaxRetries = 0
  MaxExpiries = 0
  Overlap = TRUE
  Reclose = FALSE
  None = None
\* Every connection may close and every RPC may end.
CHECK_DEADLOCK FALSE
INVARIANTS StateIsPublished CompleteIsEarned
