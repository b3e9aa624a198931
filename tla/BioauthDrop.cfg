SPECIFICATION FairSpec
CONSTANTS
  ExtApps = {e1}
  ProbeApps = {p1}
  MaxExtConns = 1
  MaxProbeConns = 1
  MaxRpcs = 1
  MaxAgain = 1
  MaxRetries = 0
  MaxExpiries = 0
  Overlap = FALSE
  Reclose = TRUE
  None = None
\* Every connection may close and every RPC may end.
CHECK_DEADLOCK FALSE
PROPERTIES DropReported
