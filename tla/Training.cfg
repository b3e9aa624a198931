SPECIFICATION FairSpec
CONSTANTS
  MaxCodes = 2
  MaxConns = 2
  MaxRuns = 2
  MaxAttempts = 2
  Need = 2
  MaxTroubles = 1
  Pipelines = {"photo", "openface", "verify"}
  None = None
\* The phone may go away and the AI has no more codes.
CHECK_DEADLOCK FALSE
INVARIANTS TrainingTypeOK CanceledStays AttemptsKept CodeKept TryIsOut
PROPERTIES RunEnds
