SPECIFICATION FairSpec
CONSTANTS
  Sessions = {s1, s2}
  MaxRestarts = 2
\* Tokens run out in the model.
CHECK_DEADLOCK FALSE
INVARIANTS SessionsTypeOK QueuedOnce Watched
PROPERTIES Expires
