SPECIFICATION FairSpec
CONSTANTS
  Phones = {p}
  Runs = {v}
  Samples = {i, k, l}
  MaxAttempts = 1
  MaxRestarts = 1
  None = None
\* Runs are used up in the model.
CHECK_DEADLOCK FALSE
INVARIANTS JobsTypeOK VerdictIsEarned NothingLeft
PROPERTIES RunAnswered ImplementsVerification
