SPECIFICATION FairSpec
CONSTANTS
  Calls = {c1, c2, c3}
  MaxGenerations = 2
  None = None
\* Calls and generations run out in the model.
CHECK_DEADLOCK FALSE
INVARIANTS PgpTypeOK Matched Erased
PROPERTIES CallAnswered
