SPECIFICATION Spec
CONSTANTS
  Phones = {p, q}
  Runs = {v, w}
  Samples = {i}
  MaxAttempts = 1
  MaxRestarts = 0
  None = None
\* Runs are used up in the model.
CHECK_DEADLOCK FALSE
INVARIANTS AnswersOwn
