SPECIFICATION Spec
CONSTANTS
  Conns = {c, d}
  Timeout = 3
  CheckRange = 1
  MaxNow = 6
  MaxStarts = 5
\* The clock and the timers are bounded in the model.
CHECK_DEADLOCK FALSE
INVARIANTS OnTime NotEarly
PROPERTIES ImplementsDeadlines
