SPECIFICATION FairSpec
CONSTANTS
  Users = {ann, bob}
  Provided = {ann}
  Cells <- SmallIndex
  MaxRuns = 2
  MaxEnrols = 2
  MaxRows = 2
  MaxHashed = 2
  MaxTroubles = 1
  None = None
\* Identifications and enrolments are used up in the model.
CHECK_DEADLOCK FALSE
INVARIANTS IdentTypeOK WholeEstimate FoundWasStored Indexed NobodyMissed
PROPERTIES IdentAnswered
