CONSTANTS
  Cap = 1
  Value <- Presence
  MaxEvents = 2
  MaxTime = 1
  Resolution = 1
  MaySkip = FALSE
  MayFail = FALSE
  NoReading = NoReading
SPECIFICATION Spec
INVARIANT MismatchMeansSilent
CHECK_DEADLOCK FALSE
