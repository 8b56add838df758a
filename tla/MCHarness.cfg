CONSTANTS
  Cap = 1
  Value <- Presence
  MaxEvents = 3
  MaxTime = 3
  Resolution = 2
  MaySkip = TRUE
  MayFail = TRUE
  NoReading = NoReading
SPECIFICATION FairSpec
INVARIANTS TypeOK DeliveredIsJudged SnapshotPostdatesEvents
  EventsPostdateDevice FailureExplained SilentChangeNoticed
PROPERTY Termination
CHECK_DEADLOCK FALSE
