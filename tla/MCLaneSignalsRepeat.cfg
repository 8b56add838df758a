CONSTANTS
  DirectionA = DirectionA
  DirectionB = DirectionB
  Face <- Faces
  Indication <- Indications
  Start <- OpenOrClosed
  Legal = TRUE
  MaxEvents = 3
  MaxArrivals = 4
  MaxEpoch = 2
SYMMETRY Mirror
SPECIFICATION Spec
INVARIANT RepeatPasses
CHECK_DEADLOCK FALSE
