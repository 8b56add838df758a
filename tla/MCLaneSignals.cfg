CONSTANTS
  DirectionA = DirectionA
  DirectionB = DirectionB
  Face <- Faces
  Indication <- Indications
  Start <- OpenOrClosed
  Legal = FALSE
  MaxEvents = 3
  MaxArrivals = 3
  MaxEpoch = 2
SYMMETRY Mirror
SPECIFICATION Spec
INVARIANTS TypeOK HeaderAccepts HeaderSilenceIsProof
  LegalStreamAccepted IllegalChangeNoticed
CHECK_DEADLOCK FALSE
