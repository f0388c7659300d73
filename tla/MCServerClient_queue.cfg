SPECIFICATION FairSpec
CONSTANTS
  MaxPackets = 4
  NULL = NULL
  Wild = Wild
CHECK_DEADLOCK FALSE
INVARIANT TypeOK
INVARIANT HandledInOrder
INVARIANT WakeupInv
INVARIANT PatientSafe
PROPERTY PatientHandled
PROPERTY CloseOfWaitingEnds
