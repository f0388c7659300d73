SPECIFICATION FairSpec
CONSTANTS
  MaxPackets = 1
  NULL = NULL
  Wild = Wild
CHECK_DEADLOCK FALSE
PROPERTY CloseEnds
