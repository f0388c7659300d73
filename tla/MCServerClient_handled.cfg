SPECIFICATION FairSpec
CONSTANTS
  MaxPackets = 2
  NULL = NULL
  Wild = Wild
CHECK_DEADLOCK FALSE
PROPERTY EveryPacketHandled
