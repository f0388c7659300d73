SPECIFICATION FairSpec
CONSTANTS
  MaxPackets = 4
  ReplySize = 2
  Peers <- AnyPeer
CHECK_DEADLOCK FALSE
INVARIANT PatientInv
PROPERTY LoopQuiets
PROPERTY PatientPeerServed
