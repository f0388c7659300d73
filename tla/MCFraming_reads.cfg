SPECIFICATION FairSpec
CONSTANTS
  Packets <- MCPackets
  Strange <- MCStrange
  MaxPackets = 3
  MaxAstray = 2
  NonceBytes = 1
  ZeroBytes = 2
CHECK_DEADLOCK FALSE
INVARIANT TypeOK
INVARIANT TakenIsPrefix
INVARIANT LostOnlyBy
INVARIANT ServerTakesAll
PROPERTY SentIsTaken
