SPECIFICATION FairSpec
CONSTANTS
  ServerVersion <- MCServerVersion
  ClientVersions <- MCClientVersions
  Clients = {TRUE, FALSE}
  MaxSent = 4
CHECK_DEADLOCK FALSE
INVARIANT TypeOK
INVARIANT KeySentInClear
INVARIANT OpenMeansEncrypting
PROPERTY ServerForwardOnly
INVARIANT ModeAgreement
INVARIANT InStep
PROPERTY HandshakeCompletes
