SPECIFICATION FairSpec
CONSTANTS
  worker = worker
  event = event
  owner = owner
  NoThread = NoThread
  Byte <- MCByte
  Strings <- MCStrings
  Threads <- ServerThreads
  Ops <- ServerOps
  InitSize = 1
  Freeable = FALSE
  MallocMayFail = FALSE
  FitSizes = {0, 3}
  MaxAppended = 4
  MaxCapacity = 8
PROPERTY Drains
