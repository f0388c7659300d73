SPECIFICATION Spec
CONSTANTS
  worker = worker
  event = event
  owner = owner
  NoThread = NoThread
  Byte <- MCByte
  Strings <- MCStringsAndEmpty
  Threads <- SharedThreads
  Ops <- SharedOps
  InitSize = 2
  Freeable = FALSE
  MallocMayFail = TRUE
  FitSizes = {0, 3}
  MaxAppended = 4
  MaxCapacity = 8
INVARIANT SharedInv
PROPERTY ImplementsStream
