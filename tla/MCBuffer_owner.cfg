SPECIFICATION Spec
CONSTANTS
  worker = worker
  event = event
  owner = owner
  NoThread = NoThread
  Byte <- MCByte
  Strings <- MCStringsAndEmpty
  Threads <- OwnerThreads
  Ops <- OwnerOps
  InitSize = 1
  Freeable = TRUE
  MallocMayFail = TRUE
  FitSizes = {0, 3}
  MaxAppended = 5
  MaxCapacity = 8
CHECK_DEADLOCK FALSE
INVARIANT UsedWithinMax
INVARIANT StreamIntact
INVARIANT FaultNeedsFailedReset
