SPECIFICATION FairSpec
CONSTANTS
  N = 2
  Producers = {p1}
  Threads <- MCThreads
  Value = {v}
  NULL = NULL
  First = j1
  Job = {j1, j2, j3, j4}
CHECK_DEADLOCK FALSE
INVARIANT TypeOK
INVARIANT ThreadInv
INVARIANT ListIsQueue
INVARIANT JobsRunOnce
PROPERTY SignalledJobsTaken
PROPERTY DestroyOfWaitingEnds
