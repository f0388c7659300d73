SPECIFICATION FairSpec
CONSTANTS
  Event = {v1, v2, v3}
  InitialSize = 2
  NULL = NULL
CHECK_DEADLOCK FALSE
INVARIANT TypeOK
INVARIANT TableExact
INVARIANT SafeRun
PROPERTY ReadyIsRun
