SPECIFICATION FairSpec
CONSTANTS
  Client = {c1, c2, c3}
  NULL = NULL
CHECK_DEADLOCK FALSE
INVARIANT EventsAreLive
INVARIANT ServerInv
PROPERTY EndedIsClosed
