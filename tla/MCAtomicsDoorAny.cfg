\* Any use of the door: HEAD requests, a second fetch with a response open, a
\* fetcher that may end.  Threads may park for ever here, so the system really
\* may stop.
SPECIFICATION Spec
CONSTANTS
  Requests = 3
  MaxChunks = 3
  Threshold = 1
  Methods = {"GET", "HEAD"}
  OpenLimit = 2
  Mortal = TRUE
INVARIANTS
  TypeOK
  NothingDropped
  DeadlineCovers
PROPERTY
  DoorSpec
CHECK_DEADLOCK FALSE
