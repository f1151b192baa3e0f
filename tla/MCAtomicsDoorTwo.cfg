\* A guest with two connections, the first one read in part.
SPECIFICATION Spec
CONSTANTS
  Requests = 2
  MaxChunks = 2
  Threshold = 0
  Methods = {"GET"}
  OpenLimit = 2
  Mortal = FALSE
INVARIANT
  NeverBothParked
CHECK_DEADLOCK FALSE
