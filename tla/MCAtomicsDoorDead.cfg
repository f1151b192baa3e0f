\* A guest that reads on after the backend was closed.
SPECIFICATION Spec
CONSTANTS
  Requests = 2
  MaxChunks = 2
  Threshold = 0
  Methods = {"GET"}
  OpenLimit = 1
  Mortal = TRUE
INVARIANT
  NeverParkedOnDead
CHECK_DEADLOCK FALSE
