\* A guest that makes a HEAD request: core.mjs drops its response unread.
SPECIFICATION Spec
CONSTANTS
  Requests = 2
  MaxChunks = 2
  Threshold = 0
  Methods = {"GET", "HEAD"}
  OpenLimit = 1
  Mortal = FALSE
INVARIANT
  HeadParses
CHECK_DEADLOCK FALSE
