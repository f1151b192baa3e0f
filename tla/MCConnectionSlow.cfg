\* One connection whose guest may take its time between two reads.
SPECIFICATION Spec
CONSTANTS
  Conns = {1}
  Requests = 1
  MaxChunks = 2
  Methods = {"GET"}
INVARIANT
  OnlySilenceCuts
CHECK_DEADLOCK FALSE
