\* Two servers, on one address and on any, and two requests.
SPECIFICATION FairSpec
CONSTANTS
  Handles = 4
  Requests = 2
  Addresses = {any, home}
  Wildcards = {any}
  NoAddress = noaddress
INVARIANTS
  TypeOK
  NeverForgotten
  TakenMatches
  QueueExact
  NoOrphans
PROPERTIES
  InboundSpec
  EveryHostAnswered
CHECK_DEADLOCK FALSE
