\* Two connections over both doors, two requests, bodies of two chunks.
SPECIFICATION FairSpec
CONSTANTS
  Conns = {1, 2}
  Requests = 2
  MaxChunks = 2
  Methods = {"GET", "HEAD"}
INVARIANTS
  TypeOK
  OneExchange
  BytesExact
  EofHonest
  NoneAdrift
PROPERTIES
  StreamSpec
  AnswerEnds
  OrphansEnd
CHECK_DEADLOCK FALSE
