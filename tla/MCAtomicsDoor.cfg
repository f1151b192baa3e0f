\* A guest that reads or closes each response before its next request; the
\* fetcher's thread may end at any moment, after which the guest may park
\* for ever: the system really may stop.
SPECIFICATION FairSpec
CONSTANTS
  Requests = 2
  MaxChunks = 3
  Threshold = 1
  Methods = {"GET", "POST"}
  OpenLimit = 1
  Mortal = TRUE
INVARIANTS
  HeadParses
  AnswerIsMine
  LengthHonest
  CleanBetweenExchanges
  NeverBothParked
PROPERTIES
  CallsReturn
  FetcherReturns
CHECK_DEADLOCK FALSE
