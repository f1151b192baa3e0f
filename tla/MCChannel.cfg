\* Three exchanges, heads and bodies of up to three chunks, wakes without a
\* notify allowed: the last exchange is past everything a cancelled one and a
\* completed one can leave behind.
SPECIFICATION FairSpec
CONSTANTS
  Exchanges = 3
  MaxChunks = 3
  SpuriousWakes = TRUE
INVARIANTS
  TypeOK
  WindowExclusion
  MessageIntact
  CleanBetweenExchanges
  HeadNeverRefused
  NeverBothAsleep
PROPERTIES
  FramesSpec
  DrainEnds
  HeadArrives
