\* Answers of three pieces, and handlers that call back from handlers.
\* A guest may leave its socket alone for ever.
SPECIFICATION Spec
CONSTANTS
  Pieces = 3
  Depth = 10
  Events = 9
INVARIANTS
  EventsOrdered
  NothingLeft
CHECK_DEADLOCK FALSE
