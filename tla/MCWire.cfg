\* Three names, three aliases and one address that the resolver may give to
\* any of the names; two messages on each wire, cut anywhere.
\* A guest that has written everything may do nothing more.
SPECIFICATION Spec
CONSTANTS
  Names = 3
  Base = 2
  Given <- MCGiven
  Bodies <- MCBodies
INVARIANTS
  RequestsExact
  RightOrigin
  ResponseExact
CHECK_DEADLOCK FALSE
