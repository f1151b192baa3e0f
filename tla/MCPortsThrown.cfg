\* One server, two requests, and a host whose callback throws.
SPECIFICATION Spec
CONSTANTS
  Handles = 3
  Requests = 2
  Addresses = {any}
  Wildcards = {any}
  NoAddress = noaddress
INVARIANT
  ListenerSettlesAll
CHECK_DEADLOCK FALSE
