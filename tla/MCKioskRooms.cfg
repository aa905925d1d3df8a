\* Two phones with two sockets each, two taps, two broken connections.
SPECIFICATION FairSpec
CONSTANTS
  Apps = {a1, a2}
  Ids = {1, 2}
  NoSocket = NoSocket
  MaxTaps = 2
  MaxFailures = 2
INVARIANTS TypeOK ServedIsRegistered ReconnectsOnlyDead
PROPERTIES ComesBack
CHECK_DEADLOCK FALSE
