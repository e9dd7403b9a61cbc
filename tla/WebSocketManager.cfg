\* Two clients of one or two users, two messages, malformed or not.
SPECIFICATION FairSpec
CONSTANTS
  Conns = {c1, c2}
  Users = {alice, bob}
  None = None
  MaxMessages = 2
INVARIANTS TypeOK ClientsTracked StreamIntact
PROPERTIES Delivered HandlersReturn ForwarderReleased
\* Each connection is used once: the run ends.
CHECK_DEADLOCK FALSE
