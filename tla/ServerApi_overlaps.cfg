\* Two requests of one user in flight at once, of which any number scale; one
\* failure or restart.
SPECIFICATION FairOverlapSpec
CONSTANTS
  Users = {alice}
  Worlds = {w1}
  Requests = {r1, r2}
  None = None
  RowIds = {1, 2, 3}
  RetrySteps = 2
  MaxFaults = 1
  OneAtATime = FALSE
  Ops = {"create", "delete", "scale", "patch"}
  Repeated = {"scale"}
INVARIANTS TypeOK QueueDrained OneServerUnlessClash
PROPERTY EveryRequestAnswered
