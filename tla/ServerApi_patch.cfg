\* One user, who may have a server, sends patches, one at a time.
SPECIFICATION Spec
CONSTANTS
  Users = {alice}
  Worlds = {w1}
  Requests = {r1}
  None = None
  RowIds = {1, 2, 3}
  RetrySteps = 2
  MaxFaults = 0
  OneAtATime = TRUE
  Ops = {"patch"}
  Repeated = {"patch"}
PROPERTY PatchRefusalIsTrue
