\* One user, one request at a time, one failure or restart.
SPECIFICATION Spec
CONSTANTS
  Users = {alice}
  Worlds = {w1}
  Requests = {r1}
  None = None
  RowIds = {1, 2, 3}
  RetrySteps = 2
  MaxFaults = 1
  OneAtATime = TRUE
  Ops = {"create", "delete", "scale", "patch"}
  Repeated = {"create", "delete", "scale", "patch"}
PROPERTY RowOutlivesDeployment
