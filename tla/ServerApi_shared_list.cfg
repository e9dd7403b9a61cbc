\* Two requests of two users in flight at once, nothing fails.
SPECIFICATION Spec
CONSTANTS
  Users = {alice, bob}
  Worlds = {w1}
  Requests = {r1, r2}
  None = None
  RowIds = {1, 2, 3, 4}
  RetrySteps = 2
  MaxFaults = 0
  OneAtATime = FALSE
  Ops = {"create", "delete", "scale", "patch"}
  Repeated = {}
SYMMETRY Symmetry
INVARIANT OwnResources
CHECK_DEADLOCK FALSE
