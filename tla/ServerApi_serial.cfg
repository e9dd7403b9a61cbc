\* Two users who take turns, and who both keep asking for a server; two
\* failures or restarts.
SPECIFICATION RetrySpec
CONSTANTS
  Users = {alice, bob}
  Worlds = {w1, w2}
  Requests = {r1}
  None = None
  RowIds = {1, 2, 3}
  RetrySteps = 2
  MaxFaults = 2
  OneAtATime = TRUE
  Ops = {"create", "delete", "scale", "patch"}
  Repeated = {"create", "delete", "scale", "patch"}
INVARIANTS OwnResources FaultlessConsistency 
PROPERTIES OthersUntouched SuccessIsReal RowFollowsCluster CreateEventuallyWorks
