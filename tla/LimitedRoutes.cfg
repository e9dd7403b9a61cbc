\* One user, three products; two changes of the plan, one failing call.
SPECIFICATION Spec
CONSTANTS
  None = None
  CpuLimit = 1
  MemoryLimit = 2
  Settings = {"standard", "own"}
  Defaults = "standard"
  Products <- MCProducts
  Subscriptions <- MCSubscriptions
  Bodies <- MCBodies
  Uploads <- MCUploads
  MaxFaults = 1
  MaxChanges = 2
INVARIANTS TypeOK LimitsAsAdvertised NamedWorldsEarned
PROPERTIES WithinPlan AsAsked
