\* The client chooses the key that is signed.
SPECIFICATION Spec
CONSTANTS
  None = None
  CpuLimit = 1
  MemoryLimit = 2
  Settings = {"standard", "own"}
  Defaults = "standard"
  Products <- MCProducts
  Subscriptions <- MCSubscriptions
  Bodies <- MCBodies
  Uploads <- MCUploads
  MaxFaults = 1
  MaxChanges = 2
INVARIANT UploadsEarned
