\* Six keys in pages of two, one write, one failed call or restart.
SPECIFICATION FairSpec
CONSTANTS
  alice = alice
  bob = bob
  midgard = midgard
  asgard = asgard
  old = old
  Users = {alice, bob}
  None = None
  Worlds = {midgard, asgard, old}
  Keys <- MCKeys
  PageSize = 2
  LongerIds <- MCLongerIds
  BackupNames <- MCBackupNames
  Clients = {alice}
  Bodies <- MCBodies
  Buckets <- MCBuckets
  MaxFaults = 1
  MaxWrites = 1
INVARIANTS TypeOK SendsNeverBlock ListingFaithful WorldGone
PROPERTY ListingAnswered
