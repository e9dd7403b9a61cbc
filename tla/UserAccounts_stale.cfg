\* One user, one sign-up or server create at a time, no failures.
SPECIFICATION Spec
CONSTANTS
  Users = {alice}
  Customers = {cus1}
  Subscriptions = {sub1}
  Requests = {r1}
  None = None
  MaxEvents = 1
  MaxFaults = 0
  OneSignUpPerUser = TRUE
PROPERTY SubscriptionKept
