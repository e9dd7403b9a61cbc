\* Two users, two requests at once, two events on their way; one failure or
\* restart.
SPECIFICATION FairHistorySpec
CONSTANTS
  Users = {alice, bob}
  Customers = {cus1, cus2, cus3}
  Subscriptions = {sub1}
  Requests = {r1, r2}
  None = None
  MaxEvents = 2
  MaxFaults = 1
  OneSignUpPerUser = TRUE
INVARIANTS TypeOK RowIsBacked SubscriptionIsOwn OrphansAreFailures NothingForgotten
 
