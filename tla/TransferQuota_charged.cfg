\* A grant used twice, the second time after it expired.
SPECIFICATION Spec
CONSTANTS
  Transfers = {t1, t2}
  Requests = {r1, r2}
  Sizes = {1, 2}
  Quota = 3
  DayLength = 2
  GrantTTL = 1
  StaleAge = 1
  MaxTime = 3
CHECK_DEADLOCK FALSE
INVARIANTS DeliveredIsCharged
