SPECIFICATION LateSpec
CONSTANTS
  t1 = t1
  t2 = t2
  Threads = {t1, t2}
  MaxWorkflows = 1
  MaxJobs = 7
  NewCustomer = FALSE
  SameBilling = TRUE
  OldShipping = FALSE
  OldBilling = FALSE
  MaxDups = 0
  MaxActs = 2
  MaxFaults = 1
INVARIANT CreatedOnce
CHECK_DEADLOCK FALSE
