SPECIFICATION Spec
CONSTANTS
  t1 = t1
  t2 = t2
  Threads = {t1, t2}
  MaxWorkflows = 1
  MaxJobs = 6
  NewCustomer = FALSE
  SameBilling = TRUE
  OldShipping = FALSE
  OldBilling = FALSE
  MaxDups = 1
  MaxActs = 0
  MaxFaults = 0
INVARIANT CreatedOnce
CHECK_DEADLOCK FALSE
