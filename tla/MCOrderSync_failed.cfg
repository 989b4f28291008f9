SPECIFICATION Spec
CONSTANTS
  t1 = t1
  t2 = t2
  Threads = {t1, t2}
  MaxWorkflows = 1
  MaxJobs = 3
  NewCustomer = FALSE
  SameBilling = TRUE
  OldShipping = FALSE
  OldBilling = FALSE
  MaxDups = 0
  MaxActs = 0
  MaxFaults = 1
PROPERTY FailedCanBeResumed
CHECK_DEADLOCK FALSE
