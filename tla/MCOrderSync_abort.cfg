SPECIFICATION Spec
CONSTANTS
  t1 = t1
  t2 = t2
  Threads = {t1}
  MaxWorkflows = 1
  MaxJobs = 3
  NewCustomer = FALSE
  SameBilling = TRUE
  OldShipping = FALSE
  OldBilling = FALSE
  MaxDups = 0
  MaxActs = 1
  MaxFaults = 0
PROPERTY AbortIsFinal
CHECK_DEADLOCK FALSE
