SPECIFICATION LiveSpec
CONSTANTS
  t1 = t1
  t2 = t2
  Threads = {t1, t2}
  MaxWorkflows = 1
  MaxJobs = 9
  NewCustomer = TRUE
  SameBilling = TRUE
  OldShipping = FALSE
  OldBilling = FALSE
  MaxDups = 1
  MaxActs = 1
  MaxFaults = 1
INVARIANT NobodyWaitsInVain
PROPERTY WaitingEnds
CHECK_DEADLOCK FALSE
