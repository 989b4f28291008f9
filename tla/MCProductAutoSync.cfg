SPECIFICATION FairSpec
CONSTANTS
  t1 = t1
  t2 = t2
  t3 = t3
  shopware = shopware
  NoTarget = NoTarget
  Threads = {t1, t2, t3}
  Targets = {shopware}
  MaxJobs = 3
  MaxChanges = 3
  MaxFaults = 1
INVARIANTS NoForgottenChange QuietMeansCurrent
PROPERTY QueuedIsProcessed
CHECK_DEADLOCK FALSE
