SPECIFICATION Spec
CONSTANTS
  j1 = j1
  j2 = j2
  t1 = t1
  t2 = t2
  NoJob = NoJob
  Jobs = {j1}
  Threads = {t1, t2}
  Continued <- MCContinued
  Registered <- MCContinued
  Disposable <- MCDisposable
  ByHand = {}
  MaxAttempts = 1
  MaxQueue = 1
  MaxFaults = 0
INVARIANT DispatchedOnce
CHECK_DEADLOCK FALSE
