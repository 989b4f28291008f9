SPECIFICATION Spec
CONSTANTS
  j1 = j1
  j2 = j2
  t1 = t1
  t2 = t2
  NoJob = NoJob
  Jobs = {j2}
  Threads = {t1, t2}
  Continued <- MCContinued
  Registered <- MCContinued
  Disposable <- MCDisposable
  ByHand = {j2}
  MaxAttempts = 2
  MaxQueue = 1
  MaxFaults = 1
PROPERTIES NoResurrection KeepsPromise
CHECK_DEADLOCK FALSE
