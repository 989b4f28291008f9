SPECIFICATION FairSpec
CONSTANTS
  j1 = j1
  j2 = j2
  t1 = t1
  t2 = t2
  NoJob = NoJob
  Jobs = {j1}
  Threads = {t1, t2}
  Continued <- MCContinued
  Registered <- MCContinued
  Disposable <- MCDisposable
  ByHand = {}
  MaxAttempts = 2
  MaxQueue = 2
  MaxFaults = 1
PROPERTIES TrackedJobSettles ContinuationConcludes
INVARIANTS GivenUpOnlyWhenExhausted NoForgottenRemoteJob
CHECK_DEADLOCK FALSE
