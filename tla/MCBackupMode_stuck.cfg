SPECIFICATION BackupSpec
CONSTANTS
  s1 = s1
  s2 = s2
  Slots = {s1, s2}
  MaxVisits = 1
  MaxOutages = 1
PROPERTY OverdueFlagIsCleared
CHECK_DEADLOCK FALSE
