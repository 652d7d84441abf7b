\* One database: requests, restores, deletions and one run of cron at a time; what is
\* to be removed is.
SPECIFICATION Spec
CONSTANTS
  j1 = j1
  j2 = j2
  j3 = j3
  NoSchedule = NoSchedule
  Lost = Lost
  NoName = NoName
  Databases <- MCShop
  Labels <- MCPlainLabel
  AutoLabel <- MCAutoLabel
  SafetyLabel <- MCSafetyLabel
  MaxWindow = 1
  WindowInputs = {1}
  UserJobs = {j1}
  CronJobs = {j2}
  MaxTime = 2
  MaxCrashes = 0
  SameSecond = FALSE
  WritesFail = FALSE
  MaxMissed = 0
INVARIANTS
  ManualStays
PROPERTIES
  PruneLeavesNewer
