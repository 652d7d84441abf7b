\* A restore reads its file long after it was looked for.
SPECIFICATION Spec
CONSTANTS
  j1 = j1
  j2 = j2
  j3 = j3
  NoSchedule = NoSchedule
  Lost = Lost
  NoName = NoName
  Databases <- MCShop
  Labels <- MCPlainLabel
  AutoLabel <- MCAutoLabel
  SafetyLabel <- MCSafetyLabel
  MaxWindow = 1
  WindowInputs = {1}
  UserJobs = {j1}
  CronJobs = {j2}
  MaxTime = 1
  MaxCrashes = 0
  SameSecond = TRUE
  WritesFail = FALSE
  MaxMissed = 0
INVARIANTS
  RestoredMeansRestored
