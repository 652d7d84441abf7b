\* Runs of cron overlap, the agent crashes, removals and writes of the schedules fail.
SPECIFICATION Spec
CONSTANTS
  j1 = j1
  j2 = j2
  j3 = j3
  NoSchedule = NoSchedule
  Lost = Lost
  NoName = NoName
  Databases <- MCShop
  Labels <- MCPlainLabel
  AutoLabel <- MCAutoLabel
  SafetyLabel <- MCSafetyLabel
  MaxWindow = 1
  WindowInputs = {0}
  UserJobs = {}
  CronJobs = {j1, j2}
  MaxTime = 3
  MaxCrashes = 1
  SameSecond = FALSE
  WritesFail = TRUE
  MaxMissed = 2
INVARIANTS
  TypeOK
  WindowBoundsDisk
PROPERTIES
  SchedulesSurvive
