\* Two requests at a time, statements that fail, names that clash.
SPECIFICATION Spec
CONSTANTS
  h1 = h1
  h2 = h2
  Handlers = {h1, h2}
  Part <- MCPart
  Projects <- MCProjects
  Envs <- MCEnvs
  Targets <- MCTargets
  Suffix <- MCSuffix
  MaxLen = 4
  Protected <- MCProtected
  FirstOwner <- MCFirstOwner
  MaxRequests = 3
  MayFail = TRUE
INVARIANTS
  TypeOK
  AnswerWorks
PROPERTIES
  SourceSpared
  Answered
\* The bound on requests ends the behaviour.
CHECK_DEADLOCK FALSE
