SPECIFICATION WebSpec
CHECK_DEADLOCK FALSE
CONSTANTS
  id = id
  code = code
  a = a
  b = b
  v = v
  w = w
  prod = prod
  test = test
  None = None
  Tables <- MCTables
  Keys <- MCTables
  Columns <- MCColumns
  ColumnsOf <- MCColumnsOf
  PkOf <- MCPkOf
  DefaultPk = id
  Kept <- MCKept
  Value <- MCValue
  PageSizes <- MCSizes
  DefaultSize = 1
  AgentLimit = 2
  AgentDefault = 1
  Undaunted = FALSE
  StartRows <- MCRows
  Ids <- MCIds
  Settings <- MCSettings
  StartMonitors <- MCMonitors
  Simulation <- MCSimulation
  StatusMoves = 2
  Files <- MCFiles
  InventedFiles <- MCInvented
  Windows <- MCWindows
  DefaultSchedule <- MCDefault
  StartSchedule <- MCSchedule
  Crons <- MCCrons
  Expressions <- MCExpressions
  Zones <- MCZones
  Dbs <- MCDbs
  Roles <- MCRoles
  RoleOf <- MCRoleOf
  CloneOf <- MCCloneOf
  FirstDbs <- MCFirst
  Invented <- MCMocks
  MaxMoves = 3
  MaxOpen = 1
  MaxFaults = 1
INVARIANTS
  EditsReachTheAgent
