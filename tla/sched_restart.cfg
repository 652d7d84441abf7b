\* One monitor that is edited, redirected and deleted, a subscriber, two restarts.
SPECIFICATION FairSpec
CONSTANTS
  agent = agent
  admin = admin
  site = site
  u1 = u1
  u2 = u2
  s1 = s1
  s2 = s2
  NoRow = NoRow
  MonitorIds = {agent}
  DefaultIds = {agent}
  Urls = {u1, u2}
  SeedUrl <- MCSeedUrl
  Slots = {s1}
  IntervalInputs = {0}
  AddDefault = 1
  UpdateDefault = 1
  MaxInterval = 1
  MaxRestarts = 2
  MaxOpen = 4
  Editable = {agent}
  StoreMayFail = FALSE
  MaxRaces = 0
  Chats = {admin}
  Admin = admin
INVARIANTS
  TypeOK
  OneLeftoverPerProcess
  PageAgreesWithLog
  LedgerBalanced
  BroadcastsAlternate
PROPERTIES
  ImplementsLifecycle
  OutageReported
  RecoveryReported
