\* Two monitors that share the map: one write to it is lost, calls of the store fail.
SPECIFICATION FairSpec
CONSTANTS
  agent = agent
  admin = admin
  site = site
  u1 = u1
  u2 = u2
  s1 = s1
  s2 = s2
  NoRow = NoRow
  MonitorIds = {agent, site}
  DefaultIds = {agent}
  Urls = {u1}
  SeedUrl <- MCSeedUrl
  Slots = {s1}
  IntervalInputs = {0}
  AddDefault = 1
  UpdateDefault = 1
  MaxInterval = 1
  MaxRestarts = 0
  MaxOpen = 1
  Editable = {}
  StoreMayFail = TRUE
  MaxRaces = 1
  Chats = {}
  Admin = admin
PROPERTIES
  OutageNoticed
