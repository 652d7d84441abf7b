\* Handlers interleave, writes fail or are cut short, the environment seeds the admin.
SPECIFICATION Spec
CONSTANTS
  ann = ann
  bob = bob
  cid = cid
  tab1 = tab1
  tab2 = tab2
  Nobody = Nobody
  Names = {ann, bob, cid}
  Callers = {tab1}
  EnvPrimary = ann
  EnvAdmins = {ann}
  WebAllowed = {ann, cid}
  MaxInFlight = 2
  DiskFails = TRUE
INVARIANTS
  PrimaryIsAdmin
  EnvironmentDecides
