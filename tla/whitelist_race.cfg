\* Two dashboard sessions edit the list at the same time.
SPECIFICATION Spec
CONSTANTS
  ann = ann
  bob = bob
  cid = cid
  tab1 = tab1
  tab2 = tab2
  Nobody = Nobody
  Names = {ann, bob}
  Callers = {tab1, tab2}
  EnvPrimary = Nobody
  EnvAdmins = {}
  WebAllowed = {}
  MaxInFlight = 2
  DiskFails = FALSE
INVARIANTS
  AddsLast
