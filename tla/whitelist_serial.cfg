\* One handler at a time on an intact disk; sign-ins and calls queue up in any order.
SPECIFICATION Spec
CONSTANTS
  ann = ann
  bob = bob
  cid = cid
  tab1 = tab1
  tab2 = tab2
  Nobody = Nobody
  Names = {ann, bob}
  Callers = {tab1}
  EnvPrimary = Nobody
  EnvAdmins = {}
  WebAllowed = {}
  MaxInFlight = 1
  DiskFails = FALSE
INVARIANTS
  TypeOK
  ClaimedOnce
  AddsLast
PROPERTIES
  ServesAtOnce
