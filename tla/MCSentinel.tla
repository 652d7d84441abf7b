----------------------------- MODULE MCSentinel -----------------------------
(***************************************************************************)
(* Small instances of SentinelScheduler for TLC.                           *)
(***************************************************************************)
EXTENDS SentinelScheduler, TLC

CONSTANTS agent, site, admin, u1, u2, s1, s2

MCSeedUrl == [m \in DefaultIds |-> u1]
=============================================================================
