--------------------------- MODULE MCProvisioning ---------------------------
(***************************************************************************)
(* Small instances of Provisioning for TLC.                                *)
(***************************************************************************)
EXTENDS Provisioning, TLC

CONSTANTS h1, h2

MCPart == {"db", "usr", "clone", "postgres", "shop", "crm", "test", "1", "2"}

\* The project crm_test and the test environment of crm share a prefix.
MCProjects == {<<"crm">>, <<"crm", "test">>}
MCEnvs == {<<"test">>}
MCTargets == {NoName, <<"db", "crm">>}
MCSuffix == <<"1", "2">>
MCProtected == <<"usr", "crm", "test">>
MCFirstOwner ==
  <<"db", "crm", "1">> :> <<"usr", "crm">>
=============================================================================
