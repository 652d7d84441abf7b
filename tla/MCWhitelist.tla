----------------------------- MODULE MCWhitelist -----------------------------
(***************************************************************************)
(* Small instances of Whitelist for TLC.                                   *)
(***************************************************************************)
EXTENDS Whitelist

CONSTANTS ann, bob, cid, tab1, tab2
=============================================================================
