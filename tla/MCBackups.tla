------------------------------ MODULE MCBackups ------------------------------
(***************************************************************************)
(* Small instances of Backups for TLC.                                     *)
(***************************************************************************)
EXTENDS Backups

CONSTANTS j1, j2, j3

MCShop == {<<"shop">>}
MCPlainLabel == {<<"release">>}
MCAutoLabel == <<"auto-backup">>
MCSafetyLabel == <<"safety-pre-restore">>
=============================================================================
