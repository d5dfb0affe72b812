----------------------------- MODULE MCLogDirs -----------------------------
(***************************************************************************)
(* Small instances of LogDirs.                                             *)
(***************************************************************************)
EXTENDS LogDirs
=============================================================================
