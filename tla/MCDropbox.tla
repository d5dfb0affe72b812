----------------------------- MODULE MCDropbox -----------------------------
(***************************************************************************)
(* Small instances of Dropbox.                                             *)
(***************************************************************************)
EXTENDS Dropbox
=============================================================================
