----------------------------- MODULE MCCoreDump -----------------------------
(***************************************************************************)
(* Small instances of CoreDump.                                            *)
(***************************************************************************)
EXTENDS CoreDump
=============================================================================
