----------------------------- MODULE MCHistory -----------------------------
(***************************************************************************)
(* Small instances of History: two or three records, folders that repeat.  *)
(***************************************************************************)
EXTENDS History, TLC

Symmetry == Permutations(Dirs)
=============================================================================
