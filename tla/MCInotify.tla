----------------------------- MODULE MCInotify -----------------------------
(***************************************************************************)
(* A small instance of Inotify: the dropbox with two rows, the folder of   *)
(* the modem, with a configuration of its own.                             *)
(***************************************************************************)
EXTENDS Inotify

MCPaths == {"dropbox", "modemcrash"}

MCTags == {"anr", "anr.lost", "mpanic", "coredump"}

\* A file "anr" in the folder of the modem is one that no row of it names.
MCNames ==
  [p \in MCPaths |-> IF p = "dropbox" THEN {"anr", "anr.lost"} ELSE {"anr", "mpanic"}]

MCPatterns ==
  [t \in MCTags |-> IF t = "anr.lost" THEN {"anr", ".lost"} ELSE {t}]

MCTable == <<[path |-> "dropbox",    pattern |-> ".lost",  kind |-> "lost"],
             [path |-> "dropbox",    pattern |-> "anr",    kind |-> "dropbox"],
             [path |-> "modemcrash", pattern |-> "mpanic", kind |-> "modem"]>>

MCConfigs == <<[path |-> "modemcrash", pattern |-> "coredump"]>>
=============================================================================
