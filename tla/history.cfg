\* Everything that can fail, stop or be edited behind the daemon's back.
SPECIFICATION Spec
CONSTANTS
  MaxRecords = 2
  MaxClean = 1
  Dirs = {d1, d2}
  NoDir = NoDir
  Null = Null
  MaxEvents = 5
SYMMETRY Symmetry
INVARIANTS TypeOK RewriteSafe Chronological
PROPERTIES CleanKeepsListed ImplementsLog
