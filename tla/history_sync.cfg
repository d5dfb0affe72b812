\* history.c:23 against deletions and software updates.
SPECIFICATION SpecMaintained
CONSTANTS
  MaxRecords = 2
  MaxClean = 1
  Dirs = {d1, d2}
  NoDir = NoDir
  Null = Null
  MaxEvents = 5
INVARIANT Synchronized
