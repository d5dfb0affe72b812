\* Two folders of each kind: they are recycled after two reports.
SPECIFICATION Spec
CONSTANTS
  MaxFiles = 2
  Modes = {"CRASH", "CRASH_NOSD", "STATS", "APLOGS"}
  Packets = 2
  NoFolder = NoFolder
  MaxEvents = 3
  MaxFaults = 1
INVARIANTS TypeOK KeepsRecent OwnFilesOnly
