\* trigger.c:66 against the paths that are read before the call.
SPECIFICATION Spec
CONSTANTS
  MaxFiles = 2
  Modes = {"CRASH", "CRASH_NOSD", "APLOGS"}
  Packets = 2
  NoFolder = NoFolder
  MaxEvents = 3
  MaxFaults = 1
INVARIANT FilesInCreatedFolder
