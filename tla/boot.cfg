\* Two boots and two stops with one trace; undisturbed starts with up to four.
SPECIFICATION MCSpec
CONSTANTS
  Traces <- MCAllTraces
  Starts <- MCStarts
  Modes = {"main", "locked", "minimal", "ramconsole"}
  CheckHwwdt = TRUE
  CheckRamPanic = TRUE
  MaxTraces = 4
  MaxLater = 0
  MaxBoots = 2
  MaxStops = 2
  MaxFaults = 1
INVARIANTS TypeOK TokenAfterReboot RaisedOnce DeathReported WatchdogExplained
PROPERTIES TracesReported RebootRecorded
CHECK_DEADLOCK FALSE
