\* Three dumps and three stops: a dump can be missed, superseded, aborted and reported.
SPECIFICATION Spec
CONSTANTS
  None = None
  MaxDumps = 3
  MaxPipe = 3
  MaxStops = 3
INVARIANTS TypeOK ReportedOnce LastNotForgotten
PROPERTIES CoreKept Answered
CHECK_DEADLOCK FALSE
