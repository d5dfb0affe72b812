\* Five crashes: enough to fill the ring of two, to overwrite it and to go round it.
SPECIFICATION Spec
CONSTANTS
  None = None
  MaxCrashes = 5
  MaxQueue = 4
  MaxFaults = 2
INVARIANTS TypeOK SentOnce
PROPERTIES KeyMatchesFolder Answered
CHECK_DEADLOCK FALSE
