\* Four processes and two threads, of which two may end; addresses in every kind of mapping.
SPECIFICATION StackSpec
CONSTANTS
  Object <- MCObject
  Wide = FALSE
  Pids <- MCPids
  Nines <- MCNines
  Threads <- MCThreads
  MapsOf <- MCMapsOf
  StacksOf <- MCStacksOf
  TaskNum = 3
  MaxStack = 3
  StackDepth = 5
  MaxExits = 2
INVARIANTS OwnMaps NameContains AllReported
PROPERTIES Ends
CHECK_DEADLOCK FALSE
