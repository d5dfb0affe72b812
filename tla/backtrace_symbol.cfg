\* An address without symbols is printed with the symbol of the address before it.
SPECIFICATION StackSpec
CONSTANTS
  Object <- MCObject
  Wide = FALSE
  Pids <- MCPids
  Nines <- MCNines
  Threads <- MCThreads
  MapsOf <- MCMapsOf
  StacksOf <- MCStacksOf
  TaskNum = 3
  MaxStack = 3
  StackDepth = 5
  MaxExits = 2
INVARIANTS FrameInSymbol
CHECK_DEADLOCK FALSE
