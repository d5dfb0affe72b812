\* Two directories, files renamed, directories removed and moved, one fault.
SPECIFICATION Spec
CONSTANTS
  Paths <- MCPaths
  Tags <- MCTags
  Names <- MCNames
  Patterns <- MCPatterns
  Table <- MCTable
  Configs <- MCConfigs
  SelfFlags = {TRUE, FALSE}
  MaxQueue = 4
  MaxFiles = 2
  MaxRenames = 1
  MaxMoves = 2
  MaxSteps = 4
  MaxFaults = 1
INVARIANTS TypeOK ReportedOnce DirsFollowed
PROPERTIES Answered
CHECK_DEADLOCK FALSE
