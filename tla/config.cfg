\* Files of three sections, with repeated names, repeated keys and incomplete sections.
SPECIFICATION Spec
CONSTANTS
  Texts <- MCTexts
  Paths <- MCPaths
  Inside <- MCInside
  Patterns <- MCPatterns
  ModemDir = "logs"
  Number <- MCNumber
  Swaps <- MCSwaps
  Default <- MCDefault
  MaxEvents = 1
  MaxBlocks = 3
INVARIANTS SettingsAsWritten ConfigsAsWritten EventOfOwn
CHECK_DEADLOCK FALSE
