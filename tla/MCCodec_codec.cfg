SPECIFICATION Spec
CONSTANTS
  BqInSense = 5
  BqBatSense = 7
  ShpInSense = 2
  ShpBatSense = 5
  PowerOn <- MCPowerOn
  Codes <- MCCodes
  Named <- MCNamed
  Numbers <- MCNumbers
  MaxCommands = 2
INVARIANTS Settled Nearest
PROPERTY UnnamedKept
CHECK_DEADLOCK FALSE
