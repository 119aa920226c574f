CONSTANTS
  NoThread = NoThread
  MaxFaults = 1
  Fitted <- Chip
  Boot <- MCBoot
  Por <- MCPor
  Menu <- CommandMenu
  Prio <- MCPrio
SPECIFICATION Spec
INVARIANTS Inv DeviceExclusive RmwFresh PublishedOff AckedHolds
INVARIANTS SnapshotFresh ReplyConsistent FailedNoEffect FootprintOnly
PROPERTIES OnlyCommandsWrite
