CONSTANTS
  NoThread = NoThread
  MaxFaults = 1
  Fitted <- Chip
  Boot <- OffBoot
  Por <- MCPor
  Menu <- SmallMenu
  Prio <- MCPrio
SPECIFICATION Spec
INVARIANTS ChargeDefaultOff
