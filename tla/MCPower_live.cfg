CONSTANTS
  NoThread = NoThread
  MaxFaults = 2
  Fitted <- Chip
  Boot <- OneBoot
  Por <- MCPor
  Menu <- ServiceMenu
  Prio <- MCPrio
SPECIFICATION FairSpec
PROPERTIES Implements SearchEnds RequestAnswered SamplingRecurs
