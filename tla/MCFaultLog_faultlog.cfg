CONSTANTS
  Fault <- MCFault
  ReadClear <- MCReadClear
  LogMax = 4
  MaxErrors = 2
SPECIFICATION FairSpec
INVARIANTS LogSound NothingLost
PROPERTY LastingFaultLatched
