CONSTANTS
  Packet = {p1, p2, p3, p4}
  NoPacket = NoPacket
  RxCount = 2
  TxCount = 1
  QueueMax = 2
  MaxRetries = 1
  MaxHeld = 1
  MaxBacklog = 2
  MayFail = FALSE
  MayClose = TRUE
SPECIFICATION Spec
SYMMETRY Symmetry
INVARIANT GivesBackDescriptors
