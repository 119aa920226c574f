CONSTANTS
  Packet = {p1, p2, p3}
  NoPacket = NoPacket
  RxCount = 1
  TxCount = 1
  QueueMax = 1
  MaxRetries = 1
  MaxHeld = 1
  MaxBacklog = 1
  MayFail = FALSE
  MayClose = FALSE
SPECIFICATION FairSpec
PROPERTIES SenderGoesOn RingsDrain
