CONSTANTS
  Packet = {p1, p2, p3}
  NoPacket = NoPacket
  RxCount = 2
  TxCount = 1
  QueueMax = 2
  MaxRetries = 1
  MaxHeld = 0
  MaxBacklog = 1
  MayFail = TRUE
  MayClose = TRUE
SPECIFICATION Spec
SYMMETRY Symmetry
INVARIANTS Inv NoLostEvent MarksTrue
PROPERTY Implements
