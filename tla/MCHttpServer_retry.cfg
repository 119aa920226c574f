CONSTANTS
  Conn = {c1, c2}
  NoConn = NoConn
  Header = 1
  Size = 2
  Room = 2
  MaxWaits = 2
  ReplyLen = 2
  OutMax = 2
  ListenMax = 1
  MaxLost = 2
SPECIFICATION Spec
SYMMETRY Symmetry
INVARIANT TriedAgain
