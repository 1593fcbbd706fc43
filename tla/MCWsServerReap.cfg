\* A peer of three frames, and a kernel of two.
CONSTANTS
  c1 = c1
  c2 = c2
  Conns = {c1}
  NoConn = NoConn
  MaxFrames <- Alone
  MaxTalk = 4
  MaxSends = 1
  MaxBreaks = 0
  Window = 2
SPECIFICATION Spec
CHECK_DEADLOCK FALSE
PROPERTY ByeEnds
