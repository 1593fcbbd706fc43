\* A peer that talks and one that listens: four frames and sends in all, so that a
\* message in three fragments may follow a request; a kernel of one frame.
CONSTANTS
  c1 = c1
  c2 = c2
  Conns = {c1, c2}
  NoConn = NoConn
  MaxFrames <- Frames
  MaxTalk = 4
  MaxSends = 2
  MaxBreaks = 1
  Window = 1
SPECIFICATION Spec
CHECK_DEADLOCK FALSE
INVARIANT PoliteHeard
PROPERTY ImplementsTransport
PROPERTY DeadNoticed
PROPERTY ByeDrained
