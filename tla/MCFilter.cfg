\* Two pages and two sockets: one each, or one page that redials.
CONSTANTS
  p1 = p1
  p2 = p2
  Pages = {p1, p2}
  Conns = {c1, c2}
  NoConn = NoConn
  gradient = gradient
  openDisk = openDisk
  Pipelines = {gradient, openDisk}
  Default = gradient
  Qualities = {70}
  Quality = 70
  MaxSeq <- Frames
  MaxChanges = 1
SPECIFICATION Spec
CHECK_DEADLOCK FALSE
INVARIANT RepliesPrivate
INVARIANT FramesAccounted
INVARIANT ConfigCurrent
PROPERTY PaintsForward
PROPERTY NewestPainted
