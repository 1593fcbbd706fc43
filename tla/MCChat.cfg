\* One page that redials, so two connections; three prompts and a button; and deltas
\* are put behind a frame the page has not read.
CONSTANTS
  Conns = {c1, c2}
  Pages = {p1}
  NumSeats = 0
  NoConn = NoConn
  Context = 4
  ContextSizes = {3}
  MaxSends = 3
  MaxPresses = 1
  MaxWire = 2
  MaxAdmin = 1
SPECIFICATION ChatSpec
CHECK_DEADLOCK FALSE
INVARIANT RequestsMatch
INVARIANT OwnTokensOnly
INVARIANT RepliesInOrder
PROPERTY DepartureForgets
PROPERTY PromptFits
PROPERTY PageReleased
