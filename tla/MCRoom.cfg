\* Two seats and four connections: both seats taken, a reconnect into a held
\* seat by a fresh connection, and a spectator beside them; the engine stops and
\* starts at any time.
CONSTANTS
  Conns = {c1, c2, c3, c4}
  NumSeats = 2
  NoConn = NoConn
SPECIFICATION HostSpec
SYMMETRY ConnSymmetry
CHECK_DEADLOCK FALSE
INVARIANT SeatedOnce
INVARIANT SeatsLive
INVARIANT EngineAgrees
INVARIANT LeavesMatch
INVARIANT ClientAgrees
PROPERTY ImplementsTable
