\* Three sockets between two players: one player drops and redials, with the
\* other at the table; two positions after the first: moves, new games and
\* restarts of the engine among them.
CONSTANTS
  Conns = {c1, c2, c3}
  Players = {alice, bob}
  NumSeats = 2
  NoConn = NoConn
  MaxVersion = 2
SPECIFICATION SessionSpec
SYMMETRY Symmetry
CHECK_DEADLOCK FALSE
INVARIANT NoPlayerStranded
