\* Three plies from five endings, two from the initial position.
CONSTANTS
  Starts <- Games
  MaxPlies = 3
SPECIFICATION Spec
CHECK_DEADLOCK FALSE
INVARIANT KingsSafe
INVARIANT StateMeansBoard
INVARIANT PageSeesBoard
PROPERTY DeadIsFinal
