\* Responses of up to two events, of one or two lines, in chunks of 1 to 5 bytes.
CONSTANTS
  Texts = {1, 2}
  MaxEvents = 2
  MaxLines = 2
  MaxChunk = 5
  Reads = {1, 2, 3, 5, 8}
SPECIFICATION SseSpec
CHECK_DEADLOCK FALSE
INVARIANT Faithful
INVARIANT NothingInvented
