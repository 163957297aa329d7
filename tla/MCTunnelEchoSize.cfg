\* A healthy link and a message that fits a frame while its echo does not; the
\* connection ends.
CONSTANTS
  BitmapBits = 2
  MaxSeq = 3
  MaxNonce = 3
  ClientArgs <- OneshotClient
  ServerArgs <- PlainServer
  AtCapacity = {FALSE}
  MessageSizes = {5, 65496, 65511}
  Faults = {}
  MaxFaults = 0
SPECIFICATION Spec
INVARIANTS HandledIsAnswered
CHECK_DEADLOCK FALSE
