\* Somebody else answers the handshake of a client that pins the server's key.
CONSTANTS
  BitmapBits = 2
  MaxSeq = 3
  MaxNonce = 3
  ClientArgs <- OneshotClient
  ServerArgs <- PlainServer
  AtCapacity = {FALSE}
  MessageSizes = {5}
  Faults = {"answer"}
  MaxFaults = 1
SPECIFICATION Spec
INVARIANTS OnlyServerCompletes
CHECK_DEADLOCK FALSE
