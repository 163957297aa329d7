\* Frames are altered, duplicated and reordered, and the handshake is answered by
\* somebody else, up to three times per connection; a damaged session may leave an
\* end waiting.
CONSTANTS
  BitmapBits = 2
  MaxSeq = 3
  MaxNonce = 3
  ClientArgs <- MixedClient
  ServerArgs <- PlainServer
  AtCapacity = {FALSE}
  MessageSizes = {5}
  Faults = {"damage", "duplicate", "reorder", "answer"}
  MaxFaults = 3
SPECIFICATION Spec
INVARIANTS HandshakeAgreement MismatchNeverEstablishes NoncePairsUnique FilterMatchesCipher DeliveredInOrder
CHECK_DEADLOCK FALSE
