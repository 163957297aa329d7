\* Bytes of six values, a prefix of one byte, a nonce of two, frames of 3 or 4
\* bytes.  Two frames are sent and one byte altered, to an illegal length and
\* unknown type or to a legal one.  Nobody has to send more or to close.
CONSTANTS
  Base = 6
  PrefixLen = 1
  NonceLen = 2
  MAX_FRAME_SIZE = 4
  Outgoing <- MCOutgoing
  MaxFrames = 2
  AlteredTo = {0, 3, 4}
  MaxAltered = 1
SPECIFICATION FairSpec
INVARIANTS TypeOK
PROPERTIES ImplementsChannel ParsersAgree SentArrives ReaderReleased
CHECK_DEADLOCK FALSE
