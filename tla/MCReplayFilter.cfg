\* A bitmap of 3 bits against 7 sequence numbers: the window slides past the
\* whole bitmap, and sizes below, at and above the clamp are requested.
CONSTANTS
  BitmapBits = 3
  MaxSeq = 6
  RequestedSizes = {0, 1, 2, 3, 5}
  MaxCalls = 6
SPECIFICATION Spec
INVARIANTS TypeOK AcceptedOnce HasSeenExact IInv
PROPERTIES ImplementsGuard
