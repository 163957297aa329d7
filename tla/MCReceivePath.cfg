\* Eight frames against a window of three; the session may end for good.
CONSTANTS
  BitmapBits = 3
  MaxSeq = 8
  MaxNonce = 8
SPECIFICATION Spec
INVARIANTS DeliveredInOrder NextFrameAdmitted
CHECK_DEADLOCK FALSE
