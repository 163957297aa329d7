\* Frames overtaking each other inside the window.
CONSTANTS
  BitmapBits = 3
  MaxSeq = 8
  MaxNonce = 8
SPECIFICATION Spec
PROPERTIES OutOfOrderTolerated
CHECK_DEADLOCK FALSE
