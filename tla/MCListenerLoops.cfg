\* The documented maximum on a server whose run is called twice.
CONSTANTS
  Loops = {l1, l2}
  Connections = {c1, c2}
  Limits <- MCLimits
  UsizeMax = 7
  MaxResets = 0
SPECIFICATION Spec
INVARIANTS LimitRespected
CHECK_DEADLOCK FALSE
