\* reset_connections while sessions run.
CONSTANTS
  Loops = {l1}
  Connections = {c1, c2, c3}
  Limits <- MCLimits
  UsizeMax = 7
  MaxResets = 1
SPECIFICATION Spec
INVARIANTS FullMeansServing
CHECK_DEADLOCK FALSE
