\* Two accept loops on one counter, three connections against no limit and limits of
\* none, one and two sessions; one reset.  The system stops once every connection is
\* dealt with.
CONSTANTS
  Loops = {l1, l2}
  Connections = {c1, c2, c3}
  Limits <- MCLimits
  UsizeMax = 7
  MaxResets = 1
SPECIFICATION FairSpec
INVARIANTS CounterExact ExcessBounded
PROPERTIES EveryClientAnswered
CHECK_DEADLOCK FALSE
