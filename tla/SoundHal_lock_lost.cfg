CONSTANTS
  c1 = c1
  c2 = c2
  c3 = c3
  Callers <- OneCaller
  Ways <- AppWays
  OpenMayFail = TRUE
SPECIFICATION FairSpec
CHECK_DEADLOCK FALSE
PROPERTY CallsAnswered
