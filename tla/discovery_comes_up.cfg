SPECIFICATION FairSpec
CONSTANTS
  s1 = s1
  s2 = s2
  p1 = p1
  p2 = p2
  Sns = {s1, s2}
  Pons = {p1}
  OnuIds = {1, 2, 3, 4}
  Scenarios <- ComingUp
  MaxQueue = 1
  None = None
PROPERTIES
  ComesUp
CHECK_DEADLOCK FALSE
