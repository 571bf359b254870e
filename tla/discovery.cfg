SPECIFICATION Spec
CONSTANTS
  s1 = s1
  s2 = s2
  p1 = p1
  p2 = p2
  Sns = {s1, s2}
  Pons = {p1, p2}
  OnuIds = {1, 2}
  Scenarios <- AllScenarios
  MaxQueue = 1
  None = None
INVARIANTS
  TypeOK
  
  GemInfoMatches
  
  OneAtATime

  
  
CHECK_DEADLOCK FALSE
