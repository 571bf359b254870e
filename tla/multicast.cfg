SPECIFICATION Spec
CONSTANTS
  Pons = {p1, p2}
  First = p1
  Groups = {g1}
  None = None
  Scenarios <- MCScenarios
INVARIANTS TypeOK QueuesStored MembersFollowGroup
PROPERTY MembersNotInterrupted
