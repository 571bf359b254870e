SPECIFICATION Spec
CONSTANTS
  Pons = {p1, p2, p3}
  First = p1
  Groups = {}
  None = None
  Scenarios <- MCLateQueues
INVARIANT QueuesInStore
CHECK_DEADLOCK FALSE
