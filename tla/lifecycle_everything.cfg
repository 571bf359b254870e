SPECIFICATION Spec
CONSTANTS
  Starts <- AnyStart
  MaxReaders = 1
  MaxCollectors = 1
INVARIANTS
  TypeOK
  CollectorAccounting
  ActiveHasRoutine
  RoutinesAfterInit
  SenderHasReceiver
  RebootHandledOnce
CHECK_DEADLOCK FALSE
