SPECIFICATION FairSpec
CONSTANTS
  Starts <- RecoveryStart
  MaxReaders = 1
  MaxCollectors = 2
INVARIANTS
  RebootCleanupGuarded
  SendersNeverWait
  
PROPERTIES
  
  Recovery
  RebootNoticed
CHECK_DEADLOCK FALSE
