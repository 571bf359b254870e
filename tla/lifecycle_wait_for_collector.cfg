SPECIFICATION FairSpec
CONSTANTS
  Starts <- RpcFailsOnce
  MaxReaders = 1
  MaxCollectors = 2
PROPERTIES
  HandleReturns
CHECK_DEADLOCK FALSE
