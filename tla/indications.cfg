SPECIFICATION FairSpec
CONSTANTS
    Pons = {p1}
    Senders = {reader, reconciler}
    BufferSize = 1
    MaxInds = 4
    MaxRemovals = 2
INVARIANTS
    ChannelServed
PROPERTIES
    IndicationsTaken
    SendersReturn
    RemovedRoutinesEnd
CHECK_DEADLOCK FALSE
