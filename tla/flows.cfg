SPECIFICATION Spec
CONSTANTS
    Unis = {1, 2}
    TpIDs = {64}
    NumGems = 2
    PbitMap <- MCPbitMap
    AllocIds = {1, 2}
    GemIds = {1, 2, 3, 4, 5, 6, 7, 8}
    Scenarios <- AllScenarios
INVARIANTS
    TypeOK
    CleanWhenEmpty
    RefCntCountsFlows
    HeldFlowsOnDevice
    
    HeldFlowsServed
    UsedIdsNotFree
    
