SPECIFICATION FairSpec
CONSTANTS
    Kinds = {"flow", "mcast"}
    Callers = {c1, c2}
    Idx = {1}
    ChanSize = 1
    Events = {"reboot", "reconnect", "delete"}
    MaxEvents = 2
    MaxReqs = 2

    
PROPERTIES
    
    RequestsReturn
    
CHECK_DEADLOCK FALSE
