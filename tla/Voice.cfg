SPECIFICATION FairSpec
CONSTANTS
    MaxReq = 3
    MaxGen = 1
    Providers = {"local", "cloud"}
    Activities = TRUE
INVARIANTS
    TypeOK
    SpeaksInOrder
    SingleFlight
    EveryWaitHasAnEnd

    
CHECK_DEADLOCK FALSE
