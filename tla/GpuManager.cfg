SPECIFICATION FairSpec
CONSTANTS
    Devices = 2
    Batches = {1, 2}
    MaxRequests = 2
    MaxOpened = 2
    NumSetups = 3
    None = None
INVARIANTS
    PipelineMirrored
    SenderHeld
    
    CleanExit
PROPERTIES
    ServiceSpec
    SequentialBatchesComplete
    StartsAndStops
CHECK_DEADLOCK FALSE
