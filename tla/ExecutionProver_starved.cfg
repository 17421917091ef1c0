SPECIFICATION FairSpec
CONSTANTS
    Batches <- MCOne
    Program <- MCFiveSetups
    Api <- MCProveApi
    CyclesWorkers = 1
    DelegationTypes = {}
    DelegationCapacity = 2
    Threads = 3
    max_concurrent_batches = 1
    device_count = 1
PROPERTY CallsReturn
CHECK_DEADLOCK FALSE
