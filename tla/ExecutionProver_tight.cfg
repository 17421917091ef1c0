SPECIFICATION FairSpec
CONSTANTS
    Batches <- MCOne
    Program <- MCFourSetups
    Api <- MCProveApi
    CyclesWorkers = 1
    DelegationTypes = {"blake"}
    DelegationCapacity = 2
    Threads = 2
    max_concurrent_batches = 1
    device_count = 1
INVARIANT AllChunksAnswered
PROPERTY CallsReturn
CHECK_DEADLOCK FALSE
