SPECIFICATION Spec
CONSTANTS
    Batches <- MCOne
    Program <- MCCachedProgram
    Api <- MCCachedApi
    CyclesWorkers = 2
    DelegationTypes = {"blake"}
    DelegationCapacity = 2
    Threads = 2
    max_concurrent_batches = 1
    device_count = 1
INVARIANTS TypeOK BuffersConserved SendersOutlastChunks AllChunksAnswered CacheFilled
PROPERTIES GpuProtocol SetupsFit
CHECK_DEADLOCK FALSE
