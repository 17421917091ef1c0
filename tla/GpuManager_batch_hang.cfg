SPECIFICATION FairSpec
CONSTANTS
    Devices = 1
    Batches = {1, 2}
    MaxRequests = 2
    MaxOpened = 2
    NumSetups = 1
    None = None
PROPERTIES
    BatchesComplete
CHECK_DEADLOCK FALSE
