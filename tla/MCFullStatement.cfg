SPECIFICATION ChainSpec
CONSTANTS
    Registers = 1
    Programs = {p1, p2}
    CyclesPerChunk = 1
    AccessesPerCycle = 1
    MAX_CIRCUITS = 2
    NumDelegationTypes = 1
    RequestsPerCircuit = 1
    CHARACTERISTICS = 3
    DelegationAccesses = 1
    MaxDelegationCircuits = 1
    BLOCK = 2
    DIGEST = 1
    CapEntries = 2
    ExitPc = 12
    MaxMainCircuits = 6
    MaxBlakeCircuits = 3
    MaxLevels = 4
    RegisterTimestamps <- MCRegisterTimestamps
    MainProofs <- MCMainProofs
    DelegationProofs <- MCDelegationProofs
INVARIANTS  MemoryConsistent DelegationsAnswered EndParamsOfAll LevelsAccepted ConstantsIdentifyProgram HashedWhole
CHECK_DEADLOCK FALSE
SYMMETRY Symmetry
