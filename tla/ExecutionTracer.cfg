SPECIFICATION StatementSpec
CONSTANTS
    Programs <- MCPrograms
    CyclesPerChunk = 3
    CyclesWorkers = 2
    Registers = 3
    Words = 4
    RomWords = 2
    RequestsPerCircuit = 2
    MAX_CIRCUITS = 3
    CHARACTERISTICS = 11
INVARIANTS AccessesIncrease Balanced SameTranscript
PROPERTY TracedAccepted
CHECK_DEADLOCK FALSE
