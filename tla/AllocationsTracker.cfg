SPECIFICATION Spec
CONSTANTS
    AddressSpace = 20
    Backends <- MCBackends
    ChunkSize = 2
    Sizes <- MCSizes
INVARIANTS
    IndicesAgree
    NoOverlap
    FreeAccepted
    FailsOnlyWhenFull
    UsedMemExact
