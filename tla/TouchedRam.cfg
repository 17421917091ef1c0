SPECIFICATION SplitSpec
CONSTANTS
    Words = 8
    PAGE_WORDS_SIZE = 4
    cycles_per_chunk = 3
    num_main_chunks_upper_bound = 3
    TouchesPerChunk = 3
    BITS = 2
    MaxCores = 4
INVARIANTS SplitTypeOK AssertsHold EveryChunkSent SameAsUnskippedButFull SameAsGpu SplitNeverPanics
CHECK_DEADLOCK FALSE
