SPECIFICATION Spec
CONSTANTS
    Words = 6
    PAGE_WORDS_SIZE = 3
    cycles_per_chunk = 2
    num_main_chunks_upper_bound = 4
    TouchesPerChunk = 2
INVARIANT SameAsUnskipped
CHECK_DEADLOCK FALSE
