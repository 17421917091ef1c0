----------------------------- MODULE TouchedRam -----------------------------
(***************************************************************************)
(* How the worker that traces RAM finds the words a program touched and    *)
(* distributes them over setup and teardown chunks (RamTracingData and     *)
(* SetupAndTeardownChunker of gpu_prover/src/execution/tracer.rs and       *)
(* trace_touched_ram of cpu_worker.rs).  A chunk of cycles gets at most    *)
(* one chunk of setups; the last ones do, the others are sent early        *)
(* without.  Chunks in skip_set are in the prover's cache.                 *)
(***************************************************************************)
EXTENDS Integers, FiniteSets, FiniteSetsExt

CONSTANTS
    Words,                        \* RAM_SIZE / 4
    PAGE_WORDS_SIZE,
    cycles_per_chunk,
    num_main_chunks_upper_bound,
    TouchesPerChunk               \* how many new words the cycles of a chunk may touch

ASSUME SizesAssumption ==
    /\ PAGE_WORDS_SIZE \in Nat \ {0} /\ Words \in Nat /\ Words % PAGE_WORDS_SIZE = 0
    /\ cycles_per_chunk \in Nat \ {0} /\ num_main_chunks_upper_bound \in Nat \ {0}
    /\ TouchesPerChunk \in Nat

VARIABLES
    at,        \* "simulate", "collect", "done", or "panicked"
    touched,   \* the words whose last timestamp is not 0
    pages,     \* num_touched_ram_cells_in_pages
    fresh,     \* how many words the chunk that runs touched first
    traced,    \* chunks_traced_count
    next,      \* next_chunk_index_with_no_setup_and_teardown, then the next index
    first,     \* the value of next at the end of the simulation
    chunker,   \* [touched_ram_cells_count, next_chunk_index, position]
    skip_set,  \* the chunks that are not sent
    sent       \* by index: the contents of the chunks that were sent

vars == <<at, touched, pages, fresh, traced, next, first, chunker, skip_set, sent>>

Pages == 0 .. (Words \div PAGE_WORDS_SIZE) - 1
PageOf(w) == w \div PAGE_WORDS_SIZE
div_ceil(a, b) == (a + b - 1) \div b

TouchedCount == MapThenSumSet(LAMBDA p : pages[p], Pages)

\* An entry of a chunk is a word, or the default value before the first of them.
\* Behind the last word unwrap_unchecked gives anything.
Padding == -1
Undefined == -2

Init ==
    /\ at = "simulate"
    /\ touched = {}
    /\ pages = [p \in Pages |-> 0]
    /\ fresh = 0
    /\ traced = 0
    /\ next = 0
    /\ first = 0
    /\ chunker = [touched_ram_cells_count |-> 0, next_chunk_index |-> 0, position |-> 0]
    /\ skip_set \in SUBSET (0 .. num_main_chunks_upper_bound - 1)
    /\ sent = [i \in {} |-> <<>>]

\* The timestamp that mark_ram_slot_use replaces is 0.
is_new(w) == w \notin touched

mark_ram_slot_use(w) ==
    /\ at = "simulate"
    /\ is_new(w) => fresh < TouchesPerChunk
    /\ touched' = touched \cup {w}
    /\ pages' = [pages EXCEPT ![PageOf(w)] = IF is_new(w) THEN @ + 1 ELSE @]
    /\ fresh' = IF w \in touched THEN fresh ELSE fresh + 1
    /\ UNCHANGED <<at, traced, next, first, chunker, skip_set, sent>>

Send(index, content) ==
    sent' = [i \in DOMAIN sent \cup {index} |-> IF i = index THEN content ELSE sent[i]]

\* One chunk too many is sent without setups.
gives_up_setup_AtMost(needed, diff) == needed <= diff

\* Fewer setup chunks are needed than there are chunks left for them.
gives_up_setup(needed, diff) == needed < diff

\* The cache is not looked at.
sends_no_setup_Always(index) == TRUE

sends_no_setup(index) == index \notin skip_set

\* The end of a chunk of cycles; the program ends within the bound.
ChunkEnd(finished) ==
    LET needed == div_ceil(TouchedCount, cycles_per_chunk)
        no_setup == gives_up_setup(needed, traced + 1 - next)
        next1 == IF no_setup THEN next + 1 ELSE next
        fits == traced + 1 = needed + next1
    IN  /\ at = "simulate"
        /\ traced + 1 = num_main_chunks_upper_bound => finished
        /\ traced' = traced + 1
        /\ next' = next1
        /\ fresh' = 0
        /\ IF no_setup /\ sends_no_setup(next)
           THEN Send(next, <<>>)
           ELSE UNCHANGED sent
        /\ at' = IF ~finished THEN "simulate" ELSE IF fits THEN "collect" ELSE "panicked"
        /\ first' = IF finished THEN next1 ELSE first
        /\ chunker' = [chunker EXCEPT !.touched_ram_cells_count = IF finished THEN TouchedCount ELSE 0]
        /\ UNCHANGED <<touched, pages, skip_set>>

get_chunks_count == div_ceil(chunker.touched_ram_cells_count, cycles_per_chunk)

\* The iterator goes through the words of the pages that have any, in order.
Iterated == {w \in touched : pages[PageOf(w)] # 0}
NthItem(n) ==
    IF n < Cardinality(Iterated)
    THEN CHOOSE w \in Iterated : Cardinality({v \in Iterated : v < w}) = n
    ELSE Undefined

padding_size ==
    IF chunker.next_chunk_index = 0
    THEN get_chunks_count * cycles_per_chunk - chunker.touched_ram_cells_count
    ELSE 0

Advance(count) ==
    chunker' = [chunker EXCEPT !.next_chunk_index = @ + 1, !.position = @ + count]

\* The padding is at the end.
chunk_content_PaddedLast ==
    [i \in 1 .. cycles_per_chunk |->
        IF i <= cycles_per_chunk - padding_size THEN NthItem(chunker.position + i - 1) ELSE Padding]

chunk_content ==
    [i \in 1 .. cycles_per_chunk |->
        IF i <= padding_size THEN Padding ELSE NthItem(chunker.position + i - 1 - padding_size)]

populate_next_chunk ==
    /\ at = "collect"
    /\ next < traced
    /\ next \notin skip_set
    /\ Send(next, chunk_content)
    /\ Advance(cycles_per_chunk - padding_size)
    /\ next' = next + 1
    /\ UNCHANGED <<at, touched, pages, fresh, traced, first, skip_set>>

skip_next_chunk ==
    /\ at = "collect"
    /\ next < traced
    /\ next \in skip_set
    /\ Advance(IF chunker.next_chunk_index = 0
               THEN chunker.touched_ram_cells_count % cycles_per_chunk
               ELSE cycles_per_chunk)
    /\ next' = next + 1
    /\ UNCHANGED <<at, touched, pages, fresh, traced, first, skip_set, sent>>

Finish ==
    /\ at = "collect"
    /\ next = traced
    /\ at' = "done"
    /\ UNCHANGED <<touched, pages, fresh, traced, next, first, chunker, skip_set, sent>>

Next ==
    \/ \E w \in 0 .. Words - 1 : mark_ram_slot_use(w)
    \/ \E finished \in BOOLEAN : ChunkEnd(finished)
    \/ populate_next_chunk
    \/ skip_next_chunk
    \/ Finish

Spec == Init /\ [][Next]_vars

----------------------------------------------------------------------------
(* Properties *)

\* Every variable has its type; no index passes the chunks there are, so the
\* assert! of populate_next_chunk and skip_next_chunk holds.
TypeOK ==
    /\ at \in {"simulate", "collect", "done", "panicked"}
    /\ touched \subseteq 0 .. Words - 1
    /\ pages \in [Pages -> 0 .. PAGE_WORDS_SIZE]
    /\ traced \in 0 .. num_main_chunks_upper_bound
    /\ next \in 0 .. traced
    /\ chunker.next_chunk_index \in 0 .. get_chunks_count
    /\ DOMAIN sent \subseteq 0 .. num_main_chunks_upper_bound - 1

\* The assert_eq! before the collection never fails, if no chunk touches more new
\* words than it has cycles: the chunks that were given up leave exactly as many
\* as the touched words need.
AssertsHold == at # "panicked"

\* When the worker is done every chunk has been sent, except those in the cache.
EveryChunkSent ==
    at = "done" => DOMAIN sent = (0 .. traced - 1) \ skip_set

\* What a chunk holds if none is skipped: the touched words in ascending order,
\* with the padding before the first of them.
UnskippedChunk(index) ==
    LET n == get_chunks_count
        padding == n * cycles_per_chunk - Cardinality(touched)
        Place(i) == (index - first) * cycles_per_chunk + i - padding
    IN  [i \in 1 .. cycles_per_chunk |->
            IF Place(i) < 1 THEN Padding
            ELSE CHOOSE w \in touched : Cardinality({v \in touched : v < w}) = Place(i) - 1]

\* The chunks of the second half of commit_memory_and_prove, which skips what is
\* in the cache, are those of the first half, which skips nothing: "assert_eq!(
\* main_memory_commitments, prove_main_memory_commitments)".
SameAsUnskipped ==
    at \in {"collect", "done"} =>
        \A index \in DOMAIN sent : index >= first => sent[index] = UnskippedChunk(index)

\* The same, when the first chunk of setups is not both full and skipped.
SameAsUnskippedButFull ==
    touched = {} \/ Cardinality(touched) % cycles_per_chunk # 0 \/ first \notin skip_set
        => SameAsUnskipped
=============================================================================
