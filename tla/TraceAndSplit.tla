--------------------------- MODULE TraceAndSplit ----------------------------
(***************************************************************************)
(* How the CPU prover finds the touched words and distributes them over    *)
(* setup and teardown chunks: the end of run_till_end_for_machine_config   *)
(* (circuit_defs/trace_and_split/src/lib.rs) and                           *)
(* chunk_lazy_init_and_teardown (prover/src/tracers/oracles/mod.rs).  Both *)
(* split their loops over the threads of a pool (WorkerGeometry).  The     *)
(* words are those of an execution the GPU prover's worker (TouchedRam)    *)
(* traced too, so that the results of the two can be compared.             *)
(***************************************************************************)
EXTENDS TouchedRam, WorkerGeometry, SequencesExt

CONSTANTS
    BITS,        \* usize::BITS, the words of an element of access_bitmask
    MaxCores     \* bound: the threads of the pool

ASSUME SplitAssumption ==
    /\ BITS \in Nat \ {0} /\ Words % BITS = 0 /\ MaxCores \in Nat \ {0}
    /\ is_power_of_two(cycles_per_chunk + 1)

VARIABLES
    num_cores,
    phase,       \* "idle", "scan", "cut", "copy", "done", or "panicked"
    todo,        \* the bodies of the parallel loop that have not run
    data,        \* by thread: the touched words it found
    chunk,       \* the chunk that is cut, with the entries still to_fill
    chunks,      \* the chunks that are cut, the last first cut
    results      \* by place: the chunks that are copied

splitVars == <<num_cores, phase, todo, data, chunk, chunks, results>>

Cores == 0 .. num_cores - 1
NoChunk == [starting_idx |-> 0, starting_offset |-> 0, end_idx |-> 0, end_offset |-> 0,
            prepadding |-> 0, to_fill |-> 0]
NoResult == <<>>

SplitInit ==
    /\ Init
    /\ num_cores \in 1 .. MaxCores
    /\ phase = "idle"
    /\ todo = {}
    /\ data = [i \in Cores |-> <<>>]
    /\ chunk = NoChunk
    /\ chunks = <<>>
    /\ results = <<>>

scan_geometry == get_geometry_for_num_cores(num_cores, Words \div BITS)

\* The program has ended.
Scan ==
    /\ phase = "idle"
    /\ at = "done"
    /\ skip_set = {}
    /\ phase' = "scan"
    /\ todo' = 0 .. scan_geometry.num_chunks - 1
    /\ UNCHANGED <<num_cores, data, chunk, chunks, results>>

\* The touched words of the elements of access_bitmask that thread i scans.
word_indexes(i) ==
    LET range == Range_of(scan_geometry, i)
    IN  {w \in touched : w \div BITS \in range}

Ascending(S) ==
    [k \in 1 .. Cardinality(S) |-> CHOOSE w \in S : Cardinality({v \in S : v < w}) = k - 1]

\* The body of a thread; the last one runs on the caller's.
ScanBody(i) ==
    /\ phase = "scan"
    /\ i \in todo
    /\ todo' = todo \ {i}
    /\ data' = [data EXCEPT ![i] = Ascending(word_indexes(i))]
    /\ UNCHANGED <<num_cores, phase, chunk, chunks, results>>

total_input_len == MapThenSumSet(LAMBDA i : Len(data[i]), Cores)
num_non_empty_ones == div_ceil(total_input_len, cycles_per_chunk)
\* The next chunk ends where the one cut before it starts.
ChunkEndingAt(idx, pos) ==
    [starting_idx |-> idx, starting_offset |-> pos, end_idx |-> idx, end_offset |-> pos,
     prepadding |-> 0, to_fill |-> cycles_per_chunk]

\* The scope waits for its threads.
Scanned ==
    /\ phase = "scan"
    /\ todo = {}
    /\ phase' = IF num_non_empty_ones <= traced THEN "cut" ELSE "panicked"
    /\ chunk' = ChunkEndingAt(num_cores - 1, Len(data[num_cores - 1]))
    /\ UNCHANGED <<num_cores, todo, data, chunks, results>>

\* A vector that is longer than what is missing is taken in full.
takes_in_full_Always == TRUE

takes_in_full == chunk.to_fill >= chunk.starting_offset

\* One round of the while loop.
Cutting ==
    /\ phase = "cut"
    /\ Len(chunks) < num_non_empty_ones
    /\ chunk.to_fill # 0

CutVector ==
    /\ Cutting
    /\ chunk.starting_offset # 0
    /\ chunk' = IF takes_in_full
                THEN [chunk EXCEPT !.to_fill = @ - chunk.starting_offset, !.starting_offset = 0]
                ELSE [chunk EXCEPT !.starting_offset = @ - chunk.to_fill, !.to_fill = 0]
    /\ UNCHANGED <<num_cores, phase, todo, data, chunks, results>>

PreviousVector ==
    /\ Cutting
    /\ chunk.starting_offset = 0
    /\ chunk' = IF chunk.starting_idx = 0
                THEN [chunk EXCEPT !.prepadding = chunk.to_fill, !.to_fill = 0]
                ELSE [chunk EXCEPT !.starting_idx = @ - 1,
                                   !.starting_offset = Len(data[chunk.starting_idx - 1])]
    /\ UNCHANGED <<num_cores, phase, todo, data, chunks, results>>

\* The chunks stay in the order in which they were cut.
PushChunk_NotReversed ==
    /\ phase = "cut"
    /\ Len(chunks) < num_non_empty_ones
    /\ chunk.to_fill = 0
    /\ chunks' = Append(chunks, chunk)
    /\ chunk' = ChunkEndingAt(chunk.starting_idx, chunk.starting_offset)
    /\ UNCHANGED <<num_cores, phase, todo, data, results>>

\* The chunk is pushed; the sequence is kept in the order of the reverse that follows.
PushChunk ==
    /\ phase = "cut"
    /\ Len(chunks) < num_non_empty_ones
    /\ chunk.to_fill = 0
    /\ chunks' = <<chunk>> \o chunks
    /\ chunk' = ChunkEndingAt(chunk.starting_idx, chunk.starting_offset)
    /\ UNCHANGED <<num_cores, phase, todo, data, results>>

copy_geometry == get_geometry_for_num_cores(num_cores, num_non_empty_ones)

\* The second parallel loop; get_geometry divides by 0 if there is nothing to do.
Copy ==
    /\ phase = "cut"
    /\ Len(chunks) = num_non_empty_ones
    /\ phase' = IF num_non_empty_ones = 0 THEN "panicked" ELSE "copy"
    /\ todo' = IF num_non_empty_ones = 0 THEN {} ELSE 0 .. copy_geometry.num_chunks - 1
    /\ results' = [k \in 1 .. num_non_empty_ones |-> NoResult]
    /\ UNCHANGED <<num_cores, data, chunk, chunks>>

\* Later vectors are read from where the first one was.
vector_part_OffsetKept(c, i) ==
    SubSeq(data[i], c.starting_offset + 1, IF i = c.end_idx THEN c.end_offset ELSE Len(data[i]))

\* What a chunk takes from the vector of thread i.
vector_part(c, i) ==
    SubSeq(data[i], IF i = c.starting_idx THEN c.starting_offset + 1 ELSE 1,
                    IF i = c.end_idx THEN c.end_offset ELSE Len(data[i]))

lazy_init_data(c) ==
    [k \in 1 .. c.prepadding |-> Padding]
        \o FlattenSeq([k \in 1 .. c.end_idx - c.starting_idx + 1 |->
                          vector_part(c, c.starting_idx + k - 1)])

CopyBody(i) ==
    LET places == {p + 1 : p \in Range_of(copy_geometry, i)}
    IN  /\ phase = "copy"
        /\ i \in todo
        /\ todo' = todo \ {i}
        /\ results' = [k \in DOMAIN results |->
                          IF k \in places THEN lazy_init_data(chunks[k]) ELSE results[k]]
        /\ phase' = IF \E k \in places : Len(lazy_init_data(chunks[k])) # cycles_per_chunk
                    THEN "panicked" ELSE phase
        /\ UNCHANGED <<num_cores, data, chunk, chunks>>

Copied ==
    /\ phase = "copy"
    /\ todo = {}
    /\ phase' = "done"
    /\ UNCHANGED <<num_cores, todo, data, chunk, chunks, results>>

SplitStep ==
    \/ Scan
    \/ \E i \in Cores : ScanBody(i)
    \/ Scanned
    \/ CutVector
    \/ PreviousVector
    \/ PushChunk
    \/ Copy
    \/ \E i \in Cores : CopyBody(i)
    \/ Copied

SplitNext ==
    \/ Next /\ UNCHANGED splitVars
    \/ SplitStep /\ UNCHANGED vars

SplitSpec == SplitInit /\ [][SplitNext]_<<vars, splitVars>>

----------------------------------------------------------------------------
(* Properties *)

\* Every variable has its type: the cutting stays within the vectors of the threads.
SplitTypeOK ==
    /\ TypeOK
    /\ num_cores \in 1 .. MaxCores
    /\ phase \in {"idle", "scan", "cut", "copy", "done", "panicked"}
    /\ todo \subseteq Cores
    /\ data \in [Cores -> Seq(touched)]
    /\ chunk.starting_idx \in Cores
    /\ chunk.starting_offset \in 0 .. Len(data[chunk.starting_idx])
    /\ chunk.to_fill \in 0 .. cycles_per_chunk

\* The CPU prover's chunks are the GPU prover's, whatever the number of its threads
\* and whichever of them runs first: as many are empty, and the others hold the
\* same words, each of the touched ones once and sorted, at the same places.
SameAsGpu ==
    phase = "done" =>
        /\ traced - num_non_empty_ones = first
        /\ results = [k \in 1 .. get_chunks_count |-> sent[first + k - 1]]

\* No assert! of the CPU prover fails, and no index leaves its vector, if the
\* program touched a word of RAM: every chunk is cut and copied with exactly
\* cycles_per_chunk entries.  (For no word the second loop divides by zero.)
SplitNeverPanics == phase = "panicked" => touched = {}
=============================================================================
