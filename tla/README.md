# Verification of zksync-airbender

TLA+ models of the concurrent and stateful parts of this repository, checked
with TLC on small instances, with TLAPS proofs for every value of the constants
where they are in reach.

Airbender proves executions of RISC-V programs. A program is simulated, the
simulation is cut into chunks of `2^n - 1` cycles, each chunk becomes a circuit
with a proof, and the proofs are tied together by an argument over all memory
accesses. A verifier checks all of them, is itself proved to accept, and so on
until one proof is left. The proofs themselves are algebra over large fields,
which a model checker cannot enumerate; they are taken as ideal. What these models
cover is the machinery around them: who sends what to whom, who owns which buffer,
in which order, what the pieces that different threads record add up to, and what
it means that the verifier accepts them.

## 1. Inventory

| Part | State | Operations | Hard behaviours |
|---|---|---|---|
| GPU manager (`gpu_prover/src/execution/gpu_manager.rs`) | receivers and senders by batch, work queue, batches to flush, a queue per worker | select loop: new batch, request, result, hand-over; drop | batches open, close and end concurrently; rendezvous channels; shutdown |
| GPU workers (`gpu_worker.rs`) | three requests in phases, cached setups | initialize, take a request, run the phases, hand a result over | every worker waits for setups that the others compute; results lag two requests behind |
| CPU workers (`cpu_worker.rs`) | position in the program, unfinished witnesses | simulate, trace, take a buffer, send | wait for buffers that others hold; only as many run as there are threads |
| Execution prover (`prover.rs`) | unpaired chunks, counts, senders, cache, buffer pool | `get_results` and its three callers | results arrive in any order; senders are dropped by counting; a second pass skips cached chunks |
| Tracer (`tracer.rs`, `risc_v_simulator/src/cycle/state_new.rs`) | last timestamp of each register and word | the accesses of a cycle, delegations, chunk boundaries | workers record parts that must fit together |
| Setup and teardown chunker (`tracer.rs`, `cpu_worker.rs`) | touched words by page, position of the iterator | mark, decide, populate, skip | boundaries: full chunks, padding, skipped chunks |
| Allocator (`gpu_prover/src/allocator`) | two indices of free blocks, counters | alloc with three placements, free, deallocate | merging at the ends of backends, long sequences of calls |
| QuasiUART (`riscv_common/src/lib.rs`, `risc_v_simulator/src/abstractions/non_determinism.rs`) | guest buffer, host state | write words, receive words | framing, payload that looks like the marker, empty messages |
| Full statement verifier (`full_statement_verifier/src/lib.rs`) | the last two outputs, two accumulators, a transcript | verify the main circuits, then those of each delegation type, then the arguments | nothing is known to be right before the end; only neighbours are compared |
| Recursion (`execution_utils`, `tools/cli/src/prover_utils.rs`, `tools/verifier`) | proofs and metadata of a level, the chain of programs | prove the verifier, switch the machine, finish | guest, host and the constants compute the same chain in three places |
| Transcript (`transcript/src/lib.rs`) | a block buffer that is flushed lazily | absorb, finalize, finalize and reset | inputs in pieces, full buffers, a buffer used again |
| CPU tracing (`circuit_defs/trace_and_split`, `prover/src/tracers/oracles`) and `worker` | touched words by thread, chunks | two parallel loops and the cutting between them | chunk sizes by several special cases; boundaries between vectors |
| Provers, circuits, fields, FFT, hashes, kernels, generators | mostly pure data | | not modelled |

`PROJECT.json` lists all parts with their status, and the hazards of the code
with the properties that cover them.

How they interact: a caller of `ExecutionProver` opens a batch with the GPU
manager and spawns CPU workers. These take host buffers from a pool and send
traces to the caller's loop, which pairs them and sends requests to the manager.
The manager distributes the requests of all batches to the GPU workers and
returns the results; the buffers go back to the pool. The proofs and the final
registers are what `verify_full_statement` reads. Its execution, in the guest
program `tools/verifier`, is proved in the same way, level by level.

## 2. Modules

| Module | Models |
|---|---|
| `GpuWorker` | one GPU worker thread; the halves of its two rendezvous are operators |
| `GpuManager` | the manager composed with all workers and with provers that open batches |
| `BatchService` | what the manager promises to a prover, as an abstract specification |
| `CpuWorker` | the three kinds of CPU workers, the buffer pool and the thread pool |
| `ExecutionProver` | `get_results` and its callers, composed with the CPU workers; the GPUs are `BatchService` |
| `AllocationsTracker` | `AllocationsTracker`, `InnerStaticAllocator`, `StaticHostAllocator` |
| `ExecutionTracer` | timestamps of all accesses, recorded by all workers |
| `TouchedRam` | `RamTracingData`, `SetupAndTeardownChunker` and the loop that uses them |
| `QuasiUART` | guest writer and host reader of printed strings |
| `WorkerGeometry` | the split of work into chunks |
| `TraceAndSplit` | how the CPU prover finds touched words and cuts them into chunks, after an execution of `TouchedRam` |
| `FullStatementVerifier` | `verify_full_statement`, for any proofs |
| `TracedStatement` | `ExecutionTracer`, the prover's layout and transcript, and `FullStatementVerifier`, composed |
| `Transcript` | the buffering hasher and the plain one |
| `RecursionChain` | the levels of recursion above an accepted statement; extends `FullStatementVerifier` and `Transcript` |
| `GpuManagerProofs`, `AllocationsTrackerProofs`, `ExecutionTracerProofs`, `WorkerGeometryProofs`, `FullStatementProofs` | proofs |
| `MemoryArgument` | the principle of the memory argument, with its proof |
| `MC...` | instances for TLC: programs, backends, messages |

Definitions whose name ends in `_Something` next to a definition of the same stem
are mutants of it: plausible mistakes that make the named property fail, as
listed under "mutants" in `PROJECT.json`.

**GpuManager.** The variables carry the names of the code's local variables. One
iteration of the `loop` is a receive or send of the `Select` (`ReceiveBatch`,
`BatchesClosed`, `ReceiveRequest`, `RequestsClosed`, `ReceiveResult`,
`SelectRequest`, `PushPipeline`) followed by the biased inner loop (`Distribute`,
until `DistributeDone`). A rendezvous is one step of both sides: the manager's
action conjoined with `TakeRequest` or `GiveResult`. Unbounded channels are
sequences. The prover side is reduced to its protocol: open, send at least one
request, drop the senders, wait for the end of the channel. A result is
identified with its request.

**CpuWorker and ExecutionProver.** A program is a record: its number of chunks,
how many setup and teardown chunks the words touched so far need after each
chunk, and its sequence of delegation calls. A buffer is a unit taken from
`free_allocators`. Every trace that holds a buffer carries it through the
messages. The thread pool runs the first `Threads` unfinished jobs in spawn
order. The loop over the results has one action per variant of `WorkerResult`,
and each includes the check at the end of the loop's body that drops the main
sender.

**ExecutionTracer.** One action is one cycle of one worker: the reads of rs1 and
rs2 (or of the loaded word), the delegation, and the write of rd (or of the
stored word), in the order in which `cycle` makes them, each with its timestamp.
Values are left out: the memory argument pairs accesses by cell and timestamp.

**TouchedRam.** Which words a chunk touches, where the program ends and which
chunks are cached are chosen freely. Reading behind the last word with
`unwrap_unchecked` gives a value that equals no word.

**AllocationsTracker.** A call is one action, since it runs under a lock or a
`RefCell`. `Free` is the drop of a `StaticAllocation`, `deallocate` the method of
the `Allocator` trait, which rounds the size again.

**QuasiUART.** One action per word that the guest writes; the host handles it in
the same step. A byte has four values instead of 256, so that the marker, the
greatest word, can also occur in a payload and as a length.

**WorkerGeometry and TraceAndSplit.** `get_geometry_for_num_cores` is an operator
with the code's cases. The two parallel loops have an action per body, in any
order; the `while` loop that cuts chunks has one per round. The words are those
of an execution that `TouchedRam` went through, so the results can be compared.

**FullStatementVerifier.** An iteration of a loop of `verify_full_statement` is an
action; a failed `assert!` is `panic`. A proof is the record of what it commits
to: rows of lazy inits, accesses, delegation requests, or a delegation's answers.
Values are left out, since a timestamp says which access wrote a value, and so is
`abi_mem_offset_high` of a request. The rest of a proof is ideal. The verifier of
one proof accepts if the circuit's constraints hold. The two accumulators are
exact when the challenges come from a transcript that holds everything they are
applied to, and anything otherwise (`challenges_bind`): so a part that is not
absorbed is visible in the model. Padding rows of a delegation circuit
contribute equal read and write tuples and are left out. The code keeps two
proof outputs and writes them in turns; `proof_output_0` is the one the code
uses after the loop.

**TracedStatement.** When all workers of `ExecutionTracer` have finished, their
records are put in the rows of the circuits, the transcript for the challenges is
made, and the actions of `FullStatementVerifier` run on these proofs only.

**Transcript and RecursionChain.** A word is a tuple and the compression function is
free: a digest is the history of the blocks. `RecursionChain` starts when a
statement is accepted. A level runs the guest (`universal_verifier`) on the proofs
of the level before; how many circuits that takes is a free choice.

## 3. What is checked

| Run | Shows | Instance |
|---|---|---|
| `gpu_manager` | queues mirror pipelines (`PipelineMirrored`), no result without a sender (`SenderHeld`) or a receiver (`ReceiversAlive`); batches that do not overlap end (`SequentialBatchesComplete`), the manager and its workers start and stop (`StartsAndStops`) and none is left behind (`CleanExit`); `GpuManager` implements `BatchService` (`ServiceSpec`) | 2 devices, 3 setups, 2 batch identifiers opened twice in all, up to 2 requests each |
| `gpu_manager_batch_hang` | violation, see 6.1 | 1 device, 2 batches |
| `execution_prover_cached` | pairing, cache and skipping (`AllChunksAnswered`, `CacheFilled`, `SetupsFit`), senders (`SendersOutlastChunks`), buffers (`BuffersConserved`), use of the manager (`GpuProtocol`) | 3 chunks, cache of 2, 2 cycles workers, 2 threads, a delegation witness that is drained half full |
| `execution_prover_tight` | termination (`CallsReturn`) when every chunk waits for its setup and teardown and workers wait for threads and buffers; counts with a witness that is filled exactly and an empty one | 4 chunks, 8 buffers, 3 workers on 2 threads, 2 delegation calls |
| `execution_prover_starved` | violation, see 6.2 | 5 chunks, 7 buffers |
| `allocations_tracker` | `IndicesAgree`, `NoOverlap`, `FreeAccepted`, `FailsOnlyWhenFull`, `UsedMemExact` | 3 backends (two adjacent), 4 sizes, all placements |
| `execution_tracer` | `AccessesIncrease`; all records form one history (`Balanced`); laid out in circuits they are always accepted in the end (`TracedAccepted`), with the transcript the prover used (`SameTranscript`) | 9 programs of 2 or 3 chunks of 3 cycles, 4 workers |
| `touched_ram` | `AssertsHold`, `EveryChunkSent`, `SameAsUnskippedButFull`; the CPU prover makes the same chunks (`SameAsGpu`) and does not panic (`SplitNeverPanics`) | 8 words, 2 pages, up to 3 chunks of 3, all skip sets, 1 to 4 threads |
| `touched_ram_skip_full` | violation, see 6.3 | 6 words, up to 4 chunks of 2 |
| `quasi_uart` | `EveryMessagePrinted` for non-empty strings | up to 3 strings of 1 to 9 bytes |
| `quasi_uart_empty` | violation, see 6.4 | the same and the empty string |
| `full_statement` | an accepted statement initialises no address twice (`InitsOnce`), has a memory that is one (`MemoryConsistent`), answers every delegation (`DelegationsAnswered`), is one run of one program (`EndParamsOfAll`); above it, every level is accepted (`LevelsAccepted`), the last chain names the program (`ConstantsIdentifyProgram`), the hasher is the plain one (`HashedWhole`) | proofs of up to 2 chunks of 1 cycle with 1 access, 1 register, 2 words, and a delegation circuit that answers the first chunk's request; 4 timestamps; 3 strategies, up to 6 main and 3 delegation proofs and 4 levels |

**Bounds.** Two devices and two batches are enough for a request to be routed to
the wrong worker or batch and for two batches to share a pipeline; two requests
of each of two batches fill a pipeline and leave one over. Three chunks with a cache of two give chunks
that are cached, chunks that are traced again, and both kinds with setups. Four
and five chunks that all wait are the two sides of the limit of the host buffers.
A second delegation type, or a second batch, multiplies the states by more than
these runs have room for. The
allocator's sizes include ones that are not whole chunks, that fill a backend,
and that are too large. Eight words over chunks of three, with pages of four and
bit masks of two, give full and padded chunks, chunks across pages and across the
vectors of threads, and threads that find nothing. The programs of
`execution_tracer` alias registers, read ROM, touch fewer words than there are rows,
make no delegations, or some that fill a circuit or leave it unfinished, and need a
third chunk, which is the first worker's again. In `full_statement` two circuits of one access are enough for a
gap, a repetition, an overlap or a swap between neighbours; a timestamp is the
initial one or one of a write the two chunks or the delegation make, and a
request of the second chunk is one that is never answered; the proofs of
`FullStatementProofs` cover all larger ones. Blocks of two words and digests of
one make the three inputs of the chain end within a block, at its end, and in
the next; six main and three delegation proofs are one more than the largest
numbers the strategies compare with. `MaxRounds`, `MaxRequests` and
`MaxMessages` bound the environment only. Runs say `CHECK_DEADLOCK FALSE` where
the system may end: a caller that is done, a program that is over. The allocator
never ends, and deadlock is checked there.

**Fairness.** Threads that can run are eventually scheduled: weak fairness for
each worker, for the manager's loop and for each prover. The manager's `Select`
picks among ready operations at random; only the manager as a whole is assumed
fair, and no fairness is assumed for a batch that might not be closed except
that its prover goes on. In `ExecutionProver` the GPUs are assumed to answer only
when they must: a batch's remaining requests when its senders are dropped (then
the manager flushes), and some request when there are more than two per device
(then a pipeline is pushed on). This is less than what they usually do, and what
`SequentialBatchesComplete` shows for batches one at a time. For two at a time 6.1
says that it may fail; the runs of `ExecutionProver` have one. In `TracedStatement`
some thread goes on as long as one can: a step of any worker, the prover or the
verifier. Each takes finitely many, so this is enough for `TracedAccepted`.

## 4. What is proved

All constants are arbitrary, under the assumptions named `...Assumption` in the
modules: sizes are (positive) naturals, backends are disjoint and whole chunks,
programs consist of instructions and fill their last chunk, proofs have the
columns of their circuits.

* `GpuManagerProofs`: `TypeOK`, `PipelineMirrored`, `SenderHeld`, `ReceiversAlive`,
  `RegisteredOnce` and `CleanExit` hold for any number of devices, batches, requests and rounds.
  The inductive invariant has two layers. The first is typing with
  `PipelineMirrored`. The second says where a batch's sender is in each state of
  its prover: a prover that waits for the end has its sender in the channel or in
  the manager; everything queued or in a pipeline belongs to a batch that holds
  its sender; a batch that is neither flushed nor receiving holds none; a worker
  that owes a result has something in its pipeline (`OwesSomething`). `CleanExit`
  needs all of it: the manager leaves its loop when no senders are left, hence
  nothing is in a pipeline.
* `AllocationsTrackerProofs`: `TypeOK`, `IndicesAgree`, `NoOverlap`, `FreeAccepted`
  and `FailsOnlyWhenFull`. The invariant says that the indices agree, that free and
  live blocks are disjoint, lie within one backend, cover all backends, and that no
  two free blocks of a backend touch (`Merged`). `FailsOnlyWhenFull` follows since
  a gap that nobody holds is then within one free block.
* `ExecutionTracerProofs`: `TypeOK` and `AccessesIncrease` for every program,
  chunk size and number of workers. The invariant gives a tracer's timestamp in
  terms of its chunk and cycle and bounds every last timestamp by it.
* `WorkerGeometryProofs`: for every positive amount of work and number of cores the
  chunks of `get_geometry_for_num_cores` are not empty and cover the work exactly
  once, and all asserts in it hold (`GeometryPartitions`). The proof follows
  the cases of the code; the last adjustment, which moves work from the last chunk
  to the others, needs that it only happens when there are as many chunks as cores.
* `MemoryArgument`: the principle behind the argument (`SingleHistory`). Take
  finitely many accesses to a cell, each with the timestamp it reads and a later
  one that it writes, and initialisations that write 0, at most one of which is torn
  down after 0. If every timestamp is read as often as it is written, no write lies
  between the read and the write of an access, or after the teardown. The proof
  counts, for a timestamp, the accesses that have read and not yet written: they
  are as many as the initialisations torn down later, hence at most one.
* `FullStatementProofs`: what an accepted statement means, for any number of
  circuits, cycles, accesses, cells, delegation types and circuits. The invariant
  (`Facts`) says of the proofs seen so far that each satisfied its constraints,
  has the sequence number of its place, continues the one before and was
  absorbed. `AddressesInitialisedOnce` lifts the order of neighbouring rows to all
  pairs: padding can only be in front. `EveryDelegationAnswered` is about the field:
  a request is unique by its timestamp, there are fewer responses than the
  characteristic, so numbers that agree modulo it are equal. `MemoryIsMemory` shows
  that the contributions to a cell meet the conditions of `SingleHistory`, which
  needs both of the above. `OneRunOfOneProgram` and `StatementTypes` are the rest.

Only model-checked: liveness (`SequentialBatchesComplete`, `StartsAndStops`,
`CallsReturn`, `TracedAccepted`), since the prover has no support for fairness; `ServiceSpec` and `GpuProtocol`; `UsedMemExact` and
`BuffersConserved`, which are sums over sets and need induction over data;
`Balanced`, which counts records; the hasher and the recursion, which are folds
over sequences; and everything about `ExecutionProver`, `TouchedRam`, `TraceAndSplit`,
`TracedStatement` and `QuasiUART`.

## 5. Assumptions and what is not modelled

* A chunk touches at most as many new words as it has cycles, so that it adds at
  most one setup and teardown chunk (`ProgramAssumption`, `TouchesPerChunk`). A
  delegation may touch more words than it takes cycles; the note at
  `tracer.rs:18` says that enough cycles are needed for that.
* Delegations are called with x0 for rd and access distinct words.
* All workers simulate the same program to the same end: the non-determinism
  source is cloned for each of them.
* The cache holds no delegations, since `CACHE_DELEGATIONS` is `false`. The
  branches for cached delegations (`DelegationTracingType::Counter`) are
  unreachable and left out.
* Panics and CUDA errors end the process and are not modelled. The models show
  that the asserts they contain hold.
* Single proofs are ideal, as section 2 says: a proof that verifies satisfies its
  circuit's constraints, and challenges that are drawn from a transcript make the
  arguments over what it holds exact. Soundness errors are not modelled.
* Digests are free of collisions, and setup caps tell programs and machines apart.
* The universal verifier ends at its exit point and leaves the values of the
  chain in its registers, as `tools/verifier/src/main.rs` does.

Not modelled:

* Circuits, provers, verifiers of single proofs, fields, FFT and hash rounds:
  algebra over domains that TLC cannot enumerate, and without control flow that
  depends on schedules or faults. Most lines of the repository are of this kind:
  generated verifiers and layouts, quotient formulas and kernels. They are written
  by generators from the circuits and have no operations of their own to model.
* The simulator's instructions (`risc_v_simulator`, `machine`): what they compute is
  data. Their accesses and timestamps are in `ExecutionTracer`.
* `ProverContext` and the CUDA streams: the order of operations on streams is CUDA's,
  from outside the repository.
* The sequential simulation in `trace_and_split`, which records what the CPU
  workers record in parallel.
* `search_pow`, the drawing of randomness, `pad` and `commit_with_seed` of the
  transcript; the chunk iterators of `worker`, in part unused.
* Files, the command line, the constants for verifiers of single machines, the
  examples, and the tests.

Things met on the way that no property is about: the comment at `worker/src/lib.rs:18` that 16
jobs on 3 cores give chunks of 6, 5 and 5, where the code gives 6, 6 and 4;
`chunk_lazy_init_and_teardown` divides by zero for a program that touches no RAM
(`SplitNeverPanics` excepts it); `to_metadata_and_proof_list` takes every
`ProgramProof` for one of the reduced machine and its delegation proofs for none
(`LevelsAccepted` excepts base proofs); and the constants of single machines name
other binaries in the chain than their computation for the universal verifier.

## 6. Findings

1. **A batch may never end when two run at a time** (`gpu_manager.rs:175`). Whether
   a batch is complete is checked when a result of it arrives, not when its request
   channel is found closed. In a pipeline shared with another batch the last result
   may come first. The caller then waits for ever, and so does `GpuManager::drop`.
2. **A batch may starve itself of host buffers** (`cpu_worker.rs:269`). The cycles
   chunks that wait for setups hold buffers, and so do the requests in the GPU
   pipelines, which stay there until others push them out. When a program touches
   so much RAM that the waiting chunks use up the pool, the worker that must
   produce the setups waits for a buffer for ever.
3. **Skipping a full first setup chunk skips nothing** (`tracer.rs:138`). The
   remainder is 0 when the touched words fill the chunks exactly; the next chunk
   then repeats the words of the skipped one.
4. **The message after an empty one is lost** (`non_determinism.rs:84`). The reader
   does not become ready after a length of 0 and takes the next marker for data.

## 7. Plan

The order is by importance of the behaviour.

1. Done: GPU manager with refinement and proofs; prover and CPU workers; allocator
   with proofs; tracer with proofs; chunker; UART; full statement verifier with
   proofs, composed with the tracer; recursion and transcript; geometry with proofs,
   CPU chunking.
2. Next, model:
   * `search_pow`'s threads: the first hit stops the others, the result must be a
     valid nonce whichever wins.
   * two batches at a time in `ExecutionProver`, which needs a smaller abstraction
     of the CPU workers.
   * the sequential tracer of `trace_and_split` as another producer of what
     `ExecutionTracer` records.
   * `ProverContext`: reversed placement and the order of stream events.
3. Then, prove: `SendersOutlastChunks`, `SetupsFit` and the pairing invariant of
   `ExecutionProver`; that `GpuManager` implements `BatchService`; `AssertsHold`
   and `EveryChunkSent` of `TouchedRam`; `EveryMessagePrinted` of `QuasiUART` for
   any byte base.
