----------------------------- MODULE CpuWorker ------------------------------
(***************************************************************************)
(* The CPU workers of one get_results call (gpu_prover/src/execution/      *)
(* cpu_worker.rs).  Each simulates the whole program; one traces touched   *)
(* RAM, some split the cycle chunks between them, one traces delegations.  *)
(* They take host buffers from a pool shared by all batches, block when it *)
(* is empty, and send what they trace to the batch's result channel.       *)
(* They run on a thread pool that starts jobs in the order of their spawn. *)
(***************************************************************************)
EXTENDS Integers, Sequences, FiniteSets, Functions

CONSTANTS
    Batches,             \* the batches callers run
    Program,             \* per batch: [chunks, needed, delegations]
    CyclesWorkers,       \* CYCLES_TRACING_WORKERS_COUNT
    DelegationTypes,
    DelegationCapacity,  \* how many delegations a witness has room for
    Threads              \* the threads of the CPU pool

\* A program runs for some chunks of cycles, needs so many setup and teardown
\* chunks by the end of each of them, and makes a sequence of delegation calls.
\* The RAM words that the cycles of one chunk touch fit into one chunk.
ASSUME ProgramAssumption ==
    \A b \in Batches :
        /\ Program[b].chunks \in Nat \ {0}
        /\ Program[b].needed \in [0 .. Program[b].chunks -> Nat]
        /\ Program[b].needed[0] = 0
        /\ \A i \in 1 .. Program[b].chunks :
              Program[b].needed[i] - Program[b].needed[i - 1] \in {0, 1}
        /\ Program[b].delegations \in Seq(DelegationTypes)
ASSUME WorkersAssumption ==
    /\ CyclesWorkers \in Nat \ {0}
    /\ DelegationCapacity \in Nat \ {0}
    /\ Threads \in Nat \ {0}

VARIABLES
    free_allocators,  \* how many host buffers the pool has
    jobs,             \* the workers spawned and not finished, in spawn order
    worker_results,   \* per batch: the result channel
    skip_set,         \* per batch: the main chunks that are not traced again
    ram,              \* per batch: the worker that traces touched RAM
    cycles,           \* per batch and split index: the workers that trace cycles
    delegation        \* per batch: the worker that traces delegations

workerVars == <<free_allocators, jobs, worker_results, skip_set, ram, cycles, delegation>>

Splits == 0 .. CyclesWorkers - 1

\* The jobs of a batch in the order get_results spawns them.
RamJob(b) == [batch |-> b, worker |-> 0]
CyclesJob(b, w) == [batch |-> b, worker |-> w + 1]
DelegationJob(b) == [batch |-> b, worker |-> CyclesWorkers + 1]

\* The thread pool runs the first jobs that are not finished.
Running(job) == \E i \in 1 .. Len(jobs) : i <= Threads /\ jobs[i] = job

Finish(job) ==
    \E i \in 1 .. Len(jobs) :
        /\ jobs[i] = job
        /\ jobs' = [k \in 1 .. Len(jobs) - 1 |-> IF k < i THEN jobs[k] ELSE jobs[k + 1]]

Send(b, result) == worker_results' = [worker_results EXCEPT ![b] = Append(@, result)]

\* free_allocator.recv()
TakeAllocator ==
    /\ free_allocators > 0
    /\ free_allocators' = free_allocators - 1

----------------------------------------------------------------------------
(* trace_touched_ram *)

NewRam == [at |-> "simulate", traced |-> 0, next |-> 0]

\* A chunk is given up although the touched words still need it.
SimulateChunk_OffByOne(b) ==
    LET traced == ram[b].traced + 1
        next == ram[b].next
        no_setup == Program[b].needed[traced] <= traced - next
        at == IF traced = Program[b].chunks THEN "collect" ELSE "simulate"
    IN  /\ Running(RamJob(b))
        /\ ram[b].at = "simulate"
        /\ ram' = [ram EXCEPT ![b] = [at |-> at, traced |-> traced,
                                      next |-> IF no_setup THEN next + 1 ELSE next]]
        /\ IF no_setup /\ next \notin skip_set[b]
           THEN Send(b, [kind |-> "setup_and_teardown", index |-> next, allocators |-> 0])
           ELSE UNCHANGED worker_results
        /\ UNCHANGED <<free_allocators, jobs, skip_set, cycles, delegation>>

\* One chunk of cycles more needs no setup and teardown.
SimulateChunk(b) ==
    LET traced == ram[b].traced + 1
        next == ram[b].next
        no_setup == Program[b].needed[traced] < traced - next
        at == IF traced = Program[b].chunks THEN "collect" ELSE "simulate"
    IN  /\ Running(RamJob(b))
        /\ ram[b].at = "simulate"
        /\ ram' = [ram EXCEPT ![b] = [at |-> at, traced |-> traced,
                                      next |-> IF no_setup THEN next + 1 ELSE next]]
        /\ IF no_setup /\ next \notin skip_set[b]
           THEN Send(b, [kind |-> "setup_and_teardown", index |-> next, allocators |-> 0])
           ELSE UNCHANGED worker_results
        /\ UNCHANGED <<free_allocators, jobs, skip_set, cycles, delegation>>

\* The next setup and teardown chunk is collected, or skipped if the cache has it.
CollectSetup(b) ==
    LET next == ram[b].next IN
    /\ Running(RamJob(b))
    /\ ram[b].at = "collect"
    /\ next < ram[b].traced
    /\ ram' = [ram EXCEPT ![b].next = next + 1]
    /\ IF next \in skip_set[b]
       THEN UNCHANGED <<free_allocators, worker_results>>
       ELSE /\ TakeAllocator
            /\ Send(b, [kind |-> "setup_and_teardown", index |-> next, allocators |-> 1])
    /\ UNCHANGED <<jobs, skip_set, cycles, delegation>>

FinishRam(b) ==
    /\ Running(RamJob(b))
    /\ ram[b].at = "collect"
    /\ ram[b].next = ram[b].traced
    /\ ram' = [ram EXCEPT ![b].at = "done"]
    /\ Send(b, [kind |-> "ram_result", count |-> ram[b].traced])
    /\ Finish(RamJob(b))
    /\ UNCHANGED <<free_allocators, skip_set, cycles, delegation>>

----------------------------------------------------------------------------
(* trace_cycles *)

NewCycles == [at |-> "next", index |-> 0]

\* Whether the worker traces its next chunk or fast-forwards through it.
traces_chunk(b, w) ==
    /\ cycles[b][w].index % CyclesWorkers = w
    /\ cycles[b][w].index \notin skip_set[b]

AtChunk(b, w, at) ==
    /\ Running(CyclesJob(b, w))
    /\ cycles[b][w].at = at
    /\ cycles[b][w].index < Program[b].chunks

FastForward(b, w) ==
    /\ AtChunk(b, w, "next")
    /\ ~traces_chunk(b, w)
    /\ cycles' = [cycles EXCEPT ![b][w].index = @ + 1]
    /\ UNCHANGED <<free_allocators, jobs, worker_results, skip_set, ram, delegation>>

StartChunk(b, w) ==
    /\ AtChunk(b, w, "next")
    /\ traces_chunk(b, w)
    /\ TakeAllocator
    /\ cycles' = [cycles EXCEPT ![b][w].at = "tracing"]
    /\ UNCHANGED <<jobs, worker_results, skip_set, ram, delegation>>

SendChunk(b, w) ==
    /\ AtChunk(b, w, "tracing")
    /\ Send(b, [kind |-> "cycles", index |-> cycles[b][w].index])
    /\ cycles' = [cycles EXCEPT ![b][w] = [at |-> "next", index |-> @.index + 1]]
    /\ UNCHANGED <<free_allocators, jobs, skip_set, ram, delegation>>

FinishCycles(b, w) ==
    /\ Running(CyclesJob(b, w))
    /\ cycles[b][w] = [at |-> "next", index |-> Program[b].chunks]
    /\ Send(b, [kind |-> "cycles_result", count |-> cycles[b][w].index])
    /\ cycles' = [cycles EXCEPT ![b][w].at = "done"]
    /\ Finish(CyclesJob(b, w))
    /\ UNCHANGED <<free_allocators, skip_set, ram, delegation>>

----------------------------------------------------------------------------
(* trace_delegations.  The witnesses that are being filled are held by type; *)
(* the cache never holds delegations (CACHE_DELEGATIONS is false).           *)

NewDelegation ==
    [at |-> "simulate", calls |-> 0, swap |-> {}, filled |-> [d \in {} |-> 0],
     counts |-> [d \in {} |-> 0]]

\* delegation_chunks_counts has no entry for a type before its first witness.
chunks_count(b, d) ==
    IF d \in DOMAIN delegation[b].counts THEN delegation[b].counts[d] ELSE 0

next_type(b) == Program[b].delegations[delegation[b].calls + 1]

\* The type that delegation_swap_fn gets a buffer for: one whose witness was just
\* sent, or one that is called for the first time.
wanted_types(b) ==
    IF delegation[b].swap # {} THEN delegation[b].swap
    ELSE IF delegation[b].calls < Len(Program[b].delegations)
         THEN {next_type(b)} \ DOMAIN delegation[b].filled
         ELSE {}

with_type(map, d, n) == [t \in DOMAIN map \cup {d} |-> IF t = d THEN n ELSE map[t]]
without_type(map, d) == [t \in DOMAIN map \ {d} |-> map[t]]

StartWitness(b) ==
    /\ Running(DelegationJob(b))
    /\ delegation[b].at = "simulate"
    /\ TakeAllocator
    /\ \E d \in wanted_types(b) :
          delegation' = [delegation EXCEPT ![b] = [delegation[b] EXCEPT !.filled = with_type(@, d, 0),
                                                            !.swap = {}]]
    /\ UNCHANGED <<jobs, worker_results, skip_set, ram, cycles>>

SendWitness(b, d, is_empty) ==
    Send(b, [kind |-> "witness", type |-> d, sequence |-> chunks_count(b, d),
             is_empty |-> is_empty])

\* record_delegation: a witness that gets full is sent and replaced.
RecordDelegation(b) ==
    LET d == next_type(b)
        n == delegation[b].filled[d] + 1
    IN  /\ Running(DelegationJob(b))
        /\ delegation[b].at = "simulate"
        /\ delegation[b].calls < Len(Program[b].delegations)
        /\ wanted_types(b) = {}
        /\ IF n = DelegationCapacity
           THEN /\ SendWitness(b, d, FALSE)
                /\ delegation' = [delegation EXCEPT ![b] =
                      [delegation[b] EXCEPT !.calls = @ + 1, !.swap = {d}, !.filled = without_type(@, d),
                                !.counts = with_type(@, d, chunks_count(b, d) + 1)]]
           ELSE /\ delegation' = [delegation EXCEPT ![b] =
                      [delegation[b] EXCEPT !.calls = @ + 1, !.filled = with_type(@, d, n)]]
                /\ UNCHANGED worker_results
        /\ UNCHANGED <<free_allocators, jobs, skip_set, ram, cycles>>

\* The simulation has ended.
EndDelegations(b) ==
    /\ Running(DelegationJob(b))
    /\ delegation[b].at = "simulate"
    /\ delegation[b].calls = Len(Program[b].delegations)
    /\ wanted_types(b) = {}
    /\ delegation' = [delegation EXCEPT ![b].at = "drain"]
    /\ UNCHANGED <<free_allocators, jobs, worker_results, skip_set, ram, cycles>>

\* The empty witness is counted.
DrainWitness_CountsEmpty(b) ==
    /\ Running(DelegationJob(b))
    /\ delegation[b].at = "drain"
    /\ \E d \in DOMAIN delegation[b].filled :
          LET is_empty == delegation[b].filled[d] = 0
              count == chunks_count(b, d) + 1
          IN
          /\ SendWitness(b, d, is_empty)
          /\ delegation' = [delegation EXCEPT ![b] =
                [delegation[b] EXCEPT !.filled = without_type(@, d), !.counts = with_type(@, d, count)]]
    /\ UNCHANGED <<free_allocators, jobs, skip_set, ram, cycles>>

\* An empty witness is sent too, for its buffer, but not counted.
DrainWitness(b) ==
    /\ Running(DelegationJob(b))
    /\ delegation[b].at = "drain"
    /\ \E d \in DOMAIN delegation[b].filled :
          LET is_empty == delegation[b].filled[d] = 0
              count == chunks_count(b, d) + (IF is_empty THEN 0 ELSE 1)
          IN
          /\ SendWitness(b, d, is_empty)
          /\ delegation' = [delegation EXCEPT ![b] =
                [delegation[b] EXCEPT !.filled = without_type(@, d), !.counts = with_type(@, d, count)]]
    /\ UNCHANGED <<free_allocators, jobs, skip_set, ram, cycles>>

FinishDelegations(b) ==
    /\ Running(DelegationJob(b))
    /\ delegation[b].at = "drain"
    /\ DOMAIN delegation[b].filled = {}
    /\ Send(b, [kind |-> "delegation_result", counts |-> delegation[b].counts])
    /\ delegation' = [delegation EXCEPT ![b].at = "done"]
    /\ Finish(DelegationJob(b))
    /\ UNCHANGED <<free_allocators, skip_set, ram, cycles>>

----------------------------------------------------------------------------
RamStep(b) == SimulateChunk(b) \/ CollectSetup(b) \/ FinishRam(b)

CyclesStep(b, w) ==
    FastForward(b, w) \/ StartChunk(b, w) \/ SendChunk(b, w) \/ FinishCycles(b, w)

DelegationStep(b) ==
    StartWitness(b) \/ RecordDelegation(b) \/ EndDelegations(b) \/ DrainWitness(b)
        \/ FinishDelegations(b)

WorkerStep(b) == RamStep(b) \/ (\E w \in Splits : CyclesStep(b, w)) \/ DelegationStep(b)

WorkersDone(b) ==
    /\ ram[b].at = "done"
    /\ \A w \in Splits : cycles[b][w].at = "done"
    /\ delegation[b].at = "done"
=============================================================================
