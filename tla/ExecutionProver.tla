--------------------------- MODULE ExecutionProver --------------------------
(***************************************************************************)
(* get_results of gpu_prover/src/execution/prover.rs and the calls made of *)
(* it: commit_memory, prove, and commit_memory_and_prove, which runs it    *)
(* twice and keeps some traces of the first run in a cache for the second. *)
(* It pairs the chunks that the CPU workers trace, sends them to the GPU   *)
(* manager, hands their host buffers back to the pool when the answers     *)
(* come, and returns when every sender of its result channel is gone.  The *)
(* GPU manager is what BatchService says of it: it answers the requests of *)
(* a batch in any order.                                                   *)
(***************************************************************************)
EXTENDS CpuWorker

CONSTANTS
    Api,                     \* per batch: the call that its caller makes
    max_concurrent_batches,
    device_count

Calls == {"commit_memory", "prove", "commit_memory_and_prove"}

ASSUME ApiAssumption == Api \in [Batches -> Calls]
ASSUME FiniteAssumption == IsFiniteSet(Batches) /\ IsFiniteSet(DelegationTypes)
ASSUME CountsAssumption == max_concurrent_batches \in Nat \ {0} /\ device_count \in Nat \ {0}

VARIABLES
    stage,              \* per batch: "idle", "commit", "committed", "prove", "returned"
    chunks_cache,       \* per batch: the cached main requests
    requests,           \* per batch: the requests that the GPUs have not answered
    main_count,         \* per batch: main_work_requests_count
    final_main_chunks_count,        \* per batch: the set with the count, or {}
    final_delegation_chunks_counts, \* per batch: the set with the counts, or {}
    setup_and_teardown_chunks,      \* per batch: allocators by index
    cycles_chunks,      \* per batch: the indices of unpaired cycles chunks
    main_sender,        \* per batch: "open" or "dropped"
    delegation_sender,  \* per batch: "open" or "dropped"
    spawned,            \* per batch: how many CPU workers were spawned
    main_results,       \* per batch: the chunks with a commitment or a proof
    delegation_results  \* per batch: the same for <<type, sequence>>

proverVars == <<stage, chunks_cache, requests, main_count, final_main_chunks_count,
                final_delegation_chunks_counts, setup_and_teardown_chunks, cycles_chunks,
                main_sender, delegation_sender, spawned, main_results, delegation_results>>

vars == <<workerVars, proverVars>>

\* No buffers for what the GPUs hold.
total_allocators_count_NoDevices ==
    max_concurrent_batches * (1 + CyclesWorkers + Cardinality(DelegationTypes) + 1)

total_allocators_count ==
    max_concurrent_batches * (1 + CyclesWorkers + Cardinality(DelegationTypes) + 1)
        + device_count * 4

Init ==
    /\ free_allocators = total_allocators_count
    /\ jobs = <<>>
    /\ worker_results = [b \in Batches |-> <<>>]
    /\ skip_set = [b \in Batches |-> {}]
    /\ ram = [b \in Batches |-> NewRam]
    /\ cycles = [b \in Batches |-> [w \in Splits |-> NewCycles]]
    /\ delegation = [b \in Batches |-> NewDelegation]
    /\ stage = [b \in Batches |-> "idle"]
    /\ chunks_cache = [b \in Batches |-> {}]
    /\ requests = [b \in Batches |-> {}]
    /\ main_count = [b \in Batches |-> 0]
    /\ final_main_chunks_count = [b \in Batches |-> {}]
    /\ final_delegation_chunks_counts = [b \in Batches |-> {}]
    /\ setup_and_teardown_chunks = [b \in Batches |-> [i \in {} |-> 0]]
    /\ cycles_chunks = [b \in Batches |-> {}]
    /\ main_sender = [b \in Batches |-> "dropped"]
    /\ delegation_sender = [b \in Batches |-> "dropped"]
    /\ spawned = [b \in Batches |-> 0]
    /\ main_results = [b \in Batches |-> {}]
    /\ delegation_results = [b \in Batches |-> {}]

\* A main request carries the buffer of its cycles and, if it has one, that of
\* its setup and teardown.
MainRequest(index, allocators) ==
    [kind |-> "main", sequence |-> index, allocators |-> 1 + allocators]
DelegationRequest(d, sequence) ==
    [kind |-> "delegation", type |-> d, sequence |-> sequence, allocators |-> 1]

SendRequest(b, r) == requests' = [requests EXCEPT ![b] = @ \cup {r}]

proving(b) == stage[b] = "prove"
InGetResults(b) == stage[b] \in {"commit", "prove"}

cache_capacity(b) == IF Api[b] = "commit_memory_and_prove" THEN device_count * 2 ELSE 0

----------------------------------------------------------------------------
(* The beginning of get_results: the cached traces become proof requests and *)
(* the chunks they belong to are not traced again; then the workers are      *)
(* spawned one by one.                                                       *)

GetResults(b, next_stage) ==
    /\ stage' = [stage EXCEPT ![b] = next_stage]
    /\ skip_set' = [skip_set EXCEPT ![b] = {r.sequence : r \in chunks_cache[b]}]
    /\ main_count' = [main_count EXCEPT ![b] = 0]
    /\ final_main_chunks_count' = [final_main_chunks_count EXCEPT ![b] = {}]
    /\ final_delegation_chunks_counts' = [final_delegation_chunks_counts EXCEPT ![b] = {}]
    /\ main_sender' = [main_sender EXCEPT ![b] = "open"]
    /\ delegation_sender' = [delegation_sender EXCEPT ![b] = "open"]
    /\ spawned' = [spawned EXCEPT ![b] = 0]
    /\ main_results' = [main_results EXCEPT ![b] = {}]
    /\ delegation_results' = [delegation_results EXCEPT ![b] = {}]
    /\ ram' = [ram EXCEPT ![b] = NewRam]
    /\ cycles' = [cycles EXCEPT ![b] = [w \in Splits |-> NewCycles]]
    /\ delegation' = [delegation EXCEPT ![b] = NewDelegation]
    /\ UNCHANGED <<free_allocators, jobs, worker_results, chunks_cache, requests,
                   setup_and_teardown_chunks, cycles_chunks>>

Call(b) == stage[b] = "idle" /\ GetResults(b, IF Api[b] = "prove" THEN "prove" ELSE "commit")

CallAgain(b) == stage[b] = "committed" /\ GetResults(b, "prove")

SendCached(b) ==
    /\ proving(b)
    /\ \E r \in chunks_cache[b] :
          /\ SendRequest(b, r)
          /\ chunks_cache' = [chunks_cache EXCEPT ![b] = @ \ {r}]
    /\ main_count' = [main_count EXCEPT ![b] = @ + 1]
    /\ UNCHANGED <<workerVars, stage, final_main_chunks_count, final_delegation_chunks_counts,
                   setup_and_teardown_chunks, cycles_chunks, main_sender, delegation_sender,
                   spawned, main_results, delegation_results>>

Spawn(b) ==
    /\ InGetResults(b)
    /\ proving(b) => chunks_cache[b] = {}
    /\ spawned[b] < CyclesWorkers + 2
    /\ jobs' = Append(jobs, [batch |-> b, worker |-> spawned[b]])
    /\ spawned' = [spawned EXCEPT ![b] = @ + 1]
    /\ UNCHANGED <<free_allocators, worker_results, skip_set, ram, cycles, delegation, stage,
                   chunks_cache, requests, main_count, final_main_chunks_count,
                   final_delegation_chunks_counts, setup_and_teardown_chunks, cycles_chunks,
                   main_sender, delegation_sender, main_results, delegation_results>>

----------------------------------------------------------------------------
(* The loop over the results.  After each of them the main sender is dropped *)
(* once as many main requests were sent as there are chunks.                 *)

Received(b, kind) ==
    /\ InGetResults(b)
    /\ spawned[b] = CyclesWorkers + 2
    /\ worker_results[b] # <<>>
    /\ Head(worker_results[b]).kind = kind
    /\ worker_results' = [worker_results EXCEPT ![b] = Tail(@)]
    /\ UNCHANGED <<jobs, skip_set, ram, cycles, delegation, stage, spawned>>

\* The sender goes when the number of chunks is known.
DropMainSender_First(b) ==
    main_sender' = [main_sender EXCEPT ![b] =
        IF @ = "open" /\ final_main_chunks_count'[b] # {} THEN "dropped" ELSE @]

\* The end of the loop's body.
DropMainSender(b) ==
    main_sender' = [main_sender EXCEPT ![b] =
        IF @ = "open" /\ final_main_chunks_count'[b] = {main_count'[b]} THEN "dropped" ELSE @]

\* Both halves of a request are counted.
SendMain_CountsTwice(b, index, allocators) ==
    /\ SendRequest(b, MainRequest(index, allocators))
    /\ main_count' = [main_count EXCEPT ![b] = @ + 2]

SendMain(b, index, allocators) ==
    /\ SendRequest(b, MainRequest(index, allocators))
    /\ main_count' = [main_count EXCEPT ![b] = @ + 1]

ReceiveSetup(b) ==
    LET chunk == Head(worker_results[b])
        index == chunk.index
    IN  /\ Received(b, "setup_and_teardown")
        /\ IF index \in cycles_chunks[b]
           THEN /\ SendMain(b, index, chunk.allocators)
                /\ cycles_chunks' = [cycles_chunks EXCEPT ![b] = @ \ {index}]
                /\ UNCHANGED setup_and_teardown_chunks
           ELSE /\ setup_and_teardown_chunks' = [setup_and_teardown_chunks EXCEPT ![b] =
                                                    with_type(@, index, chunk.allocators)]
                /\ UNCHANGED <<requests, main_count, cycles_chunks>>
        /\ UNCHANGED final_main_chunks_count
        /\ DropMainSender(b)
        /\ UNCHANGED <<free_allocators, chunks_cache, final_delegation_chunks_counts,
                       delegation_sender, main_results, delegation_results>>

ReceiveCycles(b) ==
    LET index == Head(worker_results[b]).index IN
    /\ Received(b, "cycles")
    /\ IF index \in DOMAIN setup_and_teardown_chunks[b]
       THEN /\ SendMain(b, index, setup_and_teardown_chunks[b][index])
            /\ setup_and_teardown_chunks' = [setup_and_teardown_chunks EXCEPT ![b] =
                                                without_type(@, index)]
            /\ UNCHANGED cycles_chunks
       ELSE /\ cycles_chunks' = [cycles_chunks EXCEPT ![b] = @ \cup {index}]
            /\ UNCHANGED <<requests, main_count, setup_and_teardown_chunks>>
    /\ UNCHANGED final_main_chunks_count
    /\ DropMainSender(b)
    /\ UNCHANGED <<free_allocators, chunks_cache, final_delegation_chunks_counts,
                   delegation_sender, main_results, delegation_results>>

\* RAMTracingResult and CyclesTracingResult give the number of chunks.
ReceiveCount(b, kind) ==
    /\ Received(b, kind)
    /\ final_main_chunks_count' =
          [final_main_chunks_count EXCEPT ![b] = {Head(worker_results[b]).count}]
    /\ UNCHANGED main_count
    /\ DropMainSender(b)
    /\ UNCHANGED <<free_allocators, chunks_cache, requests, final_delegation_chunks_counts,
                   setup_and_teardown_chunks, cycles_chunks, delegation_sender, main_results,
                   delegation_results>>

\* The buffer of an empty witness goes back at once.
ReceiveWitness(b) ==
    LET witness == Head(worker_results[b]) IN
    /\ Received(b, "witness")
    /\ IF witness.is_empty
       THEN /\ free_allocators' = free_allocators + 1
            /\ UNCHANGED requests
       ELSE /\ SendRequest(b, DelegationRequest(witness.type, witness.sequence))
            /\ UNCHANGED free_allocators
    /\ UNCHANGED <<main_count, final_main_chunks_count>>
    /\ DropMainSender(b)
    /\ UNCHANGED <<chunks_cache, final_delegation_chunks_counts, setup_and_teardown_chunks,
                   cycles_chunks, delegation_sender, main_results, delegation_results>>

ReceiveDelegationResult(b) ==
    /\ Received(b, "delegation_result")
    /\ final_delegation_chunks_counts' =
          [final_delegation_chunks_counts EXCEPT ![b] = {Head(worker_results[b]).counts}]
    /\ delegation_sender' = [delegation_sender EXCEPT ![b] = "dropped"]
    /\ UNCHANGED <<main_count, final_main_chunks_count>>
    /\ DropMainSender(b)
    /\ UNCHANGED <<free_allocators, chunks_cache, requests, setup_and_teardown_chunks,
                   cycles_chunks, main_results, delegation_results>>

\* Only the buffer of the cycles is given back.
ReceiveMain_CyclesOnly(b) ==
    LET request == Head(worker_results[b]).request
        cached == ~proving(b) /\ Cardinality(chunks_cache[b]) < cache_capacity(b)
    IN  /\ Received(b, "answer")
        /\ request.kind = "main"
        /\ IF cached
           THEN /\ chunks_cache' = [chunks_cache EXCEPT ![b] = @ \cup {request}]
                /\ UNCHANGED free_allocators
           ELSE /\ free_allocators' = free_allocators + 1
                /\ UNCHANGED chunks_cache
        /\ main_results' = [main_results EXCEPT ![b] = @ \cup {request.sequence}]
        /\ UNCHANGED <<main_count, final_main_chunks_count>>
        /\ DropMainSender(b)
        /\ UNCHANGED <<requests, final_delegation_chunks_counts, setup_and_teardown_chunks,
                       cycles_chunks, delegation_sender, delegation_results>>

\* The cache counts as full one entry early.
ReceiveMain_SmallCache(b) ==
    LET request == Head(worker_results[b]).request
        cached == ~proving(b) /\ Cardinality(chunks_cache[b]) < cache_capacity(b) - 1
    IN  /\ Received(b, "answer")
        /\ request.kind = "main"
        /\ IF cached
           THEN /\ chunks_cache' = [chunks_cache EXCEPT ![b] = @ \cup {request}]
                /\ UNCHANGED free_allocators
           ELSE /\ free_allocators' = free_allocators + request.allocators
                /\ UNCHANGED chunks_cache
        /\ main_results' = [main_results EXCEPT ![b] = @ \cup {request.sequence}]
        /\ UNCHANGED <<main_count, final_main_chunks_count>>
        /\ DropMainSender(b)
        /\ UNCHANGED <<requests, final_delegation_chunks_counts, setup_and_teardown_chunks,
                       cycles_chunks, delegation_sender, delegation_results>>

\* MemoryCommitment or Proof of a main chunk: a commitment's trace goes into the
\* cache while there is room, else the buffers go back to the pool.
ReceiveMain(b) ==
    LET request == Head(worker_results[b]).request
        cached == ~proving(b) /\ Cardinality(chunks_cache[b]) < cache_capacity(b)
    IN  /\ Received(b, "answer")
        /\ request.kind = "main"
        /\ IF cached
           THEN /\ chunks_cache' = [chunks_cache EXCEPT ![b] = @ \cup {request}]
                /\ UNCHANGED free_allocators
           ELSE /\ free_allocators' = free_allocators + request.allocators
                /\ UNCHANGED chunks_cache
        /\ main_results' = [main_results EXCEPT ![b] = @ \cup {request.sequence}]
        /\ UNCHANGED <<main_count, final_main_chunks_count>>
        /\ DropMainSender(b)
        /\ UNCHANGED <<requests, final_delegation_chunks_counts, setup_and_teardown_chunks,
                       cycles_chunks, delegation_sender, delegation_results>>

ReceiveDelegation(b) ==
    LET request == Head(worker_results[b]).request IN
    /\ Received(b, "answer")
    /\ request.kind = "delegation"
    /\ free_allocators' = free_allocators + request.allocators
    /\ delegation_results' =
          [delegation_results EXCEPT ![b] = @ \cup {<<request.type, request.sequence>>}]
    /\ UNCHANGED <<main_count, final_main_chunks_count>>
    /\ DropMainSender(b)
    /\ UNCHANGED <<chunks_cache, requests, final_delegation_chunks_counts,
                   setup_and_teardown_chunks, cycles_chunks, delegation_sender, main_results>>

\* Only the workers' senders are waited for.
LoopOver_WorkersOnly(b) ==
    /\ InGetResults(b)
    /\ spawned[b] = CyclesWorkers + 2
    /\ worker_results[b] = <<>>
    /\ WorkersDone(b)

\* Every sender is gone: those of the workers, and that of the GPU manager, which
\* goes when both request senders are and every request is answered.
LoopOver(b) ==
    /\ InGetResults(b)
    /\ spawned[b] = CyclesWorkers + 2
    /\ worker_results[b] = <<>>
    /\ WorkersDone(b)
    /\ main_sender[b] = "dropped"
    /\ delegation_sender[b] = "dropped"
    /\ requests[b] = {}

\* It returns when its workers are done.
Return_WorkersOnly(b) ==
    /\ LoopOver_WorkersOnly(b)
    /\ stage' = [stage EXCEPT ![b] =
          IF Api[b] = "commit_memory_and_prove" /\ @ = "commit" THEN "committed" ELSE "returned"]
    /\ UNCHANGED <<workerVars, chunks_cache, requests, main_count, final_main_chunks_count,
                   final_delegation_chunks_counts, setup_and_teardown_chunks, cycles_chunks,
                   main_sender, delegation_sender, spawned, main_results, delegation_results>>

\* get_results returns; commit_memory_and_prove will call it again.
Return(b) ==
    /\ LoopOver(b)
    /\ stage' = [stage EXCEPT ![b] =
          IF Api[b] = "commit_memory_and_prove" /\ @ = "commit" THEN "committed" ELSE "returned"]
    /\ UNCHANGED <<workerVars, chunks_cache, requests, main_count, final_main_chunks_count,
                   final_delegation_chunks_counts, setup_and_teardown_chunks, cycles_chunks,
                   main_sender, delegation_sender, spawned, main_results, delegation_results>>

----------------------------------------------------------------------------
(* The GPU manager *)

Answer(b) ==
    /\ \E r \in requests[b] :
          /\ requests' = [requests EXCEPT ![b] = @ \ {r}]
          /\ Send(b, [kind |-> "answer", request |-> r])
    /\ UNCHANGED <<free_allocators, jobs, skip_set, ram, cycles, delegation, stage,
                   chunks_cache, main_count, final_main_chunks_count,
                   final_delegation_chunks_counts, setup_and_teardown_chunks, cycles_chunks,
                   main_sender, delegation_sender, spawned, main_results, delegation_results>>

ProverStep(b) ==
    \/ Call(b) \/ CallAgain(b) \/ SendCached(b) \/ Spawn(b) \/ Return(b)
    \/ ReceiveSetup(b) \/ ReceiveCycles(b) \/ ReceiveWitness(b) \/ ReceiveDelegationResult(b)
    \/ ReceiveCount(b, "ram_result") \/ ReceiveCount(b, "cycles_result")
    \/ ReceiveMain(b) \/ ReceiveDelegation(b)

Next ==
    \E b \in Batches :
        \/ WorkerStep(b) /\ UNCHANGED proverVars
        \/ ProverStep(b)
        \/ Answer(b)

\* A GPU keeps up to two requests in its pipeline until others push them out or
\* their batch sends no more.
PipelinesFull == SumFunction([b \in Batches |-> Cardinality(requests[b])]) > 2 * device_count

RequestsClosed(b) == main_sender[b] = "dropped" /\ delegation_sender[b] = "dropped"

\* Threads that can run eventually do, and the GPU manager answers when it must.
Fairness ==
    /\ \A b \in Batches :
          /\ WF_vars(ProverStep(b))
          /\ WF_vars(RamStep(b) /\ UNCHANGED proverVars)
          /\ \A w \in Splits : WF_vars(CyclesStep(b, w) /\ UNCHANGED proverVars)
          /\ WF_vars(DelegationStep(b) /\ UNCHANGED proverVars)
          /\ WF_vars(RequestsClosed(b) /\ Answer(b))
    /\ WF_vars(PipelinesFull /\ \E b \in Batches : Answer(b))

Spec == Init /\ [][Next]_vars

FairSpec == Spec /\ Fairness

----------------------------------------------------------------------------
(* Properties *)

Chunks(b) == 0 .. Program[b].chunks - 1

Messages(b) == {worker_results[b][i] : i \in 1 .. Len(worker_results[b])}

\* Every variable has its type.
TypeOK ==
    /\ free_allocators \in 0 .. total_allocators_count
    /\ \A b \in Batches :
          /\ stage[b] \in {"idle", "commit", "committed", "prove", "returned"}
          /\ skip_set[b] \subseteq Chunks(b)
          /\ ram[b] \in [at : {"simulate", "collect", "done"},
                         traced : 0 .. Program[b].chunks, next : 0 .. Program[b].chunks]
          /\ \A w \in Splits : cycles[b][w] \in [at : {"next", "tracing", "done"},
                                                 index : 0 .. Program[b].chunks]
          /\ DOMAIN delegation[b].filled \subseteq DelegationTypes
          /\ main_count[b] \in 0 .. Program[b].chunks
          /\ final_main_chunks_count[b] \subseteq {Program[b].chunks}
          /\ DOMAIN setup_and_teardown_chunks[b] \subseteq Chunks(b)
          /\ cycles_chunks[b] \subseteq Chunks(b)
          /\ main_results[b] \subseteq Chunks(b)

\* The worker that traces RAM has as many chunks left over as the touched words
\* need, after each chunk and at the end: the assert_eq! before it collects them
\* holds.
SetupsFit ==
    [][\A b \in Batches : ram[b].at = "simulate" =>
          ram'[b].traced - ram'[b].next = Program[b].needed[ram'[b].traced]]_vars

\* Buffers that a message carries
Buffers(m) ==
    CASE m.kind = "setup_and_teardown" -> m.allocators
      [] m.kind \in {"cycles", "witness"} -> 1
      [] m.kind = "answer" -> m.request.allocators
      [] OTHER -> 0

\* Buffers that a batch holds outside the pool.
HeldInMessages(b) ==
    SumFunction([i \in 1 .. Len(worker_results[b]) |-> Buffers(worker_results[b][i])])

HeldByWorkers(b) ==
    Cardinality({w \in Splits : cycles[b][w].at = "tracing"})
        + Cardinality(DOMAIN delegation[b].filled)

HeldByProver(b) ==
    SumFunction(setup_and_teardown_chunks[b]) + Cardinality(cycles_chunks[b])
        + SumFunction([r \in requests[b] |-> r.allocators])
        + SumFunction([r \in chunks_cache[b] |-> r.allocators])

\* No host buffer is lost or given back twice on any path from the pool through
\* the workers, the pairing, the GPUs and the cache; when all calls have returned
\* the pool is full again.
BuffersConserved ==
    free_allocators
        + SumFunction([b \in Batches |-> HeldInMessages(b) + HeldByWorkers(b) + HeldByProver(b)])
        = total_allocators_count

\* Once the main request sender is dropped no chunk is left that would need it,
\* be it unpaired, on its way, or not traced yet; the same for delegations.  So
\* no unwrap() of a sender in get_results fails.
SendersOutlastChunks ==
    \A b \in Batches : InGetResults(b) =>
        /\ main_sender[b] = "dropped" =>
              /\ cycles_chunks[b] = {} /\ DOMAIN setup_and_teardown_chunks[b] = {}
              /\ \A m \in Messages(b) : m.kind \notin {"cycles", "setup_and_teardown"}
              /\ \A w \in Splits : \A i \in cycles[b][w].index .. Program[b].chunks - 1 :
                    i % CyclesWorkers = w => i \in skip_set[b]
              /\ \A i \in ram[b].next .. Program[b].chunks - 1 : i \in skip_set[b]
        /\ delegation_sender[b] = "dropped" =>
              /\ delegation[b].at = "done"
              /\ \A m \in Messages(b) : m.kind # "witness"

\* What get_results asserts after its loop: every chunk was paired and every
\* chunk, traced now or taken from the cache, got exactly one result.
AllChunksAnswered ==
    \A b \in Batches : LoopOver(b) =>
        /\ DOMAIN setup_and_teardown_chunks[b] = {} /\ cycles_chunks[b] = {}
        /\ final_main_chunks_count[b] = {Program[b].chunks}
        /\ main_results[b] = Chunks(b) /\ main_count[b] = Program[b].chunks
        /\ \A counts \in final_delegation_chunks_counts[b] : \A d \in DOMAIN counts :
              counts[d] = Cardinality({r \in delegation_results[b] : r[1] = d}) /\ counts[d] > 0
        /\ final_delegation_chunks_counts[b] # {}

\* What commit_memory_and_prove asserts of the cache between its two halves.
CacheFilled ==
    \A b \in Batches : LoopOver(b) /\ stage[b] = "commit" =>
        Cardinality(chunks_cache[b]) =
            IF Program[b].chunks < cache_capacity(b) THEN Program[b].chunks ELSE cache_capacity(b)

\* Every call returns: "the prover will work with more batches if needed, but it
\* can stall certain operations for some time" (doc comment of new).
CallsReturn == \A b \in Batches : <>(stage[b] = "returned")
=============================================================================
