----------------------------- MODULE GpuManager ----------------------------
(***************************************************************************)
(* The GPU manager thread of gpu_prover/src/execution/gpu_manager.rs, its  *)
(* GPU workers, and the provers that use it as far as the manager can see  *)
(* them: a prover opens a batch, sends requests, drops the request sender  *)
(* and waits until the manager drops the result sender.                    *)
(*                                                                         *)
(* The manager blocks in a Select over all its channels ("select"), serves *)
(* the one operation it picked, and then hands queued requests to workers  *)
(* that happen to be waiting ("distribute") before it selects again.       *)
(***************************************************************************)
EXTENDS GpuWorker

CONSTANT MaxOpened  \* bound: how many batches are opened, identifiers may be used again

ASSUME MaxOpenedAssumption == MaxOpened \in Nat \ {0}

VARIABLES
    manager_state,     \* where the manager's thread is
    batches,           \* the channel of new batches, holding their identifiers
    batches_sender,    \* "None" once GpuManager is dropped, else "Some"
    batches_receiver,  \* "None" once the manager saw that channel closed
    batch_receivers,   \* the batches whose request channel is open for the manager
    batch_senders,     \* the batches whose result sender the manager holds
    work_queue,        \* requests received and not handed to a worker yet
    batches_to_flush,  \* batches that will send no more requests
    worker_queues,     \* per worker, the batch of everything in its pipeline
    prover_state,      \* per batch, what its prover is doing
    requests,          \* per batch, its request channel
    sent,              \* per batch, how many requests were sent since it was opened
    results,           \* per batch, the results received since it was opened
    opened             \* how many batches were opened

managerVars == <<manager_state, batches_receiver, batch_receivers, batch_senders,
                 work_queue, batches_to_flush, worker_queues>>
proverVars == <<batches_sender, prover_state, sent, opened>>
channelVars == <<batches, requests, results>>
vars == <<workerVars, managerVars, proverVars, channelVars>>

Item == Batches \cup {None}

Init ==
    /\ WorkerInit
    /\ manager_state = "init"
    /\ batches = <<>>
    /\ batches_sender = "Some"
    /\ batches_receiver = "Some"
    /\ batch_receivers = {}
    /\ batch_senders = {}
    /\ work_queue = <<>>
    /\ batches_to_flush = {}
    /\ worker_queues = [w \in Workers |-> <<None, None>>]
    /\ prover_state = [b \in Batches |-> "idle"]
    /\ requests = [b \in Batches |-> <<>>]
    /\ sent = [b \in Batches |-> 0]
    /\ results = [b \in Batches |-> {}]
    /\ opened = 0

----------------------------------------------------------------------------
(* The provers, one for each open batch *)

\* get_results hands the batch's two channel ends to the manager.
OpenBatch(b) ==
    /\ prover_state[b] = "idle"
    /\ opened < MaxOpened
    /\ batches_sender = "Some"
    /\ manager_state # "init"
    /\ batches' = Append(batches, b)
    /\ prover_state' = [prover_state EXCEPT ![b] = "open"]
    /\ sent' = [sent EXCEPT ![b] = 0]
    /\ results' = [results EXCEPT ![b] = {}]
    /\ opened' = opened + 1
    /\ UNCHANGED <<workerVars, managerVars, batches_sender, requests>>

SendRequest(b) ==
    /\ prover_state[b] = "open"
    /\ sent[b] < MaxRequests
    /\ sent' = [sent EXCEPT ![b] = @ + 1]
    /\ requests' = [requests EXCEPT ![b] = Append(@, [batch |-> b, seq |-> sent[b] + 1])]
    /\ UNCHANGED <<workerVars, managerVars, batches_sender, prover_state, opened,
                   batches, results>>

\* The last clone of the request sender is dropped.  A batch has at least one
\* main chunk, so at least one request was sent.
CloseRequests(b) ==
    /\ prover_state[b] = "open"
    /\ sent[b] > 0
    /\ prover_state' = [prover_state EXCEPT ![b] = "closed"]
    /\ UNCHANGED <<workerVars, managerVars, batches_sender, sent, opened, channelVars>>

\* The prover does not wait for the channel to end.
FinishBatch_NoWait(b) ==
    /\ prover_state[b] = "closed"
    /\ prover_state' = [prover_state EXCEPT ![b] = "idle"]
    /\ UNCHANGED <<workerVars, managerVars, batches_sender, sent, opened, channelVars>>

\* The manager dropped the batch's result sender, so the loop over the
\* results ends.  Until then the sender is in the channel or in the manager.
FinishBatch(b) ==
    /\ prover_state[b] = "closed"
    /\ \A i \in 1 .. Len(batches) : batches[i] # b
    /\ b \notin batch_senders
    /\ prover_state' = [prover_state EXCEPT ![b] = "idle"]
    /\ UNCHANGED <<workerVars, managerVars, batches_sender, sent, opened, channelVars>>

\* ExecutionProver is dropped: no call of get_results is in progress.
DropManager ==
    /\ batches_sender = "Some"
    /\ manager_state # "init"
    /\ \A b \in Batches : prover_state[b] = "idle"
    /\ batches_sender' = "None"
    /\ UNCHANGED <<workerVars, managerVars, prover_state, sent, opened, channelVars>>

----------------------------------------------------------------------------
(* The manager *)

\* All workers reported that they are initialized.
ManagerInitialized ==
    /\ manager_state = "init"
    /\ \A w \in Workers : worker_state[w] \in {"ready", "recv"}
    /\ manager_state' = "select"
    /\ UNCHANGED <<workerVars, batches_receiver, batch_receivers, batch_senders,
                   work_queue, batches_to_flush, worker_queues, proverVars, channelVars>>

ReceiveBatch ==
    /\ manager_state = "select"
    /\ batches_receiver = "Some"
    /\ batches # <<>>
    /\ batches' = Tail(batches)
    /\ batch_receivers' = batch_receivers \cup {Head(batches)}
    /\ batch_senders' = batch_senders \cup {Head(batches)}
    /\ manager_state' = "distribute"
    /\ UNCHANGED <<workerVars, batches_receiver, work_queue, batches_to_flush,
                   worker_queues, proverVars, requests, results>>

\* The closed channel is noticed but stays in the Select.
BatchesClosed_Kept ==
    /\ manager_state = "select"
    /\ batches_receiver = "Some"
    /\ batches = <<>>
    /\ batches_sender = "None"
    /\ manager_state' = "distribute"
    /\ UNCHANGED <<workerVars, batches_receiver, batch_receivers, batch_senders,
                   work_queue, batches_to_flush, worker_queues, proverVars, channelVars>>

BatchesClosed ==
    /\ manager_state = "select"
    /\ batches_receiver = "Some"
    /\ batches = <<>>
    /\ batches_sender = "None"
    /\ batches_receiver' = "None"
    /\ manager_state' = "distribute"
    /\ UNCHANGED <<workerVars, batch_receivers, batch_senders, work_queue,
                   batches_to_flush, worker_queues, proverVars, channelVars>>

ReceiveRequest(b) ==
    /\ manager_state = "select"
    /\ b \in batch_receivers
    /\ requests[b] # <<>>
    /\ work_queue' = Append(work_queue, Head(requests[b]))
    /\ requests' = [requests EXCEPT ![b] = Tail(@)]
    /\ manager_state' = "distribute"
    /\ UNCHANGED <<workerVars, batches_receiver, batch_receivers, batch_senders,
                   batches_to_flush, worker_queues, proverVars, batches, results>>

\* The batch is not flushed once its request channel is closed.
RequestsClosed_NoFlush(b) ==
    /\ manager_state = "select"
    /\ b \in batch_receivers
    /\ requests[b] = <<>>
    /\ prover_state[b] = "closed"
    /\ batch_receivers' = batch_receivers \ {b}
    /\ manager_state' = "distribute"
    /\ UNCHANGED <<workerVars, batches_receiver, batch_senders, work_queue,
                   batches_to_flush, worker_queues, proverVars, channelVars>>

\* Closing is noticed before the requests still in the channel are taken.
RequestsClosed_Early(b) ==
    /\ manager_state = "select"
    /\ b \in batch_receivers
    /\ prover_state[b] = "closed"
    /\ batch_receivers' = batch_receivers \ {b}
    /\ batches_to_flush' = batches_to_flush \cup {b}
    /\ manager_state' = "distribute"
    /\ UNCHANGED <<workerVars, batches_receiver, batch_senders, work_queue,
                   worker_queues, proverVars, channelVars>>

\* The prover dropped its sender and every request was taken: from now on the
\* batch is flushed.
RequestsClosed(b) ==
    /\ manager_state = "select"
    /\ b \in batch_receivers
    /\ requests[b] = <<>>
    /\ prover_state[b] = "closed"
    /\ batch_receivers' = batch_receivers \ {b}
    /\ batches_to_flush' = batches_to_flush \cup {b}
    /\ manager_state' = "distribute"
    /\ UNCHANGED <<workerVars, batches_receiver, batch_senders, work_queue,
                   worker_queues, proverVars, channelVars>>

\* Requests that no worker has yet are not looked at.
Drained_PipelinesOnly(b, queue, queues) ==
    \A w \in Workers : \A i \in 1 .. Len(queues[w]) : queues[w][i] # b

\* Nothing of the batch is left in the given queues.
Drained(b, queue, queues) ==
    /\ \A i \in 1 .. Len(queue) : queue[i].batch # b
    /\ \A w \in Workers : \A i \in 1 .. Len(queues[w]) : queues[w][i] # b

\* A result (or none) arrives from a worker.  It is passed on to its batch,
\* and a batch that is being flushed and has nothing left is complete.
ReceiveResult(w) ==
    LET queues == [worker_queues EXCEPT ![w] = Tail(@)]
        b == Head(worker_queues[w])
        completed == /\ result[w] # None
                     /\ b \in batches_to_flush
                     /\ Drained(b, work_queue, queues)
        done == IF completed THEN {b} ELSE {}
    IN  /\ manager_state = "select"
        /\ GiveResult(w)
        /\ worker_queues' = queues
        /\ results' = IF result[w] = None THEN results
                      ELSE [results EXCEPT ![b] = @ \cup {result[w]}]
        /\ batches_to_flush' = batches_to_flush \ done
        /\ batch_senders' = batch_senders \ done
        /\ manager_state' = "distribute"
        /\ UNCHANGED <<batches_receiver, batch_receivers, work_queue, proverVars,
                       batches, requests>>

\* An empty pipeline is advanced as well.
Advance_Empty(w) ==
    /\ Len(worker_queues[w]) = 2
    /\ worker_queues[w][1] = None

\* An idle-looking worker whose phase one would otherwise never start.
Advance(w) ==
    /\ Len(worker_queues[w]) = 2
    /\ worker_queues[w][1] = None
    /\ worker_queues[w][2] # None

Flush(w) == \E i \in 1 .. Len(worker_queues[w]) : worker_queues[w][i] \in batches_to_flush

HandRequest(w) ==
    /\ TakeRequest(w, Head(work_queue))
    /\ worker_queues' = [worker_queues EXCEPT ![w] = Append(@, Head(work_queue).batch)]
    /\ work_queue' = Tail(work_queue)

\* The Select picked a send to a worker: the oldest request, or nothing but a
\* push of the worker's pipeline.
SelectRequest(w) ==
    /\ manager_state = "select"
    /\ work_queue # <<>>
    /\ HandRequest(w)
    /\ manager_state' = "distribute"
    /\ UNCHANGED <<batches_receiver, batch_receivers, batch_senders,
                   batches_to_flush, proverVars, channelVars>>

PushPipeline(w) ==
    /\ manager_state = "select"
    /\ work_queue = <<>>
    /\ Advance(w) \/ Flush(w)
    /\ TakeRequest(w, None)
    /\ worker_queues' = [worker_queues EXCEPT ![w] = Append(@, None)]
    /\ manager_state' = "distribute"
    /\ UNCHANGED <<batches_receiver, batch_receivers, batch_senders, work_queue,
                   batches_to_flush, proverVars, channelVars>>

\* The order of VecDeque<Option<u64>>: lexicographic, None below Some.
Rank(item) == IF item = None THEN -1 ELSE item

QueueLess(p, q) ==
    \E k \in 1 .. Len(q) :
        /\ \A i \in 1 .. (k - 1) : i <= Len(p) /\ p[i] = q[i]
        /\ k <= Len(p) => Rank(p[k]) < Rank(q[k])

\* Workers are offered a request in the order of their queues, ties by index.
Before(v, w) ==
    \/ QueueLess(worker_queues[v], worker_queues[w])
    \/ worker_queues[v] = worker_queues[w] /\ v < w

Distribute(w) ==
    /\ manager_state = "distribute"
    /\ work_queue # <<>>
    /\ \A v \in Workers \ {w} : worker_state[v] = "recv" => ~Before(v, w)
    /\ HandRequest(w)
    /\ UNCHANGED <<manager_state, batches_receiver, batch_receivers, batch_senders,
                   batches_to_flush, proverVars, channelVars>>

\* Nothing to hand out or nobody waiting: select again, unless no batch is
\* open and none can come.
DistributeDone ==
    /\ manager_state = "distribute"
    /\ work_queue = <<>> \/ \A w \in Workers : worker_state[w] # "recv"
    /\ manager_state' = IF batches_receiver = "None" /\ batch_senders = {}
                        THEN "finished" ELSE "select"
    /\ UNCHANGED <<workerVars, batches_receiver, batch_receivers, batch_senders,
                   work_queue, batches_to_flush, worker_queues, proverVars, channelVars>>

----------------------------------------------------------------------------
WorkerStep(w) ==
    /\ \/ ComputeSetups(w)
       \/ SetupsReady(w)
       \/ AwaitRequest(w)
       \/ ProcessRequest(w)
       \/ manager_state = "finished" /\ WorkerExit(w)
    /\ UNCHANGED <<managerVars, proverVars, channelVars>>

ManagerStep ==
    \/ ManagerInitialized
    \/ ReceiveBatch
    \/ BatchesClosed
    \/ \E b \in Batches : ReceiveRequest(b) \/ RequestsClosed(b)
    \/ \E w \in Workers : ReceiveResult(w) \/ SelectRequest(w) \/ PushPipeline(w)
    \/ \E w \in Workers : Distribute(w)
    \/ DistributeDone

ProverStep(b) == SendRequest(b) \/ CloseRequests(b) \/ FinishBatch(b)

Next ==
    \/ \E w \in Workers : WorkerStep(w)
    \/ ManagerStep
    \/ \E b \in Batches : OpenBatch(b) \/ ProverStep(b)
    \/ DropManager

Spec == Init /\ [][Next]_vars

\* Threads that can run eventually do.  Nothing makes a caller open a batch or
\* drop the prover, so OpenBatch and DropManager are not fair.
Fairness ==
    /\ \A w \in Workers : WF_vars(WorkerStep(w))
    /\ WF_vars(ManagerStep)
    /\ \A b \in Batches : WF_vars(ProverStep(b))

FairSpec == Spec /\ Fairness

----------------------------------------------------------------------------
(* Properties *)

\* Every variable has its type.
TypeOK ==
    /\ WorkerTypeOK
    /\ manager_state \in {"init", "select", "distribute", "finished"}
    /\ batches \in Seq(Batches)
    /\ batches_sender \in {"Some", "None"}
    /\ batches_receiver \in {"Some", "None"}
    /\ batch_receivers \subseteq Batches
    /\ batch_senders \subseteq Batches
    /\ work_queue \in Seq(Request)
    /\ batches_to_flush \subseteq Batches
    /\ worker_queues \in [Workers -> Seq(Item)]
    /\ prover_state \in [Batches -> {"idle", "open", "closed"}]
    /\ requests \in [Batches -> Seq(Request)]
    /\ sent \in [Batches -> 0 .. MaxRequests]
    /\ results \in [Batches -> SUBSET Request]
    /\ opened \in 0 .. MaxOpened

BatchOf(r) == IF r = None THEN None ELSE r.batch

\* The manager's queue for a worker is, item by item, what is in the worker's
\* pipeline, although the two change in different threads.  So the item popped
\* with a result names the batch of that result: item.unwrap() and the
\* assert_eq!s on batch_id in the result arm cannot fail.
PipelineMirrored ==
    \A w \in Workers :
        /\ worker_state[w] = "busy" =>
              worker_queues[w] = <<BatchOf(current_phase_two[w]),
                                   BatchOf(current_phase_one[w]), BatchOf(request[w])>>
        /\ worker_state[w] = "send" =>
              worker_queues[w] = <<BatchOf(result[w]), BatchOf(current_phase_two[w]),
                                   BatchOf(current_phase_one[w])>>
        /\ worker_state[w] \notin {"busy", "send"} =>
              worker_queues[w] = <<BatchOf(current_phase_two[w]),
                                   BatchOf(current_phase_one[w])>>

\* The batches something of which is queued or in a worker's pipeline.
Outstanding ==
    {work_queue[i].batch : i \in 1 .. Len(work_queue)}
        \cup {b \in Batches : \E w \in Workers : \E i \in 1 .. Len(worker_queues[w]) :
                                worker_queues[w][i] = b}

\* While anything of a batch is queued or in a pipeline the manager holds the
\* batch's result sender: batch_senders[&batch_id] never misses.
SenderHeld == Outstanding \subseteq batch_senders

\* A batch identifier that is opened again, as commit_memory_and_prove does, is
\* never registered twice: the assert!s on insert in the new-batch arm hold.
RegisteredOnce ==
    \A i \in 1 .. Len(batches) :
        /\ batches[i] \notin batch_senders \cup batch_receivers
        /\ \A j \in 1 .. Len(batches) : batches[i] = batches[j] => i = j

\* Until the manager drops a batch's result sender the prover is in its loop over
\* the results, so a result never meets a dropped receiver: the unwrap of the
\* send, which would take down the manager of all provers, cannot fail.
ReceiversAlive ==
    /\ \A b \in batch_senders : prover_state[b] # "idle"
    /\ \A i \in 1 .. Len(batches) : prover_state[batches[i]] # "idle"

\* When the manager returns and drops its channel ends, no worker is processing
\* or blocked sending a result (its send would fail and panic), and every
\* pipeline is empty, as the worker asserts after its loop.
CleanExit ==
    manager_state = "finished" =>
        \A w \in Workers :
            /\ worker_state[w] \in {"ready", "recv", "exited"}
            /\ current_phase_one[w] = None
            /\ current_phase_two[w] = None

\* The manager and its workers keep the promise BatchService makes.
Service == INSTANCE BatchService WITH closed <- (batches_sender = "None")

ServiceSpec == Service!Spec

\* A prover that dropped its request sender eventually sees its result channel
\* end, so get_results returns.
BatchesComplete ==
    \A b \in Batches : prover_state[b] = "closed" ~> prover_state[b] = "idle"

OneAtATime == \A b, c \in Batches : b # c => "idle" \in {prover_state[b], prover_state[c]}

\* As long as there is never more than one batch at a time (max_concurrent_batches
\* is 1), every batch ends before the next one is opened.
SequentialBatchesComplete ==
    []OneAtATime =>
        (\E b \in Batches : prover_state[b] = "closed") ~> (\A b \in Batches : prover_state[b] = "idle")

\* Whoever creates or drops the manager gets on.  At the start every worker gets past
\* the setups it waits for from the other workers, so GpuManager is initialized; once
\* the prover is dropped, the manager returns and every worker exits, so
\* GpuManager's drop does not wait for ever.
StartsAndStops ==
    manager_state = "init" \/ batches_sender = "None"
        ~> /\ manager_state # "init"
           /\ batches_sender = "None" => \A w \in Workers : worker_state[w] = "exited"
=============================================================================
