-------------------------- MODULE GpuManagerProofs -------------------------
(***************************************************************************)
(* Theorems about GpuManager, for every number of devices, set of batches  *)
(* and number of requests.  The argument is one inductive invariant, IInv, *)
(* built from type correctness, the mirror between the manager's queues    *)
(* and the workers' pipelines, and the life cycle of a batch's channels.   *)
(***************************************************************************)
EXTENDS GpuManager, SequenceTheorems, TLAPS

\* The types of the head and the tail of a sequence.
LEMMA HeadTailType ==
    ASSUME NEW S, NEW q \in Seq(S), q # <<>>
    PROVE  /\ Tail(q) \in Seq(S)
           /\ Head(q) \in S
           /\ Len(q) \in Nat \ {0}
           /\ Len(Tail(q)) = Len(q) - 1
           /\ \A i \in 1 .. Len(Tail(q)) : Tail(q)[i] = q[i + 1]
           /\ Head(q) = q[1]
  BY HeadTailProperties

\* The type of a sequence with an element appended.
LEMMA AppendType ==
    ASSUME NEW S, NEW q \in Seq(S), NEW e \in S
    PROVE  /\ Append(q, e) \in Seq(S)
           /\ Len(Append(q, e)) = Len(q) + 1
           /\ \A i \in 1 .. Len(q) : Append(q, e)[i] = q[i]
           /\ Append(q, e)[Len(q) + 1] = e
  BY AppendProperties

\* A worker's queue is a pair, and a triple while the worker owes a result.
LEMMA PushPop ==
    ASSUME NEW a, NEW b, NEW c
    PROVE  /\ Append(<<a, b>>, c) = <<a, b, c>>
           /\ Tail(<<a, b, c>>) = <<b, c>>
           /\ Head(<<a, b, c>>) = a
  <1>1. <<a, b>> \in Seq({a, b, c})
    OBVIOUS
  <1>2. <<b, c>> \in Seq({a, b, c})
    OBVIOUS
  <1>3. <<a, b, c>> \in Seq({a, b, c})
    OBVIOUS
  <1>4. Append(<<a, b>>, c) = <<a, b, c>>
    <2> DEFINE q == Append(<<a, b>>, c)
    <2>1. /\ q \in Seq({a, b, c})
          /\ Len(q) = 3
          /\ q[1] = a /\ q[2] = b /\ q[3] = c
      BY <1>1, AppendType
    <2>2. \A i \in 1 .. Len(q) : q[i] = <<a, b, c>>[i]
      BY <2>1
    <2>3. QED
      BY <1>3, <2>1, <2>2, SeqEqual
  <1>5. Tail(<<a, b, c>>) = <<b, c>>
    BY <1>2, <1>3, HeadTailType, SeqEqual
  <1>6. Head(<<a, b, c>>) = a
    BY <1>3, HeadTailType
  <1>7. QED
    BY <1>4, <1>5, <1>6

Inv1 == TypeOK /\ PipelineMirrored

\* The batch of a request is a batch, and only an empty request has none.
LEMMA BatchOfType ==
    ASSUME NEW r \in Request \cup {None}
    PROVE  /\ BatchOf(r) \in Item
           /\ r # None => BatchOf(r) \in Batches
           /\ BatchOf(r) = None <=> r = None
  BY NoneAssumption DEF BatchOf, Item, Request

----------------------------------------------------------------------------
(* Types and the mirror between queues and pipelines *)

\* A step that leaves the workers and the manager's queues for them alone.
LEMMA MirrorFrame ==
    ASSUME PipelineMirrored, UNCHANGED <<workerVars, worker_queues>>
    PROVE  PipelineMirrored'
  BY DEF PipelineMirrored, workerVars

\* The types and the mirrored pipelines hold initially.
LEMMA Inv1Init == Init => Inv1
  <1> USE DevicesAssumption, BatchesAssumption, MaxRequestsAssumption,
          NumSetupsAssumption, MaxOpenedAssumption
  <1>1. Init => TypeOK
    BY DEF Init, TypeOK, WorkerInit, WorkerTypeOK, Workers, Item, WorkerStates
  <1>2. Init => PipelineMirrored
    BY DEF Init, WorkerInit, PipelineMirrored, BatchOf
  <1>3. QED
    BY <1>1, <1>2 DEF Inv1

\* The pipelines move only in a worker's own steps.
LEMMA Inv1WorkerStep ==
    ASSUME Inv1, NEW w \in Workers, WorkerStep(w)
    PROVE  Inv1'
  <1> USE DEF Inv1, TypeOK, WorkerTypeOK, WorkerStates
  <1>1. TypeOK'
    BY NumSetupsAssumption DEF WorkerStep, ComputeSetups, SetupsOf, SetupsReady, AwaitRequest,
       ProcessRequest, WorkerExit, managerVars, proverVars, channelVars
  <1>2. PipelineMirrored'
    <2>1. CASE ProcessRequest(w)
      <3>1. worker_queues[w] = <<BatchOf(current_phase_two[w]),
                                 BatchOf(current_phase_one[w]), BatchOf(request[w])>>
        BY <2>1 DEF ProcessRequest, PipelineMirrored
      <3> QED
        BY <2>1, <3>1 DEF PipelineMirrored, WorkerStep, ProcessRequest, managerVars
    <2>2. CASE ComputeSetups(w) \/ SetupsReady(w) \/ AwaitRequest(w) \/ WorkerExit(w)
      <3>1. /\ UNCHANGED <<request, current_phase_one, current_phase_two, result, worker_queues>>
            /\ \A v \in Workers \ {w} : worker_state'[v] = worker_state[v]
        BY <2>2 DEF WorkerStep, ComputeSetups, SetupsReady, AwaitRequest, WorkerExit, managerVars
      <3> QED
        BY <2>2, <3>1 DEF PipelineMirrored, ComputeSetups, SetupsReady, AwaitRequest, WorkerExit
    <2>3. QED
      BY <2>1, <2>2 DEF WorkerStep
  <1>3. QED
    BY <1>1, <1>2

\* Handing a worker a request, or nothing, extends its queue by that item.
LEMMA Inv1Push ==
    ASSUME Inv1, NEW w \in Workers, NEW r \in Request \cup {None}, TakeRequest(w, r),
           worker_queues' = [worker_queues EXCEPT ![w] = Append(@, BatchOf(r))]
    PROVE  WorkerTypeOK' /\ worker_queues' \in [Workers -> Seq(Item)] /\ PipelineMirrored'
  <1> USE DEF Inv1, TypeOK, WorkerTypeOK, WorkerStates
  <1>1. WorkerTypeOK'
    BY DEF TakeRequest
  <1>2. worker_queues' \in [Workers -> Seq(Item)]
    BY AppendType, BatchOfType
  <1>3. Append(worker_queues[w], BatchOf(r)) =
            <<BatchOf(current_phase_two[w]), BatchOf(current_phase_one[w]), BatchOf(r)>>
    <2>1. worker_queues[w] = <<BatchOf(current_phase_two[w]), BatchOf(current_phase_one[w])>>
      BY DEF TakeRequest, PipelineMirrored
    <2>2. Append(<<BatchOf(current_phase_two[w]), BatchOf(current_phase_one[w])>>,
                 BatchOf(r)) =
              <<BatchOf(current_phase_two[w]), BatchOf(current_phase_one[w]), BatchOf(r)>>
      BY PushPop, Zenon
    <2>3. QED
      BY <2>1, <2>2, Zenon
  <1>4. PipelineMirrored'
    BY <1>3 DEF TakeRequest, PipelineMirrored
  <1>5. QED
    BY <1>1, <1>2, <1>4

\* Taking a worker's result pops the item that stands for it.
LEMMA Inv1Pop ==
    ASSUME Inv1, NEW w \in Workers, GiveResult(w)
    PROVE  /\ worker_queues[w] # <<>>
           /\ Head(worker_queues[w]) = BatchOf(result[w])
           /\ Tail(worker_queues[w]) = <<BatchOf(current_phase_two[w]),
                                        BatchOf(current_phase_one[w])>>
           /\ Tail(worker_queues[w]) \in Seq(Item)
  <1>1. worker_queues[w] = <<BatchOf(result[w]), BatchOf(current_phase_two[w]),
                             BatchOf(current_phase_one[w])>>
    BY DEF Inv1, PipelineMirrored, GiveResult
  <1>2. /\ Head(worker_queues[w]) = BatchOf(result[w])
        /\ Tail(worker_queues[w]) = <<BatchOf(current_phase_two[w]),
                                     BatchOf(current_phase_one[w])>>
    BY <1>1, PushPop
  <1>3. worker_queues[w] # <<>>
    BY <1>1
  <1>4. Tail(worker_queues[w]) \in Seq(Item)
    BY <1>3, HeadTailType DEF Inv1, TypeOK
  <1>5. QED
    BY <1>2, <1>3, <1>4

\* Receiving a result keeps queues and pipelines in step.
LEMMA Inv1ReceiveResult ==
    ASSUME Inv1, NEW w \in Workers, ReceiveResult(w)
    PROVE  Inv1'
  <1>0. GiveResult(w)
    BY DEF ReceiveResult
  <1>1. /\ Head(worker_queues[w]) = BatchOf(result[w])
        /\ Tail(worker_queues[w]) = <<BatchOf(current_phase_two[w]),
                                     BatchOf(current_phase_one[w])>>
        /\ Tail(worker_queues[w]) \in Seq(Item)
        /\ result[w] # None => Head(worker_queues[w]) \in Batches
    BY <1>0, Inv1Pop, BatchOfType DEF Inv1, TypeOK, WorkerTypeOK
  <1>2. worker_queues' = [worker_queues EXCEPT ![w] = Tail(@)]
    BY DEF ReceiveResult
  <1>3. PipelineMirrored'
    BY <1>0, <1>1, <1>2
       DEF GiveResult, PipelineMirrored, Inv1, TypeOK, WorkerTypeOK, WorkerStates
  <1>4. results' \in [Batches -> SUBSET Request]
    BY <1>1 DEF ReceiveResult, Inv1, TypeOK, WorkerTypeOK
  <1>5. TypeOK'
    BY <1>0, <1>1, <1>2, <1>4
       DEF ReceiveResult, GiveResult, Inv1, TypeOK, WorkerTypeOK, WorkerStates, proverVars
  <1>6. QED
    BY <1>3, <1>5 DEF Inv1

\* Handing a request to a worker keeps queues and pipelines in step.
LEMMA Inv1Hand ==
    ASSUME Inv1, NEW w \in Workers, HandRequest(w), work_queue # <<>>
    PROVE  /\ WorkerTypeOK' /\ worker_queues' \in [Workers -> Seq(Item)]
           /\ PipelineMirrored' /\ work_queue' \in Seq(Request)
  <1>1. Head(work_queue) \in Request /\ Tail(work_queue) \in Seq(Request)
    BY HeadTailType DEF Inv1, TypeOK
  <1>2. BatchOf(Head(work_queue)) = Head(work_queue).batch
    BY <1>1, NoneAssumption DEF BatchOf
  <1>3. QED
    BY <1>1, <1>2, Inv1Push DEF HandRequest

\* Every step preserves Inv1.
LEMMA Inv1Next == Inv1 /\ [Next]_vars => Inv1'
  <1> SUFFICES ASSUME Inv1, [Next]_vars PROVE Inv1'
    OBVIOUS
  <1>1. ASSUME NEW w \in Workers, WorkerStep(w) PROVE Inv1'
    BY <1>1, Inv1WorkerStep
  <1>2. CASE ManagerInitialized \/ BatchesClosed \/ DistributeDone
    BY <1>2, MirrorFrame DEF ManagerInitialized, BatchesClosed, DistributeDone, Inv1, TypeOK,
       WorkerTypeOK, workerVars, proverVars, channelVars
  <1>3. CASE ReceiveBatch
    <2>1. Head(batches) \in Batches /\ Tail(batches) \in Seq(Batches)
      BY <1>3, HeadTailType DEF ReceiveBatch, Inv1, TypeOK
    <2>2. QED
      BY <1>3, <2>1, MirrorFrame DEF ReceiveBatch, Inv1, TypeOK, WorkerTypeOK, workerVars,
                                    proverVars
  <1>4. ASSUME NEW b \in Batches, ReceiveRequest(b) PROVE Inv1'
    <2>1. Head(requests[b]) \in Request /\ Tail(requests[b]) \in Seq(Request)
      BY <1>4, HeadTailType DEF ReceiveRequest, Inv1, TypeOK
    <2>2. Append(work_queue, Head(requests[b])) \in Seq(Request)
      BY <2>1, AppendType DEF Inv1, TypeOK
    <2>3. QED
      BY <1>4, <2>1, <2>2, MirrorFrame DEF ReceiveRequest, Inv1, TypeOK, WorkerTypeOK,
         workerVars, proverVars
  <1>5. ASSUME NEW b \in Batches, RequestsClosed(b) PROVE Inv1'
    BY <1>5, MirrorFrame DEF RequestsClosed, Inv1, TypeOK, WorkerTypeOK, workerVars,
                             proverVars, channelVars
  <1>6. ASSUME NEW w \in Workers, ReceiveResult(w) PROVE Inv1'
    BY <1>6, Inv1ReceiveResult
  <1>7. ASSUME NEW w \in Workers, SelectRequest(w) \/ Distribute(w) PROVE Inv1'
    <2>1. HandRequest(w) /\ work_queue # <<>>
      BY <1>7 DEF SelectRequest, Distribute
    <2>2. QED
      BY <1>7, <2>1, Inv1Hand DEF SelectRequest, Distribute, Inv1, TypeOK, proverVars,
                                  channelVars
  <1>8. ASSUME NEW w \in Workers, PushPipeline(w) PROVE Inv1'
    <2>1. /\ TakeRequest(w, None)
          /\ worker_queues' = [worker_queues EXCEPT ![w] = Append(@, BatchOf(None))]
      BY <1>8 DEF PushPipeline, BatchOf
    <2>2. /\ WorkerTypeOK' /\ worker_queues' \in [Workers -> Seq(Item)]
          /\ PipelineMirrored'
      BY <2>1, Inv1Push
    <2>3. QED
      BY <1>8, <2>2 DEF PushPipeline, Inv1, TypeOK, proverVars, channelVars
  <1>9. ASSUME NEW b \in Batches, OpenBatch(b) PROVE Inv1'
    <2>1. Append(batches, b) \in Seq(Batches)
      BY AppendType DEF Inv1, TypeOK
    <2>2. /\ prover_state' \in [Batches -> {"idle", "open", "closed"}]
          /\ sent' \in [Batches -> 0 .. MaxRequests]
      BY <1>9, MaxRequestsAssumption DEF OpenBatch, Inv1, TypeOK
    <2>3. opened' \in 0 .. MaxOpened
      BY <1>9, MaxOpenedAssumption DEF OpenBatch, Inv1, TypeOK
    <2>4. results' \in [Batches -> SUBSET Request]
      BY <1>9 DEF OpenBatch, Inv1, TypeOK
    <2>5. batches' \in Seq(Batches)
      BY <1>9, <2>1 DEF OpenBatch
    <2>6. UNCHANGED <<workerVars, managerVars, batches_sender, requests>>
      BY <1>9 DEF OpenBatch
    <2>7. PipelineMirrored'
      BY <2>6, MirrorFrame DEF Inv1, workerVars, managerVars
    <2>8. TypeOK'
      BY <2>2, <2>3, <2>4, <2>5, <2>6 DEF Inv1, TypeOK, WorkerTypeOK, workerVars, managerVars
    <2>9. QED
      BY <2>7, <2>8 DEF Inv1
  <1>10. ASSUME NEW b \in Batches, SendRequest(b) PROVE Inv1'
    <2>1. [batch |-> b, seq |-> sent[b] + 1] \in Request /\ sent[b] + 1 \in 0 .. MaxRequests
      BY <1>10, MaxRequestsAssumption DEF SendRequest, Request, Inv1, TypeOK
    <2>2. Append(requests[b], [batch |-> b, seq |-> sent[b] + 1]) \in Seq(Request)
      BY <2>1, AppendType DEF Inv1, TypeOK
    <2>3. QED
      BY <1>10, <2>1, <2>2, MirrorFrame
         DEF SendRequest, Inv1, TypeOK, WorkerTypeOK, workerVars, managerVars
  <1>11. ASSUME NEW b \in Batches, CloseRequests(b) \/ FinishBatch(b) PROVE Inv1'
    BY <1>11, MirrorFrame DEF CloseRequests, FinishBatch, Inv1, TypeOK, WorkerTypeOK,
                              workerVars, managerVars, channelVars
  <1>12. CASE DropManager
    BY <1>12, MirrorFrame DEF DropManager, Inv1, TypeOK, WorkerTypeOK, workerVars,
                              managerVars, channelVars
  <1>13. CASE UNCHANGED vars
    BY <1>13, MirrorFrame DEF vars, Inv1, TypeOK, WorkerTypeOK, workerVars, managerVars,
                              proverVars, channelVars
  <1>14. QED
    BY <1>1, <1>2, <1>3, <1>4, <1>5, <1>6, <1>7, <1>8, <1>9, <1>10, <1>11, <1>12, <1>13
       DEF Next, ManagerStep, ProverStep

\* Type correctness: every handler of the manager's loop and every worker step
\* keeps the state well typed.
THEOREM TypeCorrect == Spec => []TypeOK
  <1>1. Inv1 => TypeOK
    BY DEF Inv1
  <1>2. QED
    BY Inv1Init, Inv1Next, <1>1, PTL DEF Spec

\* The manager's queue for a worker is always the contents of that worker's
\* pipeline, so the result arm never unwraps a None item or meets a result of
\* another batch than it expects.
THEOREM QueuesMirrorPipelines == Spec => []PipelineMirrored
  <1>1. Inv1 => PipelineMirrored
    BY DEF Inv1
  <1>2. QED
    BY Inv1Init, Inv1Next, <1>1, PTL DEF Spec

----------------------------------------------------------------------------
(* The life of a batch's channels, and the exit of the manager *)

\* The manager holds a batch's result sender from the moment it learns of the
\* batch: first while it can still receive requests, then while it flushes.
SendersKept ==
    /\ batch_receivers \cap batches_to_flush = {}
    /\ batch_senders = batch_receivers \cup batches_to_flush

RequestsOwned ==
    \A b \in Batches : \A i \in 1 .. Len(requests[b]) : requests[b][i].batch = b

QueuedHeld == \A i \in 1 .. Len(work_queue) : work_queue[i].batch \in batch_senders

PipelinesHeld ==
    \A w \in Workers : \A i \in 1 .. Len(worker_queues[w]) :
        worker_queues[w][i] # None => worker_queues[w][i] \in batch_senders

\* A worker that owes a result has something in its pipeline.
OwesSomething ==
    \A w \in Workers : worker_state[w] \in {"busy", "send"} =>
        \E i \in 1 .. Len(worker_queues[w]) : worker_queues[w][i] # None

Started ==
    manager_state # "init" => \A w \in Workers : worker_state[w] \notin {"compute", "wait"}

FinishedEmpty == manager_state = "finished" => batch_senders = {}

Inv2 == /\ SendersKept /\ ReceiversAlive /\ RegisteredOnce /\ RequestsOwned /\ QueuedHeld
        /\ PipelinesHeld /\ OwesSomething /\ Started /\ FinishedEmpty

IInv == Inv1 /\ Inv2

\* The channels and senders agree initially.
LEMMA Inv2Init == Init => Inv2
  <1> SUFFICES ASSUME Init PROVE Inv2
    OBVIOUS
  <1>1. PipelinesHeld /\ OwesSomething
    BY DEF Init, WorkerInit, PipelinesHeld, OwesSomething
  <1>2. SendersKept /\ ReceiversAlive /\ RegisteredOnce /\ RequestsOwned /\ QueuedHeld
    BY DEF Init, SendersKept, ReceiversAlive, RegisteredOnce, RequestsOwned, QueuedHeld
  <1>3. Started /\ FinishedEmpty
    BY DEF Init, Started, FinishedEmpty
  <1>4. QED
    BY <1>1, <1>2, <1>3 DEF Inv2

\* A worker's own step preserves Inv2.
LEMMA Inv2WorkerStep ==
    ASSUME IInv, NEW w \in Workers, WorkerStep(w)
    PROVE  Inv2'
  <1> USE DEF IInv, Inv1, Inv2, TypeOK, WorkerTypeOK
  <1>1. UNCHANGED <<managerVars, proverVars, channelVars>>
    BY DEF WorkerStep
  <1>2. /\ SendersKept' /\ ReceiversAlive' /\ RegisteredOnce' /\ RequestsOwned' /\ QueuedHeld'
        /\ PipelinesHeld' /\ FinishedEmpty'
    BY <1>1 DEF SendersKept, ReceiversAlive, RegisteredOnce, RequestsOwned, QueuedHeld,
                PipelinesHeld, FinishedEmpty, managerVars, proverVars, channelVars
  <1>3. OwesSomething'
    <2>1. worker_queues' = worker_queues
      BY <1>1 DEF managerVars
    <2>2. \A v \in Workers : worker_state'[v] \in {"busy", "send"} =>
                                  worker_state[v] \in {"busy", "send"}
      BY DEF WorkerStep, ComputeSetups, SetupsReady, AwaitRequest, ProcessRequest, WorkerExit
    <2>3. QED
      BY <2>1, <2>2 DEF OwesSomething
  <1>4. Started'
    BY <1>1 DEF Started, WorkerStep, ComputeSetups, SetupsReady, AwaitRequest, ProcessRequest,
                WorkerExit,
                managerVars
  <1>5. QED
    BY <1>2, <1>3, <1>4

\* A step of the provers alone, or of the manager outside its arms, that does not
\* touch what the parts of Inv2 about workers and queues talk about.
LEMMA QueueFrame ==
    ASSUME Inv2, UNCHANGED <<workerVars, batch_senders, work_queue, worker_queues>>
    PROVE  QueuedHeld' /\ PipelinesHeld' /\ OwesSomething'
  BY DEF Inv2, QueuedHeld, PipelinesHeld, OwesSomething, workerVars

\* A step that leaves the channels and the manager's maps alone keeps what Inv2 says of them.
LEMMA ChannelFrame ==
    ASSUME Inv2, UNCHANGED <<batches, batch_receivers, batch_senders, batches_to_flush,
                             prover_state, requests>>
    PROVE  SendersKept' /\ ReceiversAlive' /\ RegisteredOnce' /\ RequestsOwned'
  BY DEF Inv2, SendersKept, ReceiversAlive, RegisteredOnce, RequestsOwned

\* Registering a batch preserves Inv2.
LEMMA Inv2ReceiveBatch ==
    ASSUME IInv, ReceiveBatch
    PROVE  Inv2'
  <1> DEFINE b == Head(batches)
  <1>1. /\ b \in Batches /\ b = batches[1]
        /\ Len(batches) \in Nat \ {0} /\ Len(Tail(batches)) = Len(batches) - 1
        /\ \A i \in 1 .. Len(Tail(batches)) : Tail(batches)[i] = batches[i + 1]
    BY HeadTailType DEF ReceiveBatch, IInv, Inv1, TypeOK
  <1>2. b \notin batch_senders \cup batch_receivers /\ prover_state[b] # "idle"
    BY <1>1 DEF IInv, Inv2, RegisteredOnce, ReceiversAlive
  <1>3. SendersKept'
    BY <1>2 DEF ReceiveBatch, IInv, Inv2, SendersKept
  <1>4. ReceiversAlive'
    BY <1>1, <1>2 DEF ReceiveBatch, IInv, Inv2, ReceiversAlive, proverVars
  <1>5. RegisteredOnce'
    <2> SUFFICES ASSUME NEW i \in 1 .. Len(Tail(batches))
                 PROVE  /\ Tail(batches)[i] \notin batch_senders' \cup batch_receivers'
                        /\ \A j \in 1 .. Len(Tail(batches)) :
                              Tail(batches)[i] = Tail(batches)[j] => i = j
      BY DEF RegisteredOnce, ReceiveBatch
    <2>1. /\ i + 1 \in 1 .. Len(batches) /\ i + 1 # 1
          /\ \A j \in 1 .. Len(Tail(batches)) : j + 1 \in 1 .. Len(batches)
      BY <1>1
    <2>2. Tail(batches)[i] # b
      BY <1>1, <2>1 DEF IInv, Inv2, RegisteredOnce
    <2>3. QED
      BY <1>1, <2>1, <2>2 DEF IInv, Inv2, RegisteredOnce, ReceiveBatch
  <1>6. RequestsOwned' /\ Started' /\ FinishedEmpty' /\ OwesSomething'
    BY DEF ReceiveBatch, IInv, Inv2, RequestsOwned, Started, FinishedEmpty, OwesSomething,
           workerVars
  <1>7. QueuedHeld' /\ PipelinesHeld'
    BY DEF ReceiveBatch, IInv, Inv2, QueuedHeld, PipelinesHeld
  <1>8. QED
    BY <1>3, <1>4, <1>5, <1>6, <1>7 DEF Inv2

\* Queueing a request preserves Inv2.
LEMMA Inv2ReceiveRequest ==
    ASSUME IInv, NEW b \in Batches, ReceiveRequest(b)
    PROVE  Inv2'
  <1> DEFINE r == Head(requests[b])
  <1>1. /\ r \in Request /\ r.batch = b
        /\ Len(Tail(requests[b])) = Len(requests[b]) - 1 /\ Len(requests[b]) \in Nat
        /\ \A i \in 1 .. Len(Tail(requests[b])) : Tail(requests[b])[i] = requests[b][i + 1]
    BY HeadTailType DEF ReceiveRequest, IInv, Inv1, TypeOK, Inv2, RequestsOwned
  <1>2. RequestsOwned'
    BY <1>1 DEF ReceiveRequest, IInv, Inv1, TypeOK, Inv2, RequestsOwned
  <1>3. QueuedHeld'
    <2>1. b \in batch_senders
      BY DEF ReceiveRequest, IInv, Inv2, SendersKept
    <2>2. /\ Len(work_queue') = Len(work_queue) + 1 /\ Len(work_queue) \in Nat
          /\ \A i \in 1 .. Len(work_queue) : work_queue'[i] = work_queue[i]
          /\ work_queue'[Len(work_queue) + 1] = r
      BY <1>1, AppendType DEF ReceiveRequest, IInv, Inv1, TypeOK
    <2>3. QED
      BY <1>1, <2>1, <2>2 DEF ReceiveRequest, IInv, Inv2, QueuedHeld
  <1>4. SendersKept' /\ ReceiversAlive' /\ RegisteredOnce'
    BY DEF ReceiveRequest, IInv, Inv2, SendersKept, ReceiversAlive, RegisteredOnce, proverVars
  <1>5. PipelinesHeld' /\ OwesSomething' /\ Started' /\ FinishedEmpty'
    BY DEF ReceiveRequest, IInv, Inv2, PipelinesHeld, OwesSomething, Started, FinishedEmpty,
           workerVars
  <1>6. QED
    BY <1>2, <1>3, <1>4, <1>5 DEF Inv2

\* Finding a request channel closed preserves Inv2.
LEMMA Inv2RequestsClosed ==
    ASSUME IInv, NEW b \in Batches, RequestsClosed(b)
    PROVE  Inv2'
  <1>1. SendersKept' /\ ReceiversAlive' /\ RegisteredOnce' /\ RequestsOwned'
    BY DEF RequestsClosed, IInv, Inv2, SendersKept, ReceiversAlive, RegisteredOnce,
           RequestsOwned, proverVars, channelVars
  <1>2. QueuedHeld' /\ PipelinesHeld' /\ OwesSomething'
    BY QueueFrame DEF RequestsClosed, IInv
  <1>3. Started' /\ FinishedEmpty'
    BY DEF RequestsClosed, IInv, Inv2, Started, FinishedEmpty, workerVars
  <1>4. QED
    BY <1>1, <1>2, <1>3 DEF Inv2

\* The one place where the manager lets go of a result sender: by then nothing
\* of the batch is queued or in a pipeline.
LEMMA Inv2ReceiveResult ==
    ASSUME IInv, NEW w \in Workers, ReceiveResult(w)
    PROVE  Inv2'
  <1> DEFINE b == Head(worker_queues[w])
             queues == [worker_queues EXCEPT ![w] = Tail(@)]
  <1>0. GiveResult(w) /\ worker_queues' = queues /\ work_queue' = work_queue
    BY DEF ReceiveResult
  <1>1. /\ worker_queues[w] \in Seq(Item) /\ worker_queues[w] # <<>>
        /\ worker_queues \in [Workers -> Seq(Item)]
    BY <1>0, Inv1Pop DEF IInv, Inv1, TypeOK
  <1>2. \A v \in Workers : \A i \in 1 .. Len(queues[v]) :
            \E j \in 1 .. Len(worker_queues[v]) : queues[v][i] = worker_queues[v][j]
    <2> SUFFICES ASSUME NEW v \in Workers, NEW i \in 1 .. Len(queues[v])
                 PROVE  \E j \in 1 .. Len(worker_queues[v]) : queues[v][i] = worker_queues[v][j]
      OBVIOUS
    <2>1. CASE v = w
      <3>1. queues[v] = Tail(worker_queues[w])
        BY <1>1, <2>1
      <3>2. /\ Tail(worker_queues[w]) \in Seq(Item)
            /\ Len(Tail(worker_queues[w])) = Len(worker_queues[w]) - 1
            /\ \A k \in 1 .. Len(Tail(worker_queues[w])) :
                    Tail(worker_queues[w])[k] = worker_queues[w][k + 1]
        BY <1>1, HeadTailType
      <3>4. i + 1 \in 1 .. Len(worker_queues[w]) /\ queues[v][i] = worker_queues[w][i + 1]
        <4> HIDE DEF queues
        <4> QED BY <1>1, <3>1, <3>2
      <3>3. QED
        BY <2>1, <3>4
    <2>2. CASE v # w
      BY <1>1, <2>2
    <2>3. QED
      BY <2>1, <2>2
  <1>3. \A v \in Workers : \A i \in 1 .. Len(worker_queues'[v]) :
            \E j \in 1 .. Len(worker_queues[v]) : worker_queues'[v][i] = worker_queues[v][j]
    BY <1>0, <1>2
  <1>4. \/ batch_senders' = batch_senders /\ batches_to_flush' = batches_to_flush
        \/ \E c \in batches_to_flush :
              /\ batch_senders' = batch_senders \ {c}
              /\ batches_to_flush' = batches_to_flush \ {c}
              /\ Drained(c, work_queue', worker_queues')
    BY <1>0 DEF ReceiveResult
  <1>5. /\ UNCHANGED <<proverVars, batch_receivers, batches, requests, work_queue>>
        /\ manager_state' = "distribute"
    BY DEF ReceiveResult
  <1>6. /\ SendersKept' /\ ReceiversAlive' /\ RegisteredOnce' /\ RequestsOwned' /\ QueuedHeld'
        /\ PipelinesHeld' /\ FinishedEmpty'
    <2>1. CASE batch_senders' = batch_senders /\ batches_to_flush' = batches_to_flush
      BY <1>0, <1>3, <1>5, <2>1
         DEF IInv, Inv2, SendersKept, ReceiversAlive, RegisteredOnce, RequestsOwned, QueuedHeld,
             PipelinesHeld, FinishedEmpty, proverVars
    <2>2. ASSUME NEW c \in batches_to_flush,
                 batch_senders' = batch_senders \ {c},
                 batches_to_flush' = batches_to_flush \ {c},
                 Drained(c, work_queue', worker_queues')
          PROVE  /\ SendersKept' /\ ReceiversAlive' /\ RegisteredOnce' /\ RequestsOwned'
                 /\ QueuedHeld' /\ PipelinesHeld' /\ FinishedEmpty'
      <3>1. QueuedHeld' /\ PipelinesHeld'
        <4>1. QueuedHeld'
          BY <1>5, <2>2 DEF IInv, Inv2, QueuedHeld, Drained
        <4>2. PipelinesHeld'
          BY <1>3, <2>2 DEF IInv, Inv2, PipelinesHeld, Drained
        <4>3. QED
          BY <4>1, <4>2
      <3>2. /\ SendersKept' /\ ReceiversAlive' /\ RegisteredOnce' /\ RequestsOwned'
            /\ FinishedEmpty'
        BY <1>5, <2>2 DEF IInv, Inv2, SendersKept, ReceiversAlive, RegisteredOnce,
                          RequestsOwned, FinishedEmpty, proverVars
      <3>3. QED
        BY <3>1, <3>2
    <2>3. QED
      BY <1>4, <2>1, <2>2
  <1>7. OwesSomething'
    <2>1. \A v \in Workers : worker_state'[v] \in {"busy", "send"} =>
              v # w /\ worker_state[v] \in {"busy", "send"}
      BY <1>0 DEF GiveResult, IInv, Inv1, TypeOK, WorkerTypeOK
    <2>2. \A v \in Workers : v # w => worker_queues'[v] = worker_queues[v]
      BY <1>0, <1>1 DEF queues
    <2>3. QED
      BY <2>1, <2>2 DEF IInv, Inv2, OwesSomething
  <1>8. Started'
    <2>1. manager_state # "init"
      BY DEF ReceiveResult
    <2>2. QED
      BY <1>0, <2>1 DEF GiveResult, IInv, Inv1, TypeOK, WorkerTypeOK, Inv2, Started
  <1>9. QED
    BY <1>6, <1>7, <1>8 DEF Inv2

\* A request, or a push, goes to a waiting worker: v is what the manager
\* appends to the worker's queue.
LEMMA Inv2Push ==
    ASSUME IInv, NEW w \in Workers, NEW r \in Request \cup {None}, NEW v \in Item,
           TakeRequest(w, r),
           worker_queues' = [worker_queues EXCEPT ![w] = Append(@, v)],
           batch_senders' = batch_senders,
           v # None => v \in batch_senders,
           \E i \in 1 .. Len(worker_queues'[w]) : worker_queues'[w][i] # None,
           manager_state # "init"
    PROVE  PipelinesHeld' /\ OwesSomething' /\ Started'
  <1>1. worker_queues \in [Workers -> Seq(Item)] /\ worker_queues[w] \in Seq(Item)
    BY DEF IInv, Inv1, TypeOK
  <1>2. \A u \in Workers : u # w => worker_queues'[u] = worker_queues[u]
    BY <1>1
  <1>3. worker_queues'[w] = Append(worker_queues[w], v)
    BY <1>1
  <1>4. \A i \in 1 .. Len(worker_queues'[w]) :
            \/ worker_queues'[w][i] = v
            \/ \E j \in 1 .. Len(worker_queues[w]) : worker_queues'[w][i] = worker_queues[w][j]
    <2>1. /\ Len(Append(worker_queues[w], v)) = Len(worker_queues[w]) + 1
          /\ Len(worker_queues[w]) \in Nat
          /\ \A j \in 1 .. Len(worker_queues[w]) :
                  Append(worker_queues[w], v)[j] = worker_queues[w][j]
          /\ Append(worker_queues[w], v)[Len(worker_queues[w]) + 1] = v
      BY <1>1, AppendType
    <2>2. QED
      BY <1>3, <2>1
  <1>5. PipelinesHeld'
    BY <1>2, <1>4 DEF IInv, Inv2, PipelinesHeld
  <1>6. OwesSomething'
    <2>1. \A u \in Workers : u # w => worker_state'[u] = worker_state[u]
      BY DEF TakeRequest, IInv, Inv1, TypeOK, WorkerTypeOK
    <2>2. QED
      BY <1>2, <2>1 DEF IInv, Inv2, OwesSomething
  <1>7. Started'
    BY DEF TakeRequest, IInv, Inv1, TypeOK, WorkerTypeOK, Inv2, Started
  <1>8. QED
    BY <1>5, <1>6, <1>7

\* Handing over a request preserves Inv2.
LEMMA Inv2Hand ==
    ASSUME IInv, NEW w \in Workers, SelectRequest(w) \/ Distribute(w)
    PROVE  Inv2'
  <1> DEFINE r == Head(work_queue)
  <1>1. /\ HandRequest(w) /\ work_queue # <<>>
        /\ manager_state \in {"select", "distribute"} /\ manager_state' = "distribute"
        /\ UNCHANGED <<batch_receivers, batch_senders, batches_to_flush, proverVars, channelVars>>
    BY DEF SelectRequest, Distribute
  <1>2. /\ r \in Request /\ r = work_queue[1]
        /\ Len(work_queue) \in Nat \ {0} /\ Len(Tail(work_queue)) = Len(work_queue) - 1
        /\ \A i \in 1 .. Len(Tail(work_queue)) : Tail(work_queue)[i] = work_queue[i + 1]
    BY <1>1, HeadTailType DEF IInv, Inv1, TypeOK
  <1>3. r.batch \in Batches /\ r.batch \in batch_senders /\ r.batch # None
    BY <1>2, NoneAssumption DEF Request, IInv, Inv2, QueuedHeld
  <1>4. QueuedHeld'
    BY <1>1, <1>2 DEF HandRequest, IInv, Inv2, QueuedHeld
  <1>5. PipelinesHeld' /\ OwesSomething' /\ Started'
    <2>1. worker_queues[w] \in Seq(Item) /\ worker_queues \in [Workers -> Seq(Item)]
      BY DEF IInv, Inv1, TypeOK
    <2>2. /\ TakeRequest(w, r)
          /\ worker_queues' = [worker_queues EXCEPT ![w] = Append(@, r.batch)]
      BY <1>1 DEF HandRequest
    <2>3. worker_queues'[w] = Append(worker_queues[w], r.batch)
      BY <2>1, <2>2
    <2>4. r.batch \in Item
      BY <1>3 DEF Item
    <2>5. \E i \in 1 .. Len(worker_queues'[w]) : worker_queues'[w][i] # None
      BY <1>3, <2>1, <2>3, <2>4, AppendType
    <2>6. QED
      BY <1>1, <1>2, <1>3, <2>2, <2>4, <2>5, Inv2Push
  <1>6. SendersKept' /\ ReceiversAlive' /\ RegisteredOnce' /\ RequestsOwned' /\ FinishedEmpty'
    BY <1>1 DEF IInv, Inv2, SendersKept, ReceiversAlive, RegisteredOnce, RequestsOwned,
                FinishedEmpty, proverVars, channelVars
  <1>7. QED
    BY <1>4, <1>5, <1>6 DEF Inv2

\* Advancing and flushing preserve Inv2.
LEMMA Inv2PushPipeline ==
    ASSUME IInv, NEW w \in Workers, PushPipeline(w)
    PROVE  Inv2'
  <1>1. /\ manager_state = "select" /\ manager_state' = "distribute"
        /\ UNCHANGED <<batch_receivers, batch_senders, work_queue, batches_to_flush, proverVars,
                       channelVars>>
    BY DEF PushPipeline
  <1>2. PipelinesHeld' /\ OwesSomething' /\ Started'
    <2>1. worker_queues[w] \in Seq(Item) /\ worker_queues \in [Workers -> Seq(Item)]
      BY DEF IInv, Inv1, TypeOK
    <2>2. /\ TakeRequest(w, None)
          /\ worker_queues' = [worker_queues EXCEPT ![w] = Append(@, None)]
      BY DEF PushPipeline
    <2>3. worker_queues'[w] = Append(worker_queues[w], None)
      BY <2>1, <2>2
    <2>4. None \in Item /\ None \in Request \cup {None}
      BY DEF Item
    <2>5. \E i \in 1 .. Len(worker_queues[w]) : worker_queues[w][i] # None
      BY <2>1, NoneAssumption DEF PushPipeline, Advance, Flush, IInv, Inv1, TypeOK
    <2>6. \E i \in 1 .. Len(worker_queues'[w]) : worker_queues'[w][i] # None
      <3>1. /\ Len(Append(worker_queues[w], None)) = Len(worker_queues[w]) + 1
            /\ Len(worker_queues[w]) \in Nat
            /\ \A i \in 1 .. Len(worker_queues[w]) :
                    Append(worker_queues[w], None)[i] = worker_queues[w][i]
        BY <2>1, <2>4, AppendType
      <3>2. QED
        BY <2>3, <2>5, <3>1
    <2>7. QED
      BY <1>1, <2>2, <2>4, <2>6, Inv2Push
  <1>3. /\ SendersKept' /\ ReceiversAlive' /\ RegisteredOnce' /\ RequestsOwned' /\ QueuedHeld'
        /\ FinishedEmpty'
    BY <1>1 DEF IInv, Inv2, SendersKept, ReceiversAlive, RegisteredOnce, RequestsOwned, QueuedHeld,
                FinishedEmpty, proverVars, channelVars
  <1>4. QED
    BY <1>2, <1>3 DEF Inv2

\* Opening: an idle prover's batch is not on its way to the manager and not
\* registered there, so the identifier may be used again.
LEMMA Inv2OpenBatch ==
    ASSUME IInv, NEW b \in Batches, OpenBatch(b)
    PROVE  Inv2'
  <1>1. b \notin batch_senders \cup batch_receivers
    BY DEF OpenBatch, IInv, Inv2, ReceiversAlive, SendersKept
  <1>2. \A i \in 1 .. Len(batches) : batches[i] # b
    BY DEF OpenBatch, IInv, Inv2, ReceiversAlive
  <1>3. /\ Len(batches') = Len(batches) + 1 /\ Len(batches) \in Nat
        /\ \A i \in 1 .. Len(batches) : batches'[i] = batches[i]
        /\ batches'[Len(batches) + 1] = b
    BY AppendType DEF OpenBatch, IInv, Inv1, TypeOK
  <1>4. UNCHANGED <<workerVars, managerVars, requests>>
    BY DEF OpenBatch
  <1>5. RegisteredOnce'
    BY <1>1, <1>2, <1>3, <1>4 DEF IInv, Inv2, RegisteredOnce, managerVars
  <1>6. ReceiversAlive'
    <2>1. \A c \in Batches : prover_state[c] # "idle" => prover_state'[c] # "idle"
      BY DEF OpenBatch, IInv, Inv1, TypeOK
    <2>2. prover_state'[b] # "idle"
      BY DEF OpenBatch, IInv, Inv1, TypeOK
    <2>3. batch_senders \subseteq Batches /\ \A i \in 1 .. Len(batches) : batches[i] \in Batches
      BY DEF IInv, Inv1, TypeOK
    <2>4. QED
      BY <1>3, <1>4, <2>1, <2>2, <2>3 DEF IInv, Inv2, ReceiversAlive, managerVars
  <1>7. SendersKept' /\ RequestsOwned' /\ Started' /\ FinishedEmpty'
    BY <1>4 DEF IInv, Inv2, SendersKept, RequestsOwned, Started, FinishedEmpty, managerVars,
                workerVars
  <1>8. QueuedHeld' /\ PipelinesHeld' /\ OwesSomething'
    BY <1>4, QueueFrame DEF managerVars, IInv
  <1>9. QED
    BY <1>5, <1>6, <1>7, <1>8 DEF Inv2

\* A step of a caller preserves Inv2.
LEMMA Inv2ProverStep ==
    ASSUME IInv, NEW b \in Batches, ProverStep(b)
    PROVE  Inv2'
  <1>1. UNCHANGED <<workerVars, managerVars, batches>>
    BY DEF ProverStep, SendRequest, CloseRequests, FinishBatch, channelVars
  <1>2. ReceiversAlive'
    <2>1. CASE SendRequest(b) \/ CloseRequests(b)
      <3>1. \A c \in Batches : prover_state[c] # "idle" => prover_state'[c] # "idle"
        BY <2>1 DEF SendRequest, CloseRequests, IInv, Inv1, TypeOK
      <3>2. batch_senders \subseteq Batches /\ \A i \in 1 .. Len(batches) : batches[i] \in Batches
        BY DEF IInv, Inv1, TypeOK
      <3>3. QED
        BY <1>1, <3>1, <3>2 DEF IInv, Inv2, ReceiversAlive, managerVars
    <2>2. CASE FinishBatch(b)
      <3>1. \A c \in Batches : c # b => prover_state'[c] = prover_state[c]
        BY <2>2 DEF FinishBatch, IInv, Inv1, TypeOK
      <3>2. b \notin batch_senders /\ \A i \in 1 .. Len(batches) : batches[i] # b
        BY <2>2 DEF FinishBatch
      <3>3. batch_senders \subseteq Batches /\ \A i \in 1 .. Len(batches) : batches[i] \in Batches
        BY DEF IInv, Inv1, TypeOK
      <3>4. QED
        BY <1>1, <3>1, <3>2, <3>3 DEF IInv, Inv2, ReceiversAlive, managerVars
    <2>3. QED
      BY <2>1, <2>2 DEF ProverStep
  <1>3. RequestsOwned'
    <2>1. CASE SendRequest(b)
      <3> DEFINE r == [batch |-> b, seq |-> sent[b] + 1]
      <3>1. r \in Request /\ r.batch = b
        BY <2>1, MaxRequestsAssumption DEF SendRequest, Request, IInv, Inv1, TypeOK
      <3>2. /\ requests'[b] = Append(requests[b], r)
            /\ \A c \in Batches : c # b => requests'[c] = requests[c]
        BY <2>1 DEF SendRequest, IInv, Inv1, TypeOK
      <3> HIDE DEF r
      <3>3. /\ Len(Append(requests[b], r)) = Len(requests[b]) + 1 /\ Len(requests[b]) \in Nat
            /\ \A i \in 1 .. Len(requests[b]) : Append(requests[b], r)[i] = requests[b][i]
            /\ Append(requests[b], r)[Len(requests[b]) + 1] = r
        BY <3>1, AppendType DEF IInv, Inv1, TypeOK
      <3>4. QED
        BY <3>1, <3>2, <3>3 DEF IInv, Inv2, RequestsOwned
    <2>2. CASE CloseRequests(b) \/ FinishBatch(b)
      BY <2>2 DEF CloseRequests, FinishBatch, channelVars, IInv, Inv2, RequestsOwned
    <2>3. QED
      BY <2>1, <2>2 DEF ProverStep
  <1>4. SendersKept' /\ RegisteredOnce' /\ Started' /\ FinishedEmpty'
    BY <1>1 DEF IInv, Inv2, SendersKept, RegisteredOnce, Started, FinishedEmpty, managerVars,
                workerVars
  <1>5. QueuedHeld' /\ PipelinesHeld' /\ OwesSomething'
    BY <1>1, QueueFrame DEF managerVars, IInv
  <1>6. QED
    BY <1>2, <1>3, <1>4, <1>5 DEF Inv2

\* Every step preserves Inv2.
LEMMA Inv2Next == IInv /\ [Next]_vars => Inv2'
  <1> SUFFICES ASSUME IInv, [Next]_vars PROVE Inv2'
    OBVIOUS
  <1>1. CASE ManagerInitialized \/ BatchesClosed \/ DistributeDone
    <2>1. UNCHANGED <<workerVars, batch_receivers, batch_senders, work_queue, batches_to_flush,
                      worker_queues, proverVars, channelVars>>
      BY <1>1 DEF ManagerInitialized, BatchesClosed, DistributeDone
    <2>2. /\ SendersKept' /\ ReceiversAlive' /\ RegisteredOnce' /\ RequestsOwned'
          /\ QueuedHeld' /\ PipelinesHeld' /\ OwesSomething'
      BY <2>1, QueueFrame, ChannelFrame DEF IInv, proverVars, channelVars
    <2>3. Started' /\ FinishedEmpty'
      BY <1>1, <2>1 DEF ManagerInitialized, BatchesClosed, DistributeDone, IInv, Inv2, Started,
                        FinishedEmpty, workerVars
    <2>4. QED
      BY <2>2, <2>3 DEF Inv2
  <1>2. CASE DropManager \/ UNCHANGED vars
    <2>1. UNCHANGED <<workerVars, managerVars, prover_state, channelVars>>
      BY <1>2 DEF DropManager, vars, proverVars
    <2>2. /\ SendersKept' /\ ReceiversAlive' /\ RegisteredOnce' /\ RequestsOwned'
          /\ QueuedHeld' /\ PipelinesHeld' /\ OwesSomething'
      BY <2>1, QueueFrame, ChannelFrame DEF IInv, managerVars, channelVars
    <2>3. Started' /\ FinishedEmpty'
      BY <2>1 DEF IInv, Inv2, Started, FinishedEmpty, managerVars, workerVars
    <2>4. QED
      BY <2>2, <2>3 DEF Inv2
  <1>3. ASSUME NEW b \in Batches, ReceiveRequest(b) \/ RequestsClosed(b) PROVE Inv2'
    BY <1>3, Inv2ReceiveRequest, Inv2RequestsClosed
  <1>4. ASSUME NEW w \in Workers,
               \/ ReceiveResult(w) \/ PushPipeline(w)
               \/ SelectRequest(w) \/ Distribute(w) \/ WorkerStep(w)
        PROVE  Inv2'
    BY <1>4, Inv2ReceiveResult, Inv2PushPipeline, Inv2Hand, Inv2WorkerStep
  <1>5. ASSUME NEW b \in Batches, OpenBatch(b) \/ ProverStep(b) PROVE Inv2'
    BY <1>5, Inv2OpenBatch, Inv2ProverStep
  <1>6. QED
    BY <1>1, <1>2, <1>3, <1>4, <1>5, Inv2ReceiveBatch DEF Next, ManagerStep

\* Both invariants always hold.
LEMMA IInvInductive == Spec => []IInv
  <1>1. Init => IInv
    BY Inv1Init, Inv2Init DEF IInv
  <1>2. IInv /\ [Next]_vars => IInv'
    BY Inv1Next, Inv2Next DEF IInv
  <1>3. QED
    BY <1>1, <1>2, PTL DEF Spec

\* While a request is queued, or anything of a batch is in a pipeline, the
\* manager still holds the batch's result sender: the lookups of batch_senders
\* in the result arm never fail.
THEOREM SendersOutliveRequests == Spec => []SenderHeld
  <1>1. IInv => SenderHeld
    BY NoneAssumption DEF IInv, Inv2, QueuedHeld, PipelinesHeld, SenderHeld, Outstanding
  <1>2. QED
    BY <1>1, IInvInductive, PTL

\* A batch identifier that is opened again after its prover finished is never
\* registered while the previous use of it is: the asserts on insert hold.
THEOREM NoDoubleRegistration == Spec => []RegisteredOnce
  <1>1. IInv => RegisteredOnce
    BY DEF IInv, Inv2
  <1>2. QED
    BY <1>1, IInvInductive, PTL

\* The manager never sends a result to a receiver its prover has dropped.
THEOREM ReceiversOutliveSenders == Spec => []ReceiversAlive
  <1>1. IInv => ReceiversAlive
    BY DEF IInv, Inv2
  <1>2. QED
    BY <1>1, IInvInductive, PTL

\* When the manager returns, no worker is processing or blocked on a send, and
\* every pipeline is empty: the worker's asserts after its loop hold.
THEOREM ManagerExitsCleanly == Spec => []CleanExit
  <1>1. ASSUME IInv, manager_state = "finished", NEW w \in Workers
        PROVE  /\ worker_state[w] \in {"ready", "recv", "exited"}
               /\ current_phase_one[w] = None
               /\ current_phase_two[w] = None
    <2>1. \A i \in 1 .. Len(worker_queues[w]) : worker_queues[w][i] = None
      BY <1>1 DEF IInv, Inv2, FinishedEmpty, PipelinesHeld
    <2>2. worker_state[w] \in {"ready", "recv", "exited"}
      BY <1>1, <2>1 DEF IInv, Inv1, TypeOK, WorkerTypeOK, WorkerStates, Inv2, OwesSomething,
                        Started
    <2>3. worker_queues[w] = <<BatchOf(current_phase_two[w]), BatchOf(current_phase_one[w])>>
      BY <1>1, <2>2 DEF IInv, Inv1, PipelineMirrored
    <2>4. BatchOf(current_phase_two[w]) = None /\ BatchOf(current_phase_one[w]) = None
      BY <2>1, <2>3
    <2>5. /\ current_phase_one[w] \in Request \cup {None}
          /\ current_phase_two[w] \in Request \cup {None}
      BY <1>1 DEF IInv, Inv1, TypeOK, WorkerTypeOK
    <2>6. QED
      BY <2>2, <2>4, <2>5, NoneAssumption DEF BatchOf, Request
  <1>2. IInv => CleanExit
    BY <1>1 DEF CleanExit
  <1>3. QED
    BY <1>2, IInvInductive, PTL
=============================================================================
