----------------------------- MODULE GpuWorker -----------------------------
(***************************************************************************)
(* The GPU worker threads of gpu_prover/src/execution/gpu_worker.rs, one   *)
(* per device.  A worker first computes the setups of its share, waits for *)
(* the setups of all the others, reports that it is initialized, and then  *)
(* runs a pipeline three requests deep: the request it receives enters     *)
(* phase one (transfer), the previous one moves to phase two (the job is   *)
(* scheduled) and the one before that is finished and sent back.           *)
(*                                                                         *)
(* Both channels of a worker have capacity zero: a request is handed over  *)
(* only while the worker waits for one ("recv"), a result only while the   *)
(* worker is blocked sending it ("send").                                  *)
(***************************************************************************)
EXTENDS Integers, Sequences

CONSTANTS
    Devices,      \* the number of CUDA devices, one worker for each
    Batches,      \* the batch identifiers in use
    MaxRequests,  \* bound: requests of one batch
    NumSetups,    \* the setups to cache on every device
    None          \* Rust's Option::None

ASSUME DevicesAssumption == Devices \in Nat \ {0}
ASSUME BatchesAssumption == Batches \subseteq Nat
ASSUME MaxRequestsAssumption == MaxRequests \in Nat \ {0}
ASSUME NumSetupsAssumption == NumSetups \in Nat

Workers == 0 .. (Devices - 1)

\* A request carries the batch it belongs to; seq tells the requests of a
\* batch apart.  The result of a request is identified with the request.
Request == [batch : Batches, seq : 1 .. MaxRequests]

ASSUME NoneAssumption == None \notin Request /\ None \notin Batches

VARIABLES
    worker_state,       \* where each worker's thread is
    request,            \* the request the worker is busy with, or None
    current_phase_one,  \* the request whose transfer is scheduled, or None
    current_phase_two,  \* the request whose job is scheduled, or None
    result,             \* the result the worker is sending, or None
    setups_computed     \* the setups whose OnceLock is set

workerVars == <<worker_state, request, current_phase_one, current_phase_two,
                result, setups_computed>>

WorkerStates == {"compute", "wait", "ready", "recv", "busy", "send", "exited"}

WorkerTypeOK ==
    /\ worker_state \in [Workers -> WorkerStates]
    /\ request \in [Workers -> Request \cup {None}]
    /\ current_phase_one \in [Workers -> Request \cup {None}]
    /\ current_phase_two \in [Workers -> Request \cup {None}]
    /\ result \in [Workers -> Request \cup {None}]
    /\ setups_computed \subseteq 0 .. (NumSetups - 1)

WorkerInit ==
    /\ worker_state = [w \in Workers |-> "compute"]
    /\ request = [w \in Workers |-> None]
    /\ current_phase_one = [w \in Workers |-> None]
    /\ current_phase_two = [w \in Workers |-> None]
    /\ result = [w \in Workers |-> None]
    /\ setups_computed = {}

----------------------------------------------------------------------------
\* The setups a worker computes: those whose index is its own modulo the
\* number of devices.
SetupsOf(w) == {i \in 0 .. (NumSetups - 1) : i % Devices = w}

ComputeSetups(w) ==
    /\ worker_state[w] = "compute"
    /\ setups_computed' = setups_computed \cup SetupsOf(w)
    /\ worker_state' = [worker_state EXCEPT ![w] = "wait"]
    /\ UNCHANGED <<request, current_phase_one, current_phase_two, result>>

\* Every setup's OnceLock is set: the worker loads them all and reports that it
\* is initialized.
SetupsReady(w) ==
    /\ worker_state[w] = "wait"
    /\ setups_computed = 0 .. (NumSetups - 1)
    /\ worker_state' = [worker_state EXCEPT ![w] = "ready"]
    /\ UNCHANGED <<request, current_phase_one, current_phase_two, result,
                   setups_computed>>

\* The worker comes (back) to the head of its request loop and blocks there.
AwaitRequest(w) ==
    /\ worker_state[w] = "ready"
    /\ worker_state' = [worker_state EXCEPT ![w] = "recv"]
    /\ UNCHANGED <<request, current_phase_one, current_phase_two, result,
                   setups_computed>>

\* The swap with current_phase_two forgotten: the job just scheduled is
\* finished at once and the one before it is lost.
ProcessRequest_SkipPhaseTwo(w) ==
    /\ worker_state[w] = "busy"
    /\ worker_state' = [worker_state EXCEPT ![w] = "send"]
    /\ current_phase_one' = [current_phase_one EXCEPT ![w] = request[w]]
    /\ result' = [result EXCEPT ![w] = current_phase_one[w]]
    /\ request' = [request EXCEPT ![w] = None]
    /\ UNCHANGED <<setups_computed, current_phase_two>>

\* One iteration of the request loop up to results.send: everything in the
\* pipeline moves on by one phase.
ProcessRequest(w) ==
    /\ worker_state[w] = "busy"
    /\ worker_state' = [worker_state EXCEPT ![w] = "send"]
    /\ current_phase_one' = [current_phase_one EXCEPT ![w] = request[w]]
    /\ current_phase_two' = [current_phase_two EXCEPT ![w] = current_phase_one[w]]
    /\ result' = [result EXCEPT ![w] = current_phase_two[w]]
    /\ request' = [request EXCEPT ![w] = None]
    /\ UNCHANGED setups_computed

\* The request channel is closed: the loop ends and the thread with it.
WorkerExit(w) ==
    /\ worker_state[w] = "recv"
    /\ worker_state' = [worker_state EXCEPT ![w] = "exited"]
    /\ UNCHANGED <<request, current_phase_one, current_phase_two, result,
                   setups_computed>>

\* The worker's half of a rendezvous: taking a request, handing a result over.
TakeRequest(w, r) ==
    /\ worker_state[w] = "recv"
    /\ worker_state' = [worker_state EXCEPT ![w] = "busy"]
    /\ request' = [request EXCEPT ![w] = r]
    /\ UNCHANGED <<current_phase_one, current_phase_two, result, setups_computed>>

GiveResult(w) ==
    /\ worker_state[w] = "send"
    /\ worker_state' = [worker_state EXCEPT ![w] = "ready"]
    /\ result' = [result EXCEPT ![w] = None]
    /\ UNCHANGED <<request, current_phase_one, current_phase_two, setups_computed>>
=============================================================================
