------------------------------ MODULE GpuClient -----------------------------
(***************************************************************************)
(* get_results as the client that BatchService, the promise of the GPU     *)
(* manager, expects.                                                       *)
(***************************************************************************)
EXTENDS ExecutionProver, FiniteSetsExt

\* Answers of the GPUs so far in this call of get_results.
Answered(b) ==
    Cardinality({i \in 1 .. Len(worker_results[b]) : worker_results[b][i].kind = "answer"})
        + Cardinality(main_results[b]) + Cardinality(delegation_results[b])

\* How often the batch was opened.
Opened(b) ==
    CASE stage[b] = "idle" -> 0
      [] stage[b] \in {"prove", "returned"} /\ Api[b] = "commit_memory_and_prove" -> 2
      [] OTHER -> 1

\* No batch has more requests than chunks and delegation calls.
MostRequests == Max({Program[b].chunks + Len(Program[b].delegations) : b \in Batches})

GpuService ==
    INSTANCE BatchService WITH
        MaxRequests <- MostRequests,
        MaxOpened <- 2 * Cardinality(Batches),
        prover_state <- [b \in Batches |-> IF ~InGetResults(b) THEN "idle"
                                          ELSE IF RequestsClosed(b) THEN "closed" ELSE "open"],
        sent <- [b \in Batches |-> Answered(b) + Cardinality(requests[b])],
        results <- [b \in Batches |-> {[batch |-> b, seq |-> i] : i \in 1 .. Answered(b)}],
        opened <- SumFunction([b \in Batches |-> Opened(b)]),
        closed <- FALSE

\* get_results uses the GPU manager as the manager expects: it opens a batch again
\* only after the previous one ended, sends at least one request and none after
\* its senders are dropped, and takes the batch for finished only when every
\* request was answered.
GpuProtocol == GpuService!Spec
=============================================================================
