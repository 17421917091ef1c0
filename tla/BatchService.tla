---------------------------- MODULE BatchService ---------------------------
(***************************************************************************)
(* What the GPU manager promises the provers that use it: every request of *)
(* a batch is answered exactly once, with a result of that batch, and the  *)
(* batch's result channel ends only when all its requests are answered.    *)
(* Batches do not disturb each other.                                      *)
(***************************************************************************)
EXTENDS Integers

CONSTANTS Batches, MaxRequests, MaxOpened

VARIABLES
    prover_state,  \* per batch: "idle", "open" or "closed"
    sent,          \* per batch: the number of requests sent
    results,       \* per batch: the requests that were answered
    opened,        \* how many batches were opened
    closed         \* no batch will be opened any more

vars == <<prover_state, sent, results, opened, closed>>

Sent(b) == {[batch |-> b, seq |-> i] : i \in 1 .. sent[b]}

Init ==
    /\ prover_state = [b \in Batches |-> "idle"]
    /\ sent = [b \in Batches |-> 0]
    /\ results = [b \in Batches |-> {}]
    /\ opened = 0
    /\ closed = FALSE

Open(b) ==
    /\ prover_state[b] = "idle"
    /\ opened < MaxOpened
    /\ ~closed
    /\ prover_state' = [prover_state EXCEPT ![b] = "open"]
    /\ sent' = [sent EXCEPT ![b] = 0]
    /\ results' = [results EXCEPT ![b] = {}]
    /\ opened' = opened + 1
    /\ UNCHANGED closed

\* The request sender may be dropped right after a request.
Send(b) ==
    /\ prover_state[b] = "open"
    /\ sent[b] < MaxRequests
    /\ sent' = [sent EXCEPT ![b] = @ + 1]
    /\ \E state \in {"open", "closed"} : prover_state' = [prover_state EXCEPT ![b] = state]
    /\ UNCHANGED <<results, opened, closed>>

Close(b) ==
    /\ prover_state[b] = "open"
    /\ sent[b] > 0
    /\ prover_state' = [prover_state EXCEPT ![b] = "closed"]
    /\ UNCHANGED <<sent, results, opened, closed>>

Answer(b) ==
    /\ prover_state[b] # "idle"
    /\ \E r \in Sent(b) \ results[b] : results' = [results EXCEPT ![b] = @ \cup {r}]
    /\ UNCHANGED <<prover_state, sent, opened, closed>>

Finish(b) ==
    /\ prover_state[b] = "closed"
    /\ results[b] = Sent(b)
    /\ prover_state' = [prover_state EXCEPT ![b] = "idle"]
    /\ UNCHANGED <<sent, results, opened, closed>>

Stop ==
    /\ \A b \in Batches : prover_state[b] = "idle"
    /\ closed' = TRUE
    /\ UNCHANGED <<prover_state, sent, results, opened>>

Next ==
    \/ \E b \in Batches : Open(b) \/ Send(b) \/ Close(b) \/ Answer(b) \/ Finish(b)
    \/ Stop

Spec == Init /\ [][Next]_vars
=============================================================================
