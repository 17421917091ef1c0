-------------------------- MODULE TracedStatement ---------------------------
(***************************************************************************)
(* From the trace of an execution to its acceptance: what the CPU workers  *)
(* recorded separately (ExecutionTracer) becomes the memory columns of the *)
(* main and delegation circuits, the prover draws the challenges from a    *)
(* transcript of them (commit_memory_and_prove in                          *)
(* gpu_prover/src/execution/prover.rs), and verify_full_statement          *)
(* (FullStatementVerifier) verifies the proofs.                            *)
(***************************************************************************)
EXTENDS ExecutionTracer, SequencesExt

CONSTANTS
    RequestsPerCircuit,    \* rows of a delegation circuit
    MAX_CIRCUITS,          \* MAX_BASE_LAYER_CIRCUITS
    CHARACTERISTICS        \* of the field

VARIABLES at, registers, num_circuits, main, delegation_type, delegations, transcript

statementVars == <<at, registers, num_circuits, main, delegation_type, delegations, transcript>>

\* One type of delegation; the environment of the verifier is the prover below.
F == INSTANCE FullStatementVerifier WITH
        Programs <- {"program"}, AccessesPerCycle <- 3, NumDelegationTypes <- 1,
        DelegationAccesses <- Registers + Words, MaxDelegationCircuits <- CHARACTERISTICS,
        RegisterTimestamps <- {}, MainProofs <- {}, DelegationProofs <- {}

----------------------------------------------------------------------------
(* The memory columns *)

num_main_chunks == Len(program) \div CyclesPerChunk
Rows == 0 .. CyclesPerChunk - 1

\* The last access of every cell, as the RAM worker found it
final_timestamps == tracers[RamWorker].last_live_timestamps

\* The words that were accessed, in ascending order
touched == {w \in 0 .. Words - 1 : final_timestamps[Ram(w)] > 0}
touched_words == SetToSortSeq(touched, <)

lazy_init_row_PadLast(k) ==
    IF k <= Len(touched_words)
    THEN [address |-> touched_words[k], teardown |-> final_timestamps[Ram(touched_words[k])]]
    ELSE [address |-> 0, teardown |-> 0]

\* The k-th row of all circuits together: the words fill the last rows, the rows
\* before them, and the circuits that get no setup and teardown, are padding.
lazy_init_row(k) ==
    LET word == k - (num_main_chunks * CyclesPerChunk - Len(touched_words))
    IN  IF word > 0
        THEN [address |-> touched_words[word], teardown |-> final_timestamps[Ram(touched_words[word])]]
        ELSE [address |-> 0, teardown |-> 0]

\* What was recorded for an access; the worker of its chunk records it.
recorded(mode, write) == {r \in records : r.worker.mode = mode /\ r.write = write}
access_of(r) == [cell |-> r.cell, read |-> r.read]

main_memory(sequence) ==
    [inits |-> [c \in Rows |-> lazy_init_row(sequence * CyclesPerChunk + c + 1)],
     accesses |-> [s \in Rows \X (0 .. 2) |->
         LET write == timestamp_at_chunk_start(sequence) + TIMESTAMP_STEP * s[1] + s[2]
         IN  access_of(CHOOSE r \in recorded("cycles", write) : TRUE)],
     requests |-> [c \in Rows |->
         IF program[sequence * CyclesPerChunk + c + 1].op = "delegation" THEN 1 ELSE 0]]

\* The write timestamps of the delegations, in the order they were recorded
delegation_timestamps ==
    SetToSortSeq({r.write : r \in {q \in records : q.worker = DelegationWorker}}, <)

num_delegation_chunks ==
    (Len(delegation_timestamps) + RequestsPerCircuit - 1) \div RequestsPerCircuit

\* A circuit is full, or has rows left that answer nothing.
delegation_memory(j) ==
    [row \in 1 .. RequestsPerCircuit |->
        LET k == (j - 1) * RequestsPerCircuit + row
        IN  IF k <= Len(delegation_timestamps)
            THEN LET rs == SetToSeq(recorded("delegations", delegation_timestamps[k]))
                 IN  [timestamp |-> delegation_timestamps[k],
                      accesses |-> [i \in 1 .. Len(rs) |-> access_of(rs[i])]]
            ELSE [timestamp |-> 0, accesses |-> <<>>]]

\* All types are committed to, also those without circuits.
delegation_commitments_Always ==
    <<<<"delegation", 1>>>> \o [j \in 1 .. num_delegation_chunks |-> <<"responses", delegation_memory(j)>>]

delegation_commitments ==
    IF num_delegation_chunks = 0
    THEN <<>>
    ELSE <<<<"delegation", 1>>>> \o [j \in 1 .. num_delegation_chunks |-> <<"responses", delegation_memory(j)>>]

\* What the prover draws the challenges from
fs_transform_for_memory_and_delegation_arguments ==
    <<<<"registers", registers>>, <<"setup", "program">>>>
        \o [i \in 1 .. num_main_chunks |-> <<"memory", main_memory(i - 1)>>]
        \o delegation_commitments

----------------------------------------------------------------------------
(* The proofs *)

main_proof(sequence) ==
    [setup_caps |-> "program", memory |-> main_memory(sequence), challenges |-> "drawn",
     circuit_sequence |-> sequence, input_pc |-> sequence, output_pc |-> sequence + 1]
delegation_proof(j) ==
    [memory |-> delegation_memory(j), challenges |-> "drawn", delegation_type |-> 1]

StatementInit ==
    /\ Init
    /\ at = "tracing"
    /\ registers = [x \in 0 .. Registers - 1 |-> 0]
    /\ num_circuits = 0
    /\ main = <<>>
    /\ delegation_type = 0
    /\ delegations = <<>>
    /\ transcript = <<>>

\* All workers are done: the final register values go to the statement.
CommitMemoryAndProve ==
    /\ at = "tracing"
    /\ \A w \in Workers : Finished(w)
    /\ at' = "registers"
    /\ registers' = [x \in 0 .. Registers - 1 |-> final_timestamps[Reg(x)]]
    /\ UNCHANGED <<vars, num_circuits, main, delegation_type, delegations, transcript>>

\* verify_full_statement reads the proofs from the prover's oracle.
Verify ==
    /\ UNCHANGED vars
    /\ \/ F!ReadRegisters /\ num_circuits' = num_main_chunks
       \/ F!VerifyMain({main_proof(Len(main))})
       \/ F!NextDelegationType /\ num_circuits' = num_delegation_chunks
       \/ F!VerifyDelegation({delegation_proof(Len(delegations) + 1)})
       \/ F!Finish

StatementNext == (Next /\ UNCHANGED statementVars) \/ CommitMemoryAndProve \/ Verify

\* Every worker's thread runs on, and so do the prover and the verifier after them.
StatementSpec ==
    /\ StatementInit
    /\ [][StatementNext]_<<vars, statementVars>>
    /\ WF_<<vars, statementVars>>(StatementNext)

----------------------------------------------------------------------------
(* Properties *)

\* Every execution is traced to its end and then has a statement that is accepted: no
\* assertion of verify_full_statement fails, and none of its loops waits for more,
\* on what the workers recorded and the prover laid out in circuits, with touched
\* words of ROM and RAM, circuits without any and unfinished delegation circuits.
TracedAccepted == <>(at = "accepted")

\* The verifier ends with the transcript the prover drew its challenges from, item
\* by item: fs_transform_for_memory_and_delegation_arguments and
\* verify_full_statement absorb the same in the same order.
SameTranscript ==
    at = "accepted" => transcript = fs_transform_for_memory_and_delegation_arguments
====
