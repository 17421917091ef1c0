----------------------- MODULE FullStatementVerifier ------------------------
(***************************************************************************)
(* The verifier of a whole execution (full_statement_verifier/src/lib.rs). *)
(* It verifies the proof of every chunk and of every delegation circuit    *)
(* one after the other, compares what neighbouring chunks claim, and only  *)
(* at the very end learns whether the challenges all of them used were the *)
(* ones the transcript of everything it saw gives, and whether the memory  *)
(* argument closes.                                                        *)
(*                                                                         *)
(* A proof is what it commits to: memory_caps stand for the lazy inits,    *)
(* the accesses and the delegation requests of a circuit.  Values are left *)
(* out, as a timestamp says which access wrote a value.  The proof system  *)
(* is ideal: a circuit's verifier accepts iff the circuit's constraints    *)
(* hold, challenges drawn from a transcript make the products and sums of  *)
(* what was absorbed before exact, and accumulators for other challenges,  *)
(* or of contents that were not absorbed, can be anything.                 *)
(***************************************************************************)
EXTENDS Integers, Sequences, FiniteSets

CONSTANTS
    Registers,            \* how many registers there are
    Programs,             \* setup caps of the programs
    CyclesPerChunk,       \* cycles, and lazy init rows, of a main circuit
    AccessesPerCycle,     \* 3: rs1, rs2 and rd
    MAX_CIRCUITS,         \* MAX_BASE_LAYER_CIRCUITS or MAX_RECURSION_LAYER_CIRCUITS
    NumDelegationTypes,   \* length of delegation_circuits_verifiers
    RequestsPerCircuit,   \* delegation_requests_per_circuit, the same for every type
    CHARACTERISTICS,      \* of the field
    DelegationAccesses,   \* the most accesses of a delegation
    MaxDelegationCircuits,\* bound on the circuits of a delegation type
    RegisterTimestamps,   \* what the environment may supply: final timestamps of
    MainProofs,           \* the registers, proofs of main circuits
    DelegationProofs      \* and proofs of delegation circuits

Reg(i) == [space |-> "register", index |-> i]
Ram(a) == [space |-> "ram", index |-> a]
Cells == [space : {"register", "ram"}, index : Nat]

TIMESTAMP_STEP == AccessesPerCycle + 1
DELEGATION_ACCESS_IDX == AccessesPerCycle

\* timestamp_from_chunk_cycle_and_sequence, and the index of the access
Time(sequence, cycle, idx) ==
    TIMESTAMP_STEP * (sequence * (CyclesPerChunk + 1) + cycle + 1) + idx

Cycles == 0 .. CyclesPerChunk - 1
Slots == Cycles \X (0 .. AccessesPerCycle - 1)

\* The columns of the memory subtree of a main circuit: an address and its
\* teardown timestamp per row, the accesses of the cycles, and the type of
\* delegation a cycle requests, 0 for none.
MainMemory ==
    [inits : [Cycles -> [address : Nat, teardown : Nat]],
     accesses : [Slots -> [cell : Cells, read : Nat]],
     requests : [Cycles -> 0 .. NumDelegationTypes]]

\* ProofOutput, with the public inputs of the circuit
MainProofType ==
    [setup_caps : Programs, memory : MainMemory, challenges : {"drawn", "other"},
     circuit_sequence : Nat, input_pc : Nat, output_pc : Nat]

\* A row of a delegation circuit answers the request made at a timestamp; rows
\* with timestamp 0 answer none.
Response == [timestamp : Nat, accesses : Seq([cell : Cells, read : Nat])]
DelegationProofType ==
    [memory : [1 .. RequestsPerCircuit -> Response], challenges : {"drawn", "other"},
     delegation_type : 1 .. NumDelegationTypes]

ASSUME StatementAssumption ==
    /\ Registers \in Nat /\ CyclesPerChunk \in Nat \ {0} /\ AccessesPerCycle \in Nat \ {0}
    /\ MAX_CIRCUITS \in Nat /\ NumDelegationTypes \in Nat /\ RequestsPerCircuit \in Nat
    /\ DelegationAccesses \in Nat /\ CHARACTERISTICS \in Nat \ {0, 1}
    /\ MaxDelegationCircuits \in Nat
    /\ RegisterTimestamps \subseteq [0 .. Registers - 1 -> Nat]
    /\ MainProofs \subseteq MainProofType
    /\ DelegationProofs \subseteq DelegationProofType
    /\ \A d \in DelegationProofs : \A r \in 1 .. RequestsPerCircuit :
          Len(d.memory[r].accesses) <= DelegationAccesses

VARIABLES
    at,               \* where the verifier is
    registers,        \* registers_buffer: the final timestamp of every register
    num_circuits,     \* of the main circuit, or of the current delegation type
    main,             \* the main proofs so far; the code keeps the last two
    delegation_type,  \* the index of the current entry of delegation_circuits_verifiers
    delegations,      \* the delegation proofs so far
    transcript        \* what was absorbed, in order

vars == <<at, registers, num_circuits, main, delegation_type, delegations, transcript>>

Init ==
    /\ at = "registers"
    /\ registers \in RegisterTimestamps
    /\ num_circuits = 0
    /\ main = <<>>
    /\ delegation_type = 0
    /\ delegations = <<>>
    /\ transcript = <<>>

\* A failed assertion: the guest program of the verifier stops without an output.
panic ==
    /\ at' = "rejected"
    /\ main' = <<>>
    /\ delegations' = <<>>
    /\ transcript' = <<>>
    /\ num_circuits' = 0
    /\ delegation_type' = 0
    /\ UNCHANGED registers

\* registers_buffer, then the number of main circuits
ReadRegisters ==
    /\ at = "registers"
    /\ transcript' = <<<<"registers", registers>>>>
    /\ at' = "main"
    /\ num_circuits' \in 1 .. MAX_CIRCUITS
    /\ UNCHANGED <<registers, main, delegation_type, delegations>>

IsPadding(row) == row.address = 0 /\ row.teardown = 0

\* What is asked of two rows of lazy inits that follow one another: the addresses
\* grow, or the first of the rows is padding.
in_order(row, next) == next.address > row.address \/ IsPadding(row)

\* The constraints of the main circuit: an access reads from before it writes, and
\* the rows of lazy inits are in order.  The timestamp an access writes is not in
\* the proof, it follows from circuit_sequence and the row.
main_risc_v_circuit_verifier(p) ==
    /\ \A s \in Slots : p.memory.accesses[s].read < Time(p.circuit_sequence, s[1], s[2])
    /\ \A c \in Cycles : c + 1 \in Cycles => in_order(p.memory.inits[c], p.memory.inits[c + 1])

\* Only addresses are compared.
lazy_inits_continue_AnyEqual(previous, current) ==
    LET last == previous.memory.inits[CyclesPerChunk - 1]
        first == current.memory.inits[0]
    IN  first.address > last.address \/ last.address = 0

\* lazy_init_one_before_last_row of one circuit and lazy_init_first_row of the next
lazy_inits_continue(previous, current) ==
    in_order(previous.memory.inits[CyclesPerChunk - 1], current.memory.inits[0])

sequence_matches(p, circuit_sequence) == p.circuit_sequence = circuit_sequence

\* The assertions about a circuit and the one before it
continues(previous, current) ==
    /\ previous.setup_caps = current.setup_caps
    /\ previous.challenges = current.challenges
    /\ lazy_inits_continue(previous, current)

\* The pc a circuit ends with is not carried over.
expected_input_pc_Entry == 0

expected_input_pc == IF main = <<>> THEN 0 ELSE main[Len(main)].output_pc

\* The setup is absorbed once, the memory caps of every circuit.
absorbed(p) ==
    (IF main = <<>> THEN <<<<"setup", p.setup_caps>>>> ELSE <<>>) \o <<<<"memory", p.memory>>>>

\* One iteration of the loop over the main circuits, for some proof
VerifyMain(Proofs) ==
    /\ at = "main"
    /\ Len(main) < num_circuits
    /\ \E p \in Proofs :
          \/ /\ main_risc_v_circuit_verifier(p)
             /\ sequence_matches(p, Len(main))
             /\ main # <<>> => continues(main[Len(main)], p)
             /\ p.input_pc = expected_input_pc
             /\ main' = Append(main, p)
             /\ transcript' = transcript \o absorbed(p)
             /\ UNCHANGED <<at, registers, num_circuits, delegation_type, delegations>>
          \/ /\ \/ ~main_risc_v_circuit_verifier(p)
                \/ ~sequence_matches(p, Len(main))
                \/ main # <<>> /\ ~continues(main[Len(main)], p)
                \/ p.input_pc # expected_input_pc
             /\ panic

\* proof_output_0 holds the last of the circuits with an even circuit_sequence.
proof_output_0 == main[IF Len(main) % 2 = 1 THEN Len(main) ELSE Len(main) - 1]

\* How many of the delegation proofs are of the current type
verified_of_type ==
    Cardinality({j \in DOMAIN delegations : delegations[j].delegation_type = delegation_type})

\* The loop over the circuits of a type is done.
all_verified ==
    \/ at = "main" /\ Len(main) = num_circuits
    \/ at = "delegations" /\ verified_of_type = num_circuits

\* The next entry of delegation_circuits_verifiers; its type is absorbed when there
\* are circuits of it.
NextDelegationType ==
    /\ all_verified
    /\ delegation_type < NumDelegationTypes
    /\ at' = "delegations"
    /\ delegation_type' = delegation_type + 1
    /\ num_circuits' \in 0 .. MaxDelegationCircuits
    /\ transcript' = IF num_circuits' > 0
                     THEN Append(transcript, <<"delegation", delegation_type'>>)
                     ELSE transcript
    /\ UNCHANGED <<registers, main, delegations>>

\* The constraints of a delegation circuit: what a request accesses is written at
\* its timestamp, and was read before.
delegation_circuit_verifier(d) ==
    \A r \in 1 .. RequestsPerCircuit :
        \A k \in DOMAIN d.memory[r].accesses :
            d.memory[r].timestamp > 0 => d.memory[r].accesses[k].read < d.memory[r].timestamp

same_challenges(d) == d.challenges = proof_output_0.challenges

\* One iteration of the loop over the circuits of a delegation type, for some proof
VerifyDelegation(Proofs) ==
    /\ at = "delegations"
    /\ verified_of_type < num_circuits
    /\ \E d \in Proofs :
          \/ /\ delegation_circuit_verifier(d)
             /\ d.delegation_type = delegation_type
             /\ same_challenges(d)
             /\ delegations' = Append(delegations, d)
             /\ transcript' = Append(transcript, <<"responses", d.memory>>)
             /\ UNCHANGED <<at, registers, num_circuits, main, delegation_type>>
          \/ /\ \/ ~delegation_circuit_verifier(d)
                \/ d.delegation_type # delegation_type
                \/ ~same_challenges(d)
             /\ panic

----------------------------------------------------------------------------
(* The memory and the delegation argument *)

\* A row of a delegation circuit that answers a request
answers(j, r) == delegations[j].memory[r].timestamp > 0

\* register_contribution is not multiplied in.
RegisterParts_Forgotten == {}

\* The parts of the proofs that take part in the memory argument: the registers,
\* the rows of lazy inits, the accesses of cycles and those of delegations
RegisterParts == {"register"} \X (0 .. Registers - 1) \X {0} \X {0}
InitParts == {"init"} \X (1 .. Len(main)) \X Cycles \X {0}
AccessParts == {"access"} \X (1 .. Len(main)) \X Cycles \X (0 .. AccessesPerCycle - 1)
DelegationParts ==
    {x \in {"delegation"} \X (1 .. Len(delegations)) \X (1 .. RequestsPerCircuit)
              \X (1 .. DelegationAccesses) :
        answers(x[2], x[3]) /\ x[4] <= Len(delegations[x[2]].memory[x[3]].accesses)}

\* What a part contributes to memory_grand_product_accumulator: the tuple of the
\* timestamp it reads of a cell, and of the one it writes.  A row of lazy inits, and
\* a register, reads at teardown what it wrote as timestamp 0.
contribution(x) ==
    CASE x[1] = "register" -> [cell |-> Reg(x[2]), read |-> registers[x[2]], write |-> 0]
      [] x[1] = "init" ->
            LET row == main[x[2]].memory.inits[x[3]]
            IN  [cell |-> Ram(row.address), read |-> row.teardown, write |-> 0]
      [] x[1] = "access" ->
            LET a == main[x[2]].memory.accesses[<<x[3], x[4]>>]
            IN  [cell |-> a.cell, read |-> a.read,
                 write |-> Time(main[x[2]].circuit_sequence, x[3], x[4])]
      [] x[1] = "delegation" ->
            LET r == delegations[x[2]].memory[x[3]]
            IN  [cell |-> r.accesses[x[4]].cell, read |-> r.accesses[x[4]].read,
                 write |-> r.timestamp]

contributions ==
    [x \in RegisterParts \cup InitParts \cup AccessParts \cup DelegationParts |-> contribution(x)]

\* memory_grand_product_accumulator is one: every tuple is read as often as written.
product_is_one(C) ==
    \A x \in DOMAIN C : \A t \in {C[x].read, C[x].write} :
        Cardinality({y \in DOMAIN C : C[y].cell = C[x].cell /\ C[y].read = t})
            = Cardinality({y \in DOMAIN C : C[y].cell = C[x].cell /\ C[y].write = t})

\* Who requests, and who answers, a delegation of a type at a timestamp
requesters(type, t) ==
    {ic \in (1 .. Len(main)) \X Cycles :
        /\ main[ic[1]].memory.requests[ic[2]] = type
        /\ Time(main[ic[1]].circuit_sequence, ic[2], DELEGATION_ACCESS_IDX) = t}
responders(type, t) ==
    {jr \in (1 .. Len(delegations)) \X (1 .. RequestsPerCircuit) :
        /\ delegations[jr[1]].delegation_type = type
        /\ delegations[jr[1]].memory[jr[2]].timestamp = t}

RequestTimes ==
    {Time(main[i].circuit_sequence, c, DELEGATION_ACCESS_IDX) : i \in 1 .. Len(main), c \in Cycles}
ResponseTimes ==
    {delegations[j].memory[r].timestamp : j \in 1 .. Len(delegations), r \in 1 .. RequestsPerCircuit}

\* The accumulator is looked at only when there are delegation circuits.
sum_is_zero_IfAny ==
    delegations # <<>> =>
        \A type \in 1 .. NumDelegationTypes : \A t \in (RequestTimes \cup ResponseTimes) \ {0} :
            Cardinality(requesters(type, t)) = Cardinality(responders(type, t))

\* delegation_set_accumulator is zero: a tuple has as many requests as responses,
\* in the field.
sum_is_zero ==
    \A type \in 1 .. NumDelegationTypes : \A t \in (RequestTimes \cup ResponseTimes) \ {0} :
        Cardinality(requesters(type, t)) % CHARACTERISTICS
            = Cardinality(responders(type, t)) % CHARACTERISTICS

\* The challenges were drawn after everything they are applied to was absorbed.
Absorbed(item) == \E k \in 1 .. Len(transcript) : transcript[k] = item
challenges_bind ==
    /\ Absorbed(<<"registers", registers>>)
    /\ \A i \in 1 .. Len(main) :
          main[i].challenges = "drawn" /\ Absorbed(<<"memory", main[i].memory>>)
    /\ \A j \in 1 .. Len(delegations) :
          delegations[j].challenges = "drawn" /\ Absorbed(<<"responses", delegations[j].memory>>)

total_delegation_requests == Len(delegations) * RequestsPerCircuit

\* From the end of the loops on: the number of responses, the challenges, the two
\* arguments.
Finish ==
    /\ all_verified
    /\ delegation_type = NumDelegationTypes
    /\ LET asserts == total_delegation_requests < CHARACTERISTICS
                        /\ proof_output_0.challenges = "drawn"
           arguments == product_is_one(contributions) /\ sum_is_zero
       IN  \/ /\ asserts /\ (challenges_bind => arguments)
              /\ at' = "accepted"
              /\ UNCHANGED <<registers, num_circuits, main, delegation_type, delegations, transcript>>
           \/ /\ ~asserts \/ ~challenges_bind \/ ~arguments
              /\ panic

Next ==
    \/ ReadRegisters
    \/ VerifyMain(MainProofs)
    \/ NextDelegationType
    \/ VerifyDelegation(DelegationProofs)
    \/ Finish

Spec == Init /\ [][Next]_vars

----------------------------------------------------------------------------
(* Properties *)

\* Every variable has its type.
TypeOK ==
    /\ at \in {"registers", "main", "delegations", "accepted", "rejected"}
    /\ registers \in RegisterTimestamps
    /\ num_circuits \in Nat
    /\ main \in Seq(MainProofType) /\ Len(main) <= MAX_CIRCUITS
    /\ delegation_type \in 0 .. NumDelegationTypes
    /\ delegations \in Seq(DelegationProofType)

\* No address is initialised twice in an accepted statement, by rows of one circuit
\* or of two: what the comparison of lazy_init_one_before_last_row with the next
\* lazy_init_first_row is for, when rows of padding are allowed in between.
InitsOnce ==
    at = "accepted" =>
        \A i, j \in 1 .. Len(main) : \A c, d \in Cycles :
            LET row == main[i].memory.inits[c]
                other == main[j].memory.inits[d]
            IN  row.address = other.address =>
                    IsPadding(row) \/ IsPadding(other) \/ <<i, c>> = <<j, d>>

\* When an access happens in the order of execution: the i-th circuit runs before the
\* next one, whatever circuit_sequence says
executed_at(x) ==
    IF x[1] = "access" THEN Time(x[2] - 1, x[3], x[4]) ELSE contribution(x).write

WrittenAt(cell) ==
    {0} \cup {executed_at(x) : x \in {y \in AccessParts \cup DelegationParts : contribution(y).cell = cell}}

ReadsLatest(cell, read, now) ==
    read \in WrittenAt(cell) /\ \A t \in WrittenAt(cell) : t < now => t <= read

\* In an accepted statement memory is a memory: every access of a cycle and of a
\* delegation reads what the latest access of the cell before it, in the order of
\* execution, has written, across all circuits; and the registers in
\* registers_buffer, which the statement outputs, are the ones written last.
MemoryConsistent ==
    at = "accepted" =>
        /\ \A x \in AccessParts \cup DelegationParts :
              ReadsLatest(contribution(x).cell, contribution(x).read, executed_at(x))
        /\ \A x \in 0 .. Registers - 1 :
              registers[x] \in WrittenAt(Reg(x)) /\ \A t \in WrittenAt(Reg(x)) : t <= registers[x]

\* In an accepted statement every delegation requested by a cycle is answered by one
\* row of a circuit of its type, and nothing else is: "All requests are unique (due
\* to timestamps)" and fewer responses than the field has elements make the sum exact.
DelegationsAnswered ==
    at = "accepted" =>
        /\ \A i \in 1 .. Len(main) : \A c \in Cycles :
              LET type == main[i].memory.requests[c]
              IN  type # 0 =>
                    Cardinality(responders(type, Time(i - 1, c, DELEGATION_ACCESS_IDX))) = 1
        /\ \A j \in 1 .. Len(delegations) : \A r \in 1 .. RequestsPerCircuit :
              answers(j, r) =>
                \E i \in 1 .. Len(main) : \E c \in Cycles :
                    /\ main[i].memory.requests[c] = delegations[j].delegation_type
                    /\ Time(i - 1, c, DELEGATION_ACCESS_IDX) = delegations[j].memory[r].timestamp

\* The end parameters an accepted statement hashes into its output, the setup caps of
\* proof_output_0 and the last pc, are those of one run of one program: it starts
\* at 0, every circuit continues where the one before stopped, and has those caps.
EndParamsOfAll ==
    at = "accepted" =>
        /\ main[1].input_pc = 0
        /\ \A i \in 1 .. Len(main) : main[i].setup_caps = proof_output_0.setup_caps
        /\ \A i \in 1 .. Len(main) - 1 : main[i + 1].input_pc = main[i].output_pc
====
