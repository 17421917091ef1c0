--------------------------- MODULE ExecutionTracer --------------------------
(***************************************************************************)
(* The timestamps of register and RAM accesses (gpu_prover/src/execution/  *)
(* tracer.rs).  Every CPU worker runs the whole program with a tracer of   *)
(* its own and records a part of the accesses: each cycles worker its      *)
(* chunks, the delegation worker the accesses of delegations, the RAM      *)
(* worker the last access of every cell.  The memory argument of the proof *)
(* needs these parts to fit together.                                      *)
(***************************************************************************)
EXTENDS Integers, Sequences, FiniteSets

CONSTANTS
    Programs,         \* the programs that may run, as sequences of instructions
    CyclesPerChunk,
    CyclesWorkers,    \* CYCLES_TRACING_WORKERS_COUNT
    Registers,        \* how many registers there are
    Words,            \* how many words ROM and RAM have
    RomWords          \* the first of them are ROM

Reg(i) == [space |-> "register", index |-> i]
Ram(i) == [space |-> "ram", index |-> i]
Cells == {Reg(i) : i \in 0 .. Registers - 1} \cup {Ram(i) : i \in 0 .. Words - 1}

\* What an instruction accesses.  A delegation is called with csrrw and x0 for
\* rd, and accesses registers other than x0 and distinct words of RAM.
Instructions ==
    LET Register == 0 .. Registers - 1
        Writable == RomWords .. Words - 1
    IN  [op : {"alu"}, rs1 : Register, rs2 : Register, rd : Register]
            \cup [op : {"load"}, rs1 : Register, word : 0 .. Words - 1, rd : Register]
            \cup [op : {"store"}, rs1 : Register, rs2 : Register, word : Writable]
            \cup [op : {"delegation"}, rs1 : Register, rs2 : Register, rd : {0},
                  registers : SUBSET (1 .. Registers - 1), words : SUBSET Writable]

ASSUME SizesAssumption ==
    /\ CyclesPerChunk \in Nat \ {0} /\ CyclesWorkers \in Nat \ {0}
    /\ Registers \in Nat \ {0} /\ Words \in Nat /\ RomWords \in 1 .. Words

\* run_cycles fills the last chunk when the program has ended.
ASSUME ProgramsAssumption ==
    \A p \in Programs :
        p \in Seq(Instructions) /\ Len(p) > 0 /\ Len(p) % CyclesPerChunk = 0

VARIABLES
    program,  \* the program that runs
    tracers,  \* per worker: [chunk, cycle, current_timestamp, last_live_timestamps]
    records   \* the accesses recorded: [worker, cell, read, write]

vars == <<program, tracers, records>>

RamWorker == [mode |-> "ram", split |-> 0]
CyclesWorker(i) == [mode |-> "cycles", split |-> i]
DelegationWorker == [mode |-> "delegations", split |-> 0]
Workers == {RamWorker, DelegationWorker} \cup {CyclesWorker(i) : i \in 0 .. CyclesWorkers - 1}

TIMESTAMP_STEP == 4
INITIAL_TIMESTAMP_AT_CHUNK_START == 4

RS1_ACCESS_IDX == 0
RS2_ACCESS_IDX == 1
RD_ACCESS_IDX == 2
DELEGATION_ACCESS_IDX == 3

\* Every chunk starts anew.
timestamp_at_chunk_start_Restarts(sequence) == INITIAL_TIMESTAMP_AT_CHUNK_START

\* timestamp_from_chunk_cycle_and_sequence for cycle 0
timestamp_at_chunk_start(sequence) ==
    INITIAL_TIMESTAMP_AT_CHUNK_START + sequence * (TIMESTAMP_STEP * (CyclesPerChunk + 1))

Init ==
    /\ program \in Programs
    /\ tracers = [w \in Workers |->
                    [chunk |-> 0, cycle |-> 0, current_timestamp |-> timestamp_at_chunk_start(0),
                     last_live_timestamps |-> [c \in Cells |-> 0]]]
    /\ records = {}

\* mark_register_use and mark_ram_slot_use
mark_use(last_live_timestamps, cells, write_timestamp) ==
    [c \in Cells |-> IF c \in cells THEN write_timestamp ELSE last_live_timestamps[c]]

\* A read of ROM counts as a read of word 0.
trace_ram_read(word) == Ram(IF word < RomWords THEN 0 ELSE word)

\* The second access of a cycle is rs2, or the word that is loaded; the third is
\* rd, or the word that is stored to.
second_access(i) == IF i.op = "load" THEN trace_ram_read(i.word) ELSE Reg(i.rs2)
third_access(i) == IF i.op = "store" THEN Ram(i.word) ELSE Reg(i.rd)

record_delegation(i) ==
    IF i.op = "delegation"
    THEN {Reg(r) : r \in i.registers} \cup {Ram(w) : w \in i.words}
    ELSE {}

\* Every cycles worker records every chunk.
records_cycles_All(w, chunk) == w.mode = "cycles"

\* Whether a worker's tracer has TRACE_CYCLES set for a chunk.
records_cycles(w, chunk) == w.mode = "cycles" /\ chunk % CyclesWorkers = w.split

at_cycle_end(timestamp) == timestamp + TIMESTAMP_STEP

Finished(w) ==
    tracers[w].chunk * CyclesPerChunk + tracers[w].cycle = Len(program)

\* One cycle of a worker.  csrrw calls the delegation before it writes to rd.
Cycle(w) ==
    LET t == tracers[w]
        now == t.current_timestamp
        i == program[t.chunk * CyclesPerChunk + t.cycle + 1]
        first == Reg(i.rs1)
        second == second_access(i)
        third == third_access(i)
        delegated == record_delegation(i)
        last0 == t.last_live_timestamps
        last1 == mark_use(last0, {first}, now + RS1_ACCESS_IDX)
        last2 == mark_use(last1, {second}, now + RS2_ACCESS_IDX)
        last3 == mark_use(last2, delegated, now + DELEGATION_ACCESS_IDX)
        last4 == mark_use(last3, {third}, now + RD_ACCESS_IDX)
        Access(c, last, idx) == [worker |-> w, cell |-> c, read |-> last[c], write |-> now + idx]
    IN  /\ t.cycle < CyclesPerChunk
        /\ ~Finished(w)
        /\ tracers' = [tracers EXCEPT ![w] =
              [chunk |-> t.chunk, cycle |-> t.cycle + 1, current_timestamp |-> at_cycle_end(now),
               last_live_timestamps |-> last4]]
        /\ records' = records
              \cup (IF records_cycles(w, t.chunk)
                    THEN {Access(first, last0, RS1_ACCESS_IDX), Access(second, last1, RS2_ACCESS_IDX),
                          Access(third, last3, RD_ACCESS_IDX)}
                    ELSE {})
              \cup (IF w = DelegationWorker
                    THEN {Access(c, last2, DELEGATION_ACCESS_IDX) : c \in delegated}
                    ELSE {})
        /\ UNCHANGED program

\* The next chunk of a worker.
NextChunk(w) ==
    LET t == tracers[w] IN
    /\ t.cycle = CyclesPerChunk
    /\ ~Finished(w)
    /\ tracers' = [tracers EXCEPT ![w] =
          [chunk |-> t.chunk + 1, cycle |-> 0,
           current_timestamp |-> timestamp_at_chunk_start(t.chunk + 1),
           last_live_timestamps |-> t.last_live_timestamps]]
    /\ UNCHANGED <<program, records>>

Next == \E w \in Workers : Cycle(w) \/ NextChunk(w)

Spec == Init /\ [][Next]_vars

----------------------------------------------------------------------------
(* Properties *)

\* Every variable has its type; timestamps between cycles are multiples of
\* TIMESTAMP_STEP, as the debug_assert_eq! of every trace function says.
TypeOK ==
    /\ program \in Programs
    /\ \A w \in Workers :
          /\ tracers[w].chunk \in Nat
          /\ tracers[w].cycle \in 0 .. CyclesPerChunk
          /\ tracers[w].current_timestamp \in Nat
          /\ tracers[w].current_timestamp % TIMESTAMP_STEP = 0
          /\ tracers[w].last_live_timestamps \in [Cells -> Nat]
    /\ records \subseteq [worker : Workers, cell : Cells, read : Nat, write : Nat]

\* Every access reads a value that was written strictly before it, across cycles
\* and chunks: the debug_assert! of mark_register_use and mark_ram_slot_use.
AccessesIncrease == \A r \in records : r.read < r.write

\* When all workers are done, what they recorded separately is one history of the
\* memory: every cell starts at timestamp 0, every access reads what the access
\* before it wrote, whoever recorded that one, and the last timestamp is the one
\* of which the RAM worker makes the teardown.
Balanced ==
    (\A w \in Workers : Finished(w)) =>
        LET final == tracers[RamWorker].last_live_timestamps
            Reads == {<<r.cell, r.read>> : r \in records}
            Writes == {<<r.cell, r.write>> : r \in records}
        IN  /\ Cardinality(Reads) = Cardinality(records)
            /\ Cardinality(Writes) = Cardinality(records)
            /\ Reads \cup {<<c, final[c]>> : c \in Cells} = Writes \cup {<<c, 0>> : c \in Cells}
=============================================================================
