------------------------ MODULE ExecutionTracerProofs -----------------------
(***************************************************************************)
(* Proofs about ExecutionTracer: for all programs, numbers of workers and  *)
(* sizes of chunks and memory, timestamps grow from access to access.      *)
(***************************************************************************)
EXTENDS ExecutionTracer, TLAPS

\* How far a worker is in the program.
Position(t) == t.chunk * CyclesPerChunk + t.cycle

\* The state of one tracer: its timestamp is that of its cycle, and no cell was
\* accessed at this timestamp or after it.
TracerOK(t) ==
    /\ t \in [chunk : Nat, cycle : 0 .. CyclesPerChunk, current_timestamp : Nat,
              last_live_timestamps : [Cells -> Nat]]
    /\ t.current_timestamp = timestamp_at_chunk_start(t.chunk) + TIMESTAMP_STEP * t.cycle
    /\ Position(t) <= Len(program)
    /\ \A c \in Cells : t.last_live_timestamps[c] < t.current_timestamp

Records == [worker : Workers, cell : Cells, read : Nat, write : Nat]

\* The inductive invariant.
IInv ==
    /\ program \in Programs
    /\ tracers \in [Workers -> [chunk : Nat, cycle : 0 .. CyclesPerChunk,
                                current_timestamp : Nat, last_live_timestamps : [Cells -> Nat]]]
    /\ \A w \in Workers : TracerOK(tracers[w])
    /\ records \subseteq Records
    /\ AccessesIncrease

\* The cells an instruction accesses exist, and what it accesses after its
\* delegation is not what the delegation accessed.
LEMMA AccessedCells ==
    ASSUME NEW i \in Instructions
    PROVE  /\ Reg(i.rs1) \in Cells
           /\ second_access(i) \in Cells
           /\ third_access(i) \in Cells
           /\ record_delegation(i) \subseteq Cells
           /\ third_access(i) \notin record_delegation(i)
<1> USE SizesAssumption
<1>1. CASE i.op = "alu"
  BY <1>1 DEF Instructions, Cells, Reg, Ram, second_access, third_access, record_delegation
<1>2. CASE i.op = "load"
  <2>1. i.rs1 \in 0 .. Registers - 1 /\ i.rd \in 0 .. Registers - 1 /\ i.word \in 0 .. Words - 1
    BY <1>2 DEF Instructions
  <2>2. (IF i.word < RomWords THEN 0 ELSE i.word) \in 0 .. Words - 1
    BY <2>1
  <2>3. PICK word \in 0 .. Words - 1 : word = IF i.word < RomWords THEN 0 ELSE i.word
    BY <2>2
  <2>4. second_access(i) = Ram(word)
    BY <1>2, <2>3 DEF second_access, trace_ram_read
  <2>5. third_access(i) = Reg(i.rd) /\ record_delegation(i) = {}
    BY <1>2 DEF third_access, record_delegation
  <2>6. Reg(i.rs1) \in Cells /\ Reg(i.rd) \in Cells /\ Ram(word) \in Cells
    BY <2>1, <2>3 DEF Cells
  <2> QED BY <2>4, <2>5, <2>6
<1>3. CASE i.op = "store"
  BY <1>3 DEF Instructions, Cells, Reg, Ram, second_access, third_access, record_delegation
<1>4. CASE i.op = "delegation"
  <2>1. /\ i.rs1 \in 0 .. Registers - 1 /\ i.rs2 \in 0 .. Registers - 1 /\ i.rd = 0
        /\ i.registers \subseteq 1 .. Registers - 1 /\ i.words \subseteq RomWords .. Words - 1
    BY <1>4 DEF Instructions
  <2>2. /\ second_access(i) = Reg(i.rs2) /\ third_access(i) = Reg(0)
        /\ record_delegation(i) = {Reg(r) : r \in i.registers} \cup {Ram(w) : w \in i.words}
    BY <1>4, <2>1 DEF second_access, third_access, record_delegation
  <2>3. 0 \in 0 .. Registers - 1
    OBVIOUS
  <2>4. {Reg(r) : r \in i.registers} \subseteq Cells
    BY <2>1 DEF Cells
  <2>5. {Ram(w) : w \in i.words} \subseteq Cells
    BY <2>1 DEF Cells
  <2>6. \A r \in i.registers : Reg(0) # Reg(r)
    BY <2>1 DEF Reg
  <2>7. \A w \in i.words : Reg(0) # Ram(w)
    BY DEF Reg, Ram
  <2> QED BY <2>1, <2>2, <2>3, <2>4, <2>5, <2>6, <2>7 DEF Cells
<1> QED BY <1>1, <1>2, <1>3, <1>4 DEF Instructions

\* Chunks leave one cycle's timestamps between them.
LEMMA ChunkStart ==
    ASSUME NEW n \in Nat
    PROVE  /\ timestamp_at_chunk_start(n) \in Nat
           /\ timestamp_at_chunk_start(n) % TIMESTAMP_STEP = 0
           /\ timestamp_at_chunk_start(n) > 0
           /\ timestamp_at_chunk_start(n + 1)
                = timestamp_at_chunk_start(n) + TIMESTAMP_STEP * CyclesPerChunk + TIMESTAMP_STEP
<1>1. PICK m \in Nat : m = n * (CyclesPerChunk + 1)
  BY SizesAssumption
<1>2. n * (TIMESTAMP_STEP * (CyclesPerChunk + 1)) = 4 * m
  BY <1>1, SizesAssumption DEF TIMESTAMP_STEP
<1>3. (n + 1) * (TIMESTAMP_STEP * (CyclesPerChunk + 1)) = 4 * m + 4 * CyclesPerChunk + 4
  BY <1>1, SizesAssumption DEF TIMESTAMP_STEP
<1> QED BY <1>2, <1>3, SizesAssumption
        DEF timestamp_at_chunk_start, TIMESTAMP_STEP, INITIAL_TIMESTAMP_AT_CHUNK_START

\* The invariant holds before the first cycle.
LEMMA IInvInit == Init => IInv
<1> SUFFICES ASSUME Init PROVE IInv OBVIOUS
<1>1. \A w \in Workers : tracers[w] = [chunk |-> 0, cycle |-> 0,
          current_timestamp |-> timestamp_at_chunk_start(0),
          last_live_timestamps |-> [c \in Cells |-> 0]]
  BY DEF Init
<1>2. timestamp_at_chunk_start(0) \in Nat /\ timestamp_at_chunk_start(0) > 0
  BY ChunkStart
<1>3. Len(program) \in Nat
  BY ProgramsAssumption DEF Init
<1>4. ASSUME NEW w \in Workers PROVE TracerOK(tracers[w])
  <2>1. /\ tracers[w].chunk = 0 /\ tracers[w].cycle = 0
        /\ tracers[w].current_timestamp = timestamp_at_chunk_start(0)
        /\ tracers[w].last_live_timestamps = [c \in Cells |-> 0]
        /\ tracers[w] \in [chunk : Nat, cycle : 0 .. CyclesPerChunk, current_timestamp : Nat,
                          last_live_timestamps : [Cells -> Nat]]
    BY <1>1, <1>2, SizesAssumption
  <2>2. Position(tracers[w]) = 0
    BY <2>1, SizesAssumption DEF Position
  <2> QED BY <1>2, <1>3, <2>1, <2>2 DEF TracerOK, TIMESTAMP_STEP
<1> QED BY <1>1, <1>2, <1>4, SizesAssumption DEF Init, IInv, AccessesIncrease

\* One cycle of a worker, with its timestamps.
LEMMA IInvCycle ==
    ASSUME IInv, NEW w \in Workers, Cycle(w)
    PROVE  IInv'
<1> DEFINE t == tracers[w]
           now == t.current_timestamp
           i == program[t.chunk * CyclesPerChunk + t.cycle + 1]
           first == Reg(i.rs1)
           second == second_access(i)
           third == third_access(i)
           delegated == record_delegation(i)
           last0 == t.last_live_timestamps
           last1 == mark_use(last0, {first}, now + 0)
           last2 == mark_use(last1, {second}, now + 1)
           last3 == mark_use(last2, delegated, now + 3)
           last4 == mark_use(last3, {third}, now + 2)
<1>1. /\ t \in [chunk : Nat, cycle : 0 .. CyclesPerChunk, current_timestamp : Nat,
                last_live_timestamps : [Cells -> Nat]]
      /\ now = timestamp_at_chunk_start(t.chunk) + 4 * t.cycle
      /\ Position(t) <= Len(program)
      /\ \A c \in Cells : last0[c] < now
  BY DEF IInv, TracerOK, TIMESTAMP_STEP
<1>2. Position(t) \in Nat /\ Len(program) \in Nat /\ Position(t) < Len(program)
  <2>1. Len(program) \in Nat /\ program \in Seq(Instructions)
    BY ProgramsAssumption DEF IInv
  <2>2. Position(t) \in Nat
    <3>1. t.chunk \in Nat /\ t.cycle \in Nat /\ CyclesPerChunk \in Nat
      BY <1>1, SizesAssumption
    <3>2. t.chunk * CyclesPerChunk \in Nat
      BY <3>1
    <3> QED BY <3>1, <3>2 DEF Position
  <2>3. ~Finished(w)
    BY DEF Cycle
  <2>4. Position(t) # Len(program)
    BY <2>3 DEF Finished, Position
  <2> QED BY <1>1, <2>1, <2>2, <2>4
<1>3. i \in Instructions
  BY <1>2, ProgramsAssumption DEF IInv, Position
<1>4. /\ first \in Cells /\ second \in Cells /\ third \in Cells
      /\ delegated \subseteq Cells /\ third \notin delegated
  BY <1>3, AccessedCells
<1>5. t.cycle + 1 \in 0 .. CyclesPerChunk
  <2>1. t.cycle < CyclesPerChunk
    BY DEF Cycle
  <2> QED BY <1>1, <2>1, SizesAssumption
<1> HIDE DEF i, first, second, third, delegated
<1>6. last0 \in [Cells -> Nat] /\ now \in Nat
  BY <1>1
<1> HIDE DEF now, last0
<1>7. last1 \in [Cells -> Nat] /\ (\A c \in Cells : last1[c] < now + 1)
  BY <1>1, <1>6 DEF mark_use
<1> HIDE DEF last1
<1>8. last2 \in [Cells -> Nat] /\ (\A c \in Cells : last2[c] < now + 2)
  BY <1>6, <1>7 DEF mark_use
<1> HIDE DEF last2
<1>9. /\ last3 \in [Cells -> Nat]
      /\ \A c \in Cells : last3[c] < now + 4
      /\ \A c \in Cells : c \notin delegated => last3[c] < now + 2
  BY <1>6, <1>8 DEF mark_use
<1> HIDE DEF last3
<1>10. last4 \in [Cells -> Nat] /\ (\A c \in Cells : last4[c] < now + 4)
  BY <1>6, <1>9 DEF mark_use
<1> HIDE DEF last4
<1>11. tracers' = [tracers EXCEPT ![w] =
         [chunk |-> t.chunk, cycle |-> t.cycle + 1, current_timestamp |-> now + 4,
          last_live_timestamps |-> last4]]
  BY DEF Cycle, at_cycle_end, TIMESTAMP_STEP, RS1_ACCESS_IDX, RS2_ACCESS_IDX,
         DELEGATION_ACCESS_IDX, RD_ACCESS_IDX, i, first, second, third, delegated, now,
         last0, last1, last2, last3, last4
<1>12. PICK next : next = [chunk |-> t.chunk, cycle |-> t.cycle + 1,
                          current_timestamp |-> now + 4, last_live_timestamps |-> last4]
  OBVIOUS
<1>13. /\ next \in [chunk : Nat, cycle : 0 .. CyclesPerChunk, current_timestamp : Nat,
                    last_live_timestamps : [Cells -> Nat]]
       /\ next.chunk = t.chunk /\ next.cycle = t.cycle + 1
       /\ next.current_timestamp = now + 4 /\ next.last_live_timestamps = last4
  BY <1>1, <1>5, <1>6, <1>12, <1>10
<1>14. program' = program
  BY DEF Cycle
<1>15. /\ timestamp_at_chunk_start(next.chunk) \in Nat
       /\ next.current_timestamp = timestamp_at_chunk_start(next.chunk) + 4 * next.cycle
  <2>1. t.chunk \in Nat /\ t.cycle \in Int
    BY <1>1
  <2>2. timestamp_at_chunk_start(t.chunk) \in Nat
    BY <2>1, ChunkStart
  <2>3. now = timestamp_at_chunk_start(t.chunk) + 4 * t.cycle
    BY <1>1 DEF now
  <2> QED BY <1>13, <2>1, <2>2, <2>3
<1>16. Position(next) <= Len(program)
  <2>1. Position(next) = Position(t) + 1
    <3>1. t.chunk \in Nat /\ t.cycle \in Int /\ CyclesPerChunk \in Nat
      BY <1>1, SizesAssumption
    <3>2. PICK k \in Nat : k = t.chunk * CyclesPerChunk
      BY <3>1
    <3>3. Position(t) = k + t.cycle /\ Position(next) = k + (t.cycle + 1)
      BY <1>13, <3>2 DEF Position
    <3> QED BY <3>1, <3>2, <3>3
  <2> QED BY <1>2, <2>1
<1>17. TracerOK(next)'
  BY <1>13, <1>14, <1>15, <1>16, <1>10
     DEF TracerOK, TIMESTAMP_STEP, timestamp_at_chunk_start, INITIAL_TIMESTAMP_AT_CHUNK_START,
         Position
<1>18. /\ tracers' \in [Workers -> [chunk : Nat, cycle : 0 .. CyclesPerChunk,
                                  current_timestamp : Nat, last_live_timestamps : [Cells -> Nat]]]
       /\ tracers'[w] = next
       /\ \A v \in Workers : v # w => tracers'[v] = tracers[v]
  BY <1>11, <1>12, <1>13 DEF IInv
<1>19. \A v \in Workers : TracerOK(tracers[v])'
  BY <1>14, <1>17, <1>18 DEF IInv, TracerOK
<1>20. \A r \in records' : r \in Records /\ r.read < r.write
  <2> SUFFICES ASSUME NEW r \in records' PROVE r \in Records /\ r.read < r.write
    OBVIOUS
  <2>1. CASE r \in records
    BY <2>1 DEF IInv, AccessesIncrease
  <2>2. CASE r = [worker |-> w, cell |-> first, read |-> last0[first], write |-> now + 0]
    BY <2>2, <1>1, <1>4, <1>6 DEF Records, now, last0
  <2>3. CASE r = [worker |-> w, cell |-> second, read |-> last1[second], write |-> now + 1]
    BY <2>3, <1>4, <1>6, <1>7 DEF Records
  <2>4. CASE r = [worker |-> w, cell |-> third, read |-> last3[third], write |-> now + 2]
    BY <2>4, <1>4, <1>6, <1>9 DEF Records
  <2>5. CASE \E c \in delegated :
               r = [worker |-> w, cell |-> c, read |-> last2[c], write |-> now + 3]
    BY <2>5, <1>4, <1>6, <1>8 DEF Records
  <2>6. \/ r \in records
        \/ r = [worker |-> w, cell |-> first, read |-> last0[first], write |-> now + 0]
        \/ r = [worker |-> w, cell |-> second, read |-> last1[second], write |-> now + 1]
        \/ r = [worker |-> w, cell |-> third, read |-> last3[third], write |-> now + 2]
        \/ \E c \in delegated :
               r = [worker |-> w, cell |-> c, read |-> last2[c], write |-> now + 3]
    BY DEF Cycle, RS1_ACCESS_IDX, RS2_ACCESS_IDX, DELEGATION_ACCESS_IDX, RD_ACCESS_IDX, i, first,
           second, third, delegated, now, last0, last1, last2, last3, last4
  <2> QED BY <2>1, <2>2, <2>3, <2>4, <2>5, <2>6
<1> QED BY <1>14, <1>18, <1>19, <1>20 DEF IInv, AccessesIncrease

\* Going on to the next chunk preserves the invariant.
LEMMA IInvNextChunk ==
    ASSUME IInv, NEW w \in Workers, NextChunk(w)
    PROVE  IInv'
<1> DEFINE t == tracers[w]
<1>1. PICK next : next = [chunk |-> t.chunk + 1, cycle |-> 0,
                          current_timestamp |-> timestamp_at_chunk_start(t.chunk + 1),
                          last_live_timestamps |-> t.last_live_timestamps]
  OBVIOUS
<1>2. /\ t \in [chunk : Nat, cycle : 0 .. CyclesPerChunk, current_timestamp : Nat,
                last_live_timestamps : [Cells -> Nat]]
      /\ t.current_timestamp = timestamp_at_chunk_start(t.chunk) + 4 * t.cycle
      /\ Position(t) <= Len(program)
      /\ \A c \in Cells : t.last_live_timestamps[c] < t.current_timestamp
  BY DEF IInv, TracerOK, TIMESTAMP_STEP
<1>3. /\ timestamp_at_chunk_start(t.chunk) \in Nat
      /\ timestamp_at_chunk_start(t.chunk + 1) \in Nat
      /\ timestamp_at_chunk_start(t.chunk + 1)
            = timestamp_at_chunk_start(t.chunk) + 4 * CyclesPerChunk + 4
  <2>1. t.chunk \in Nat /\ t.chunk + 1 \in Nat
    BY <1>2
  <2> QED BY <2>1, ChunkStart DEF TIMESTAMP_STEP
<1>4. t.cycle = CyclesPerChunk
  BY DEF NextChunk
<1>5. /\ next \in [chunk : Nat, cycle : 0 .. CyclesPerChunk, current_timestamp : Nat,
                   last_live_timestamps : [Cells -> Nat]]
      /\ next.chunk = t.chunk + 1 /\ next.cycle = 0
      /\ next.current_timestamp = timestamp_at_chunk_start(t.chunk + 1)
      /\ next.last_live_timestamps = t.last_live_timestamps
  <2>1. t.chunk + 1 \in Nat /\ 0 \in 0 .. CyclesPerChunk /\ t.last_live_timestamps \in [Cells -> Nat]
    BY <1>2, SizesAssumption
  <2> HIDE DEF t
  <2> QED
    BY <1>1, <1>3, <2>1
<1>6. Position(next) = Position(t)
  <2>1. t.chunk \in Nat /\ CyclesPerChunk \in Nat
    BY <1>2, SizesAssumption
  <2>2. (t.chunk + 1) * CyclesPerChunk + 0 = t.chunk * CyclesPerChunk + CyclesPerChunk
    BY <2>1
  <2> QED BY <1>4, <1>5, <2>2 DEF Position
<1>7. \A c \in Cells : next.last_live_timestamps[c] < next.current_timestamp
  <2>1. t.current_timestamp \in Nat /\ CyclesPerChunk \in Nat
    BY <1>2, SizesAssumption
  <2>2. t.current_timestamp < next.current_timestamp
    BY <1>2, <1>3, <1>4, <1>5, <2>1
  <2>3. next.current_timestamp \in Nat
    BY <1>3, <1>5
  <2>4. ASSUME NEW c \in Cells
        PROVE  t.last_live_timestamps[c] \in Nat /\ t.last_live_timestamps[c] < t.current_timestamp
    BY <1>2
  <2> QED BY <1>5, <2>1, <2>2, <2>3, <2>4
<1>8. program' = program /\ records' = records
  BY DEF NextChunk
<1>9. TracerOK(next)'
  BY <1>2, <1>3, <1>5, <1>6, <1>7, <1>8
     DEF TracerOK, TIMESTAMP_STEP, timestamp_at_chunk_start, INITIAL_TIMESTAMP_AT_CHUNK_START,
         Position
<1>10. /\ tracers' \in [Workers -> [chunk : Nat, cycle : 0 .. CyclesPerChunk,
                                  current_timestamp : Nat, last_live_timestamps : [Cells -> Nat]]]
       /\ tracers'[w] = next
       /\ \A v \in Workers : v # w => tracers'[v] = tracers[v]
  BY <1>1, <1>5 DEF IInv, NextChunk
<1>11. \A v \in Workers : TracerOK(tracers[v])'
  BY <1>8, <1>9, <1>10 DEF IInv, TracerOK
<1> QED BY <1>8, <1>10, <1>11 DEF IInv, AccessesIncrease

\* Every step of a worker preserves the invariant.
LEMMA IInvNext == IInv /\ [Next]_vars => IInv'
<1> SUFFICES ASSUME IInv, [Next]_vars PROVE IInv' OBVIOUS
<1>1. CASE \E w \in Workers : Cycle(w)
  BY <1>1, IInvCycle
<1>2. CASE \E w \in Workers : NextChunk(w)
  BY <1>2, IInvNextChunk
<1>3. CASE UNCHANGED vars
  BY <1>3 DEF vars, IInv, TracerOK, Position, AccessesIncrease
<1> QED BY <1>1, <1>2, <1>3 DEF Next

\* Every variable keeps its type; between cycles timestamps are multiples of
\* TIMESTAMP_STEP, as every trace function asserts in debug builds.
THEOREM TypeCorrect == Spec => []TypeOK
<1>1. IInv => TypeOK
  <2> SUFFICES ASSUME IInv PROVE TypeOK OBVIOUS
  <2>1. ASSUME NEW w \in Workers
        PROVE  tracers[w].current_timestamp % TIMESTAMP_STEP = 0
    <3>1. /\ tracers[w].chunk \in Nat /\ tracers[w].cycle \in Nat
          /\ tracers[w].current_timestamp
                = timestamp_at_chunk_start(tracers[w].chunk) + 4 * tracers[w].cycle
      BY SizesAssumption DEF IInv, TracerOK, TIMESTAMP_STEP
    <3>2. /\ timestamp_at_chunk_start(tracers[w].chunk) \in Nat
          /\ timestamp_at_chunk_start(tracers[w].chunk) % 4 = 0
      BY <3>1, ChunkStart DEF TIMESTAMP_STEP
    <3> QED BY <3>1, <3>2 DEF TIMESTAMP_STEP
  <2> QED BY <2>1 DEF IInv, TypeOK, Records
<1> QED BY <1>1, IInvInit, IInvNext, PTL DEF Spec

\* Every access that a worker records reads a value written strictly before it:
\* the debug_assert! of mark_register_use and mark_ram_slot_use holds in every
\* cycle of every chunk.
THEOREM AccessesAlwaysIncrease == Spec => []AccessesIncrease
<1>1. IInv => AccessesIncrease
  BY DEF IInv
<1> QED BY <1>1, IInvInit, IInvNext, PTL DEF Spec
=============================================================================
