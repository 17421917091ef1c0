------------------------- MODULE MCExecutionTracer --------------------------
(***************************************************************************)
(* Programs to trace and to verify: two registers besides x0, a ROM of two *)
(* words and a RAM of two, chunks of three cycles.                         *)
(***************************************************************************)
EXTENDS TracedStatement

Alu(rs1, rs2, rd) == [op |-> "alu", rs1 |-> rs1, rs2 |-> rs2, rd |-> rd]
Load(rs1, word, rd) == [op |-> "load", rs1 |-> rs1, word |-> word, rd |-> rd]
Store(rs1, rs2, word) == [op |-> "store", rs1 |-> rs1, rs2 |-> rs2, word |-> word]
Delegate(regs, words) ==
    [op |-> "delegation", rs1 |-> 0, rs2 |-> 0, rd |-> 0, registers |-> regs, words |-> words]

\* The same register three times in a cycle, loads from ROM and RAM, stores, and
\* delegations that meet the words and registers of the cycles around them.
MCChunks ==
    << <<Alu(1, 1, 1), Load(1, 1, 2), Store(2, 1, 3)>>,
       <<Delegate({1, 2}, {2, 3}), Store(1, 2, 2), Alu(0, 0, 0)>>,
       <<Load(2, 3, 2), Delegate({1}, {2}), Delegate({1, 2}, {2, 3})>>,
       <<Load(1, 0, 1), Store(1, 1, 3), Load(2, 3, 1)>> >>

\* Two neighbours in either order, and three chunks with delegations in the outer ones
MCPrograms ==
    {MCChunks[k] \o MCChunks[(k % 4) + 1] : k \in 1 .. 4}
        \cup {MCChunks[(k % 4) + 1] \o MCChunks[k] : k \in 1 .. 4}
        \cup {MCChunks[3] \o MCChunks[4] \o MCChunks[3]}
=============================================================================
