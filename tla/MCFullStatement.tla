-------------------------- MODULE MCFullStatement ---------------------------
(***************************************************************************)
(* Statements of two chunks of one cycle with one access each, one         *)
(* register, RAM of two words and one delegation, and the recursion above  *)
(* those that are accepted.                                                *)
(***************************************************************************)
EXTENDS RecursionChain, TLC

\* What is written: at initialisation, by the access and the delegation of the first
\* circuit, and by the access of the second, whose request has no answer.
Timestamps == {0, Time(0, 0, 0), Time(0, 0, 1), Time(1, 0, 0)}
MCCells == {Reg(0), Ram(0), Ram(1)}
\* An access together with the cycle it is in: it reads from before it writes.
MCAccesses == {<<n, a>> \in (0 .. 1) \X [cell : MCCells, read : Timestamps] : a.read < Time(n, 0, 0)}
MCDelegated == {a \in [cell : MCCells, read : Timestamps] : a.read < Time(0, 0, 1)}

MCRegisterTimestamps == [{0} -> Timestamps]
MCMainProofs ==
    {[setup_caps |-> caps, challenges |-> ch, circuit_sequence |-> na[1],
      input_pc |-> pc[1], output_pc |-> pc[2],
      memory |-> [inits |-> 0 :> row, accesses |-> <<0, 0>> :> na[2], requests |-> 0 :> type]] :
        caps \in Programs, ch \in {"drawn", "other"}, pc \in {<<0, 8>>, <<8, 12>>},
        row \in [address : 0 .. 1, teardown : Timestamps], na \in MCAccesses, type \in 0 .. 1}
MCDelegationProofs ==
    {[challenges |-> ch, delegation_type |-> 1,
      memory |-> <<[timestamp |-> Time(0, 0, 1), accesses |-> <<a>>]>>] :
        ch \in {"drawn", "other"}, a \in MCDelegated}
Symmetry == Permutations(Programs)
====
