------------------------- MODULE MCExecutionProver --------------------------
(***************************************************************************)
(* Programs for the runs of ExecutionProver.                               *)
(***************************************************************************)
EXTENDS GpuClient

ProgramOf(needed, calls) ==
    [chunks |-> Len(needed),
     needed |-> [i \in 0 .. Len(needed) |-> IF i = 0 THEN 0 ELSE needed[i]],
     delegations |-> calls]

MCOne == {1}

\* Three chunks, of which two get a setup and teardown chunk; the cache has
\* room for two. The delegation witness is drained with room left in it.
MCCachedProgram == [b \in MCOne |-> ProgramOf(<<1, 1, 2>>, <<"blake">>)]
MCCachedApi == [b \in MCOne |-> "commit_memory_and_prove"]

\* Every chunk touches as much RAM as fits into one setup and teardown chunk, so
\* all of them wait for the end of the simulation. The delegations of the first
\* program fill one witness exactly and leave an empty one.
MCProveApi == [b \in MCOne |-> "prove"]
MCFourSetups == [b \in MCOne |-> ProgramOf(<<1, 2, 3, 4>>, <<"blake", "blake">>)]
MCFiveSetups == [b \in MCOne |-> ProgramOf(<<1, 2, 3, 4, 5>>, <<>>)]
=============================================================================
