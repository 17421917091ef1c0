--------------------------- MODULE RecursionChain --------------------------
(***************************************************************************)
(* The recursion above a verified execution.  The proofs of a base program *)
(* are accepted by verify_full_statement (FullStatementVerifier), then the *)
(* universal verifier, itself a program, is proved to accept them, and it  *)
(* is proved again to accept those proofs, level by level                  *)
(* (tools/cli/src/prover_utils.rs) until the RecursionStrategy             *)
(* (execution_utils/src/recursion.rs) says stop.                           *)
(*                                                                         *)
(* Which programs were run is a chain of hashes in the last eight output   *)
(* registers.  Three pieces of code compute it: the guest                  *)
(* (full_statement_verifier), from registers and a preimage it is handed;  *)
(* the host, which prepares that preimage one level ahead                  *)
(* (get_end_params_output); and generate_constants_for_binary, which says  *)
(* what the end of the chain has to be.                                    *)
(***************************************************************************)
EXTENDS FullStatementVerifier, Transcript

CONSTANTS
    CapEntries,           \* entries, of DIGEST words each, of the setup caps
    ExitPc,               \* find_binary_exit_point of every binary
    MaxMainCircuits,      \* bound on the main circuits of a level
    MaxBlakeCircuits,     \* bound on the delegation circuits of a level
    MaxLevels             \* bound on the levels of a layer

ASSUME ChainAssumption ==
    /\ {CapEntries, MaxMainCircuits, MaxBlakeCircuits, MaxLevels} \subseteq Nat
    /\ CapEntries > 0

VARIABLES
    stage,            \* "base", "first", "second", "done", "rejected" or "aborted"
    recursion_mode,   \* a RecursionStrategy
    base,             \* program and final pc of the base proofs
    proof_list,       \* machine and last proof of current_proof_list
    proof_metadata,   \* current_proof_metadata
    level             \* recursion_level, final_proof_level

chainVars == <<stage, recursion_mode, base, proof_list, proof_metadata, level>>

None == <<>>
RecursionStrategy ==
    {"UseReducedLog23Machine", "UseReducedLog23MachineMultiple", "UseReducedLog23MachineOnly"}

\* The setup caps tell one binary on one machine from another.  The universal
\* verifier on a machine is named by the machine.
setup_caps(program) == [e \in 1 .. CapEntries |-> [i \in 1 .. DIGEST |-> <<"cap", program, e, i>>]]
pc_word(pc) == <<"pc", pc>>

----------------------------------------------------------------------------
(* The guest: the end of verify_full_statement, as the universal verifier runs it *)

Rejected == <<>>

\* output[8..16] of verify_full_statement::<true>
base_layer_output(end_params_output, hasher, aux_registers) ==
    IF aux_registers = zeroes(DIGEST)
    THEN finalize(absorb(hasher, zeroes(DIGEST) \o end_params_output))
    ELSE Rejected

\* output[8..16] of verify_full_statement::<false>.  Without a preimage in the oracle
\* there is nothing left to read.
recursion_layer_output(end_params_output, hasher, aux_registers, preimage) ==
    LET preimage_hasher == absorb(hasher, preimage)
    IN  IF preimage = None \/ finalize(preimage_hasher) # aux_registers
        THEN Rejected
        ELSE IF SubSeq(preimage, DIGEST + 1, 2 * DIGEST) = end_params_output
             THEN aux_registers
             ELSE finalize(absorb(hasher_after(preimage_hasher), aux_registers \o end_params_output))

\* The first word of the oracle says which proofs to expect, and the verifier of
\* one machine's circuit accepts no proof of another.
universal_verifier(metadata, list) ==
    LET result_hasher == absorb(absorb(new, <<pc_word(list.end_pc)>>),
                                FlattenSeq(setup_caps(list.proof_output_0)))
        end_params_output == finalize(result_hasher)
    IN  IF metadata.machine # list.machine
        THEN Rejected
        ELSE IF metadata.machine = "Standard"
             THEN base_layer_output(end_params_output, hasher_after(result_hasher), metadata.aux_registers)
             ELSE recursion_layer_output(end_params_output, hasher_after(result_hasher),
                                         metadata.aux_registers, metadata.prev_end_params_output)

----------------------------------------------------------------------------
(* The host: proofs of a level and their metadata *)

get_end_params_output_suffix_from_proof(list) ==
    finalize(FoldLeft(absorb, absorb(new, <<pc_word(list.end_pc)>>), setup_caps(list.last_proof)))

\* The preimage of the chain the verifier of the previous level's proofs output.
get_end_params_output(prev_bin, prev_params) ==
    IF prev_params = None THEN zeroes(DIGEST) \o prev_bin
    ELSE IF SubSeq(prev_params, DIGEST + 1, 2 * DIGEST) = prev_bin THEN prev_params
    ELSE finalize(absorb(new, prev_params)) \o prev_bin

total_proofs(metadata) == metadata.main_proof_count + metadata.delegation_proof_count

\* The universal verifier ran to its end on this machine.
universal_proofs(machine) ==
    [machine |-> machine, proof_output_0 |-> machine, last_proof |-> machine, end_pc |-> ExitPc]

create_proofs_internal(machine, mains, blakes) ==
    [machine |-> machine, main_proof_count |-> mains, delegation_proof_count |-> blakes,
     aux_registers |-> universal_verifier(proof_metadata, proof_list),
     end_params |-> get_end_params_output_suffix_from_proof(universal_proofs(machine)),
     prev_end_params_output |->
        get_end_params_output(proof_metadata.end_params, proof_metadata.prev_end_params_output)]

----------------------------------------------------------------------------
(* The strategy *)

skip_first_layer(mode) == mode = "UseReducedLog23MachineOnly"

switch_to_second_recursion_layer(mode, metadata) ==
    \/ /\ mode = "UseReducedLog23Machine"
       /\ metadata.main_proof_count <= 2 /\ metadata.delegation_proof_count <= 1
    \/ /\ mode = "UseReducedLog23MachineMultiple"
       /\ metadata.main_proof_count <= 5 /\ metadata.delegation_proof_count <= 2
    \/ mode = "UseReducedLog23MachineOnly"

one_repetition_asserts(mode, metadata, proof_level) ==
    mode = "UseReducedLog23Machine" => proof_level = 0 /\ metadata.main_proof_count = 1

finish_second_recursion_layer_AnyLevel(mode, metadata, proof_level) ==
    \/ mode = "UseReducedLog23Machine"
    \/ metadata.main_proof_count <= 1 /\ metadata.delegation_proof_count <= 1

finish_second_recursion_layer(mode, metadata, proof_level) ==
    \/ mode = "UseReducedLog23Machine"
    \/ /\ metadata.main_proof_count <= 1 /\ metadata.delegation_proof_count <= 1
       /\ proof_level # 0

----------------------------------------------------------------------------
(* The constants a verifier of the last proof expects *)

compute_end_parameters(expected_final_pc, program) ==
    finalize(absorb(absorb(new, <<pc_word(expected_final_pc)>>), FlattenSeq(setup_caps(program))))

generate_params_for_binary(program) == compute_end_parameters(ExitPc, program)

compute_chain_encoding(data) ==
    LET continue(acc, i) ==
            LET h == absorb(absorb(acc.hasher, acc.previous), data[i])
            IN  IF data[i] # data[i - 1]
                THEN [previous |-> finalize(h), hasher |-> hasher_after(h)]
                ELSE acc
    IN  FoldLeft(continue, [previous |-> data[1], hasher |-> new],
                 [k \in 1 .. Len(data) - 1 |-> k + 1]).previous

machines_chain(mode) ==
    CASE mode = "UseReducedLog23Machine" -> <<"Reduced">>
      [] mode = "UseReducedLog23MachineMultiple" -> <<"Reduced", "ReducedLog23">>
      [] mode = "UseReducedLog23MachineOnly" -> <<"ReducedLog23">>

\* end_params and aux_values
generate_constants_for_binary(program, mode) ==
    LET chain == <<program>> \o machines_chain(mode)
    IN  <<generate_params_for_binary("ReducedLog23"),
          compute_chain_encoding(<<zeroes(DIGEST)>> \o
              [i \in 1 .. Len(chain) |-> generate_params_for_binary(chain[i])])>>

----------------------------------------------------------------------------
(* Steps *)

ChainInit ==
    /\ Init
    /\ stage = "base"
    /\ recursion_mode = "none"
    /\ base = [program |-> "none", end_pc |-> 0]
    /\ proof_list = <<>>
    /\ proof_metadata = <<>>
    /\ level = 0

\* The verifier's own memory, as its next execution finds it.
VerifierRestarts ==
    /\ at' = "registers"
    /\ num_circuits' = 0
    /\ main' = <<>>
    /\ delegation_type' = 0
    /\ delegations' = <<>>
    /\ transcript' = <<>>
    /\ UNCHANGED registers

\* create_proofs: base proofs that verify, of a program that left aux_registers in
\* its last eight output registers, enter create_recursion_proofs.
CreateProofs(mode, aux_registers) ==
    LET last == main[Len(main)]
        list == [machine |-> "Standard", proof_output_0 |-> proof_output_0.setup_caps,
                 last_proof |-> last.setup_caps, end_pc |-> last.output_pc]
    IN  /\ stage = "base"
        /\ at = "accepted"
        /\ recursion_mode' = mode
        /\ base' = [program |-> last.setup_caps, end_pc |-> last.output_pc]
        /\ proof_list' = list
        /\ proof_metadata' =
              [machine |-> "Standard", main_proof_count |-> Len(main),
               delegation_proof_count |-> Len(delegations), aux_registers |-> aux_registers,
               end_params |-> get_end_params_output_suffix_from_proof(list),
               prev_end_params_output |-> None]
        /\ stage' = IF skip_first_layer(mode) THEN "second" ELSE "first"
        /\ VerifierRestarts
        /\ UNCHANGED level

\* The universal verifier rejects: no proof is made of such an execution.
LevelRejected ==
    /\ stage \in {"first", "second"}
    /\ universal_verifier(proof_metadata, proof_list) = Rejected
    /\ stage' = "rejected"
    /\ UNCHANGED <<vars, recursion_mode, base, proof_list, proof_metadata, level>>

\* The execution needs more circuits than there are proofs to verify, the limit
\* create_proofs_internal is called with.
LevelTooLong ==
    /\ stage \in {"first", "second"}
    /\ level < MaxLevels
    /\ universal_verifier(proof_metadata, proof_list) # Rejected
    /\ \E mains \in 1 .. MaxMainCircuits : mains > total_proofs(proof_metadata)
    /\ stage' = "aborted"
    /\ UNCHANGED <<vars, recursion_mode, base, proof_list, proof_metadata, level>>

\* A level that goes through.
Level(machine, mains, blakes) ==
    /\ level < MaxLevels
    /\ universal_verifier(proof_metadata, proof_list) # Rejected
    /\ mains <= total_proofs(proof_metadata)
    /\ proof_list' = universal_proofs(machine)
    /\ proof_metadata' = create_proofs_internal(machine, mains, blakes)
    /\ UNCHANGED <<vars, recursion_mode, base>>

\* An iteration of create_recursion_proofs.
FirstLayerLevel(mains, blakes) ==
    /\ stage = "first"
    /\ Level("Reduced", mains, blakes)
    /\ \/ /\ switch_to_second_recursion_layer(recursion_mode, proof_metadata')
          /\ stage' = "second"
          /\ level' = 0
       \/ /\ ~switch_to_second_recursion_layer(recursion_mode, proof_metadata')
          /\ stage' = "first"
          /\ level' = level + 1

ToMetadataAndProofList_NoPreimage ==
    /\ stage = "second"
    /\ level = 0
    /\ proof_metadata' = [proof_metadata EXCEPT !.machine = "Reduced", !.delegation_proof_count = 0,
                                               !.prev_end_params_output = None]
    /\ UNCHANGED <<vars, stage, recursion_mode, base, proof_list, level>>

\* create_final_proofs_from_program_proof: a ProgramProof knows neither the machine
\* its proofs are of nor how many delegation proofs metadata counted.
ToMetadataAndProofList ==
    /\ stage = "second"
    /\ level = 0
    /\ proof_metadata' = [proof_metadata EXCEPT !.machine = "Reduced", !.delegation_proof_count = 0]
    /\ UNCHANGED <<vars, stage, recursion_mode, base, proof_list, level>>

\* An iteration of create_final_proofs.
SecondLayerLevel(mains, blakes) ==
    /\ stage = "second"
    /\ Level("ReducedLog23", mains, blakes)
    /\ \/ /\ ~one_repetition_asserts(recursion_mode, proof_metadata', level)
          /\ stage' = "aborted"
          /\ UNCHANGED level
       \/ /\ one_repetition_asserts(recursion_mode, proof_metadata', level)
          /\ finish_second_recursion_layer(recursion_mode, proof_metadata', level)
          /\ stage' = "done"
          /\ UNCHANGED level
       \/ /\ one_repetition_asserts(recursion_mode, proof_metadata', level)
          /\ ~finish_second_recursion_layer(recursion_mode, proof_metadata', level)
          /\ stage' = "second"
          /\ level' = level + 1

ChainNext ==
    \/ stage = "base" /\ Next /\ UNCHANGED chainVars
    \/ \E mode \in RecursionStrategy, aux \in {zeroes(DIGEST), [i \in 1 .. DIGEST |-> <<"other", i>>]} :
          CreateProofs(mode, aux)
    \/ LevelRejected
    \/ LevelTooLong
    \/ \E mains \in 1 .. MaxMainCircuits, blakes \in 0 .. MaxBlakeCircuits :
          FirstLayerLevel(mains, blakes) \/ SecondLayerLevel(mains, blakes)
    \/ ToMetadataAndProofList

ChainSpec == ChainInit /\ [][ChainNext]_<<vars, chainVars>>

----------------------------------------------------------------------------
(* Properties *)

\* What the host prepares is what the guest asks for: the universal verifier
\* accepts the proofs of every level of every strategy.  It rejects only base
\* proofs, of a program that used the registers of the chain, or read from a
\* ProgramProof (to_metadata_and_proof_list takes them for reduced ones).
LevelsAccepted ==
    stage = "rejected" =>
        /\ proof_list.machine = "Standard"
        /\ \/ proof_metadata.aux_registers # zeroes(DIGEST)
           \/ proof_metadata.machine # "Standard"

\* The chain in the last proof tells which program was run to its end: it is what
\* generate_constants_for_binary gives for that program and strategy, however many
\* levels there were, and for no other program and no other final pc.
ConstantsIdentifyProgram ==
    stage = "done" =>
        \A program \in Programs :
            <<proof_metadata.end_params, proof_metadata.aux_registers>>
                = generate_constants_for_binary(program, recursion_mode)
            <=> base = [program |-> program, end_pc |-> ExitPc]

\* The buffering hasher, fed in pieces and used again, hashes what the pieces make
\* together: end_params and the chain are what Blake2sTranscript gives for the
\* whole input at once, on every level.
HashedWhole ==
    stage \in {"first", "second", "done"} =>
        /\ proof_metadata.end_params =
              commit_initial(<<pc_word(proof_list.end_pc)>> \o FlattenSeq(setup_caps(proof_list.last_proof)))
        /\ proof_metadata.prev_end_params_output # None =>
              proof_metadata.aux_registers = commit_initial(proof_metadata.prev_end_params_output)
====
