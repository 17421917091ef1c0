---------------------------- MODULE Transcript -----------------------------
(***************************************************************************)
(* The two hashers of transcript/src/lib.rs.  Blake2sTranscript hashes a   *)
(* whole input, Blake2sBufferingTranscript takes it in pieces of any       *)
(* length, keeps the words of an unfinished block, and may be used again   *)
(* after finalize_reset.                                                   *)
(*                                                                         *)
(* A word is a tuple, so that words of different origins differ.  The      *)
(* compression function is ideal: the state is the history of its rounds,  *)
(* each with the block, the count of words t and the mark of the last one. *)
(***************************************************************************)
EXTENDS Integers, Sequences, SequencesExt

CONSTANTS
    BLOCK,     \* BLAKE2S_BLOCK_SIZE_U32_WORDS
    DIGEST     \* BLAKE2S_DIGEST_SIZE_U32_WORDS

ASSUME TranscriptAssumption == BLOCK \in Nat \ {0} /\ DIGEST \in Nat \ {0}

Zero == <<"zero">>
zeroes(n) == [i \in 1 .. n |-> Zero]

\* A DelegatedBlake2sState with the buffer_offset of its user.
new == [state |-> <<>>, t |-> 0, input_buffer |-> zeroes(BLOCK), buffer_offset |-> 0]

\* The state and t start over, the buffer keeps what it held.
reset(h) == [h EXCEPT !.state = <<>>, !.t = 0]

run_round_function(h, input_size_words, last_round) ==
    LET t == h.t + input_size_words
    IN  [h EXCEPT !.t = t, !.state = Append(@, <<h.input_buffer, t, last_round>>)]

read_state_for_output(h) == [i \in 1 .. DIGEST |-> <<"digest", h.state, i>>]

\* spec_memzero_u32 from buffer_offset to the end of the buffer
zero_out_the_rest(h) ==
    [h EXCEPT !.input_buffer = [i \in 1 .. BLOCK |-> IF i <= h.buffer_offset THEN @[i] ELSE Zero]]

----------------------------------------------------------------------------
(* Blake2sBufferingTranscript *)

run_absorb(h) == [run_round_function(h, BLOCK, FALSE) EXCEPT !.buffer_offset = 0]

\* A full block waits in the buffer until there is a word more to absorb: only
\* then it is known not to be the last.
absorb_word(h, word) ==
    LET g == IF h.buffer_offset = BLOCK THEN run_absorb(h) ELSE h
    IN  [g EXCEPT !.input_buffer[g.buffer_offset + 1] = word, !.buffer_offset = @ + 1]

absorb(h, values) == FoldLeft(absorb_word, h, values)

final_round_StaleTail(h) == run_round_function(h, h.buffer_offset, TRUE)

final_round(h) == run_round_function(zero_out_the_rest(h), h.buffer_offset, TRUE)

finalize(h) == read_state_for_output(final_round(h))

\* finalize_reset returns the seed and leaves the hasher ready for another input.
hasher_after(h) == [reset(final_round(h)) EXCEPT !.buffer_offset = 0]

----------------------------------------------------------------------------
(* Blake2sTranscript *)

\* commit_inner on an empty hasher, then flush: the input cut into blocks, the last
\* one filled with zeroes and counted by its own length.
commit_initial(input) ==
    LET num_rounds == Len(input) \div BLOCK + IF Len(input) % BLOCK > 0 THEN 1 ELSE 0
        word(i) == IF i <= Len(input) THEN input[i] ELSE Zero
        round(k) == <<[i \in 1 .. BLOCK |-> word((k - 1) * BLOCK + i)],
                      IF k = num_rounds THEN Len(input) ELSE k * BLOCK, k = num_rounds>>
    IN  read_state_for_output([new EXCEPT !.state = [k \in 1 .. num_rounds |-> round(k)]])
====
