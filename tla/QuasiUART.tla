----------------------------- MODULE QuasiUART ------------------------------
(***************************************************************************)
(* Strings that a guest program prints: QuasiUART of riscv_common/src/     *)
(* lib.rs writes them as words into a CSR, QuasiUARTSource of              *)
(* risc_v_simulator/src/abstractions/non_determinism.rs receives each word *)
(* in the cycle that writes it and prints the messages.  A message is a    *)
(* marker, a count of words, the length in bytes, and the bytes, four to a *)
(* word, the least significant first.                                      *)
(***************************************************************************)
EXTENDS Integers, Sequences

CONSTANTS
    ByteBase,    \* how many values a byte has
    Messages,    \* the strings that may be written
    MaxMessages  \* bound on the number of strings

Bytes == 0 .. ByteBase - 1
MaxWord == ByteBase * ByteBase * ByteBase * ByteBase - 1

ASSUME MessagesAssumption ==
    /\ ByteBase \in Nat \ {0, 1} /\ MaxMessages \in Nat
    /\ \A m \in Messages : m \in Seq(Bytes) /\ Len(m) < MaxWord

VARIABLES
    writer,   \* [at, message, buffer]: what is left to write, and up to 3 bytes
    reader,   \* QuasiUARTSourceState
    written,  \* the messages that the guest has written
    printed   \* the messages that the host has printed

vars == <<writer, reader, written, printed>>

HELLO_VALUE == MaxWord
None == -1

Ready == [state |-> "Ready"]
Buffering(words, len, buffer) ==
    [state |-> "Buffering", remaining_words |-> words, remaining_len_in_bytes |-> len,
     buffer |-> buffer]

Init ==
    /\ writer = [at |-> "idle", message |-> <<>>, buffer |-> <<>>]
    /\ reader = Ready
    /\ written = <<>>
    /\ printed = <<>>

from_le_bytes(b) ==
    b[1] + ByteBase * (b[2] + ByteBase * (b[3] + ByteBase * b[4]))
to_le_bytes(value) ==
    <<value % ByteBase, (value \div ByteBase) % ByteBase,
      (value \div (ByteBase * ByteBase)) % ByteBase,
      value \div (ByteBase * ByteBase * ByteBase)>>

----------------------------------------------------------------------------
(* process_write: what the host does with a word *)

\* All four bytes of the last word are taken.
taken_bytes_All(value, len) == to_le_bytes(value)

\* A word's bytes as far as they belong to the message.
taken_bytes(value, len) == SubSeq(to_le_bytes(value), 1, IF len >= 4 THEN 4 ELSE len)

DataWord(value) ==
    LET words == reader.remaining_words
        len == reader.remaining_len_in_bytes
        bytes == IF words > 0 THEN taken_bytes(value, len) ELSE <<>>
        words1 == IF words > 0 THEN words - 1 ELSE words
        len1 == IF words = 0 THEN len ELSE IF len >= 4 THEN len - 4 ELSE 0
    IN  IF words1 = 0
        THEN /\ reader' = Ready
             /\ printed' = Append(printed, reader.buffer \o bytes)
        ELSE /\ reader' = Buffering(words1, len1, reader.buffer \o bytes)
             /\ UNCHANGED printed

process_write(value) ==
    \/ /\ reader.state = "Ready"
       /\ reader' = IF value = HELLO_VALUE THEN Buffering(None, None, <<>>) ELSE Ready
       /\ UNCHANGED printed
    \/ /\ reader.state = "Buffering"
       /\ reader.remaining_words = None
       /\ reader' = Buffering(value, None, <<>>)
       /\ UNCHANGED printed
    \/ /\ reader.state = "Buffering"
       /\ reader.remaining_words # None
       /\ reader.remaining_len_in_bytes = None
       /\ reader' = Buffering(reader.remaining_words - 1, value, reader.buffer)
       /\ UNCHANGED printed
    \/ /\ reader.state = "Buffering"
       /\ reader.remaining_words # None
       /\ reader.remaining_len_in_bytes # None
       /\ DataWord(value)

----------------------------------------------------------------------------
(* write_str: what the guest does, one word at a time *)

Writer(at, message, buffer) == [at |-> at, message |-> message, buffer |-> buffer]

\* write_entry_sequence begins.
WriteHello(m) ==
    /\ writer.at = "idle"
    /\ Len(written) < MaxMessages
    /\ process_write(HELLO_VALUE)
    /\ writer' = Writer("count", m, writer.buffer)
    /\ written' = Append(written, m)

words_count(len) == (len + 3) \div 4 + 1

WriteCount ==
    /\ writer.at = "count"
    /\ process_write(words_count(Len(writer.message)))
    /\ writer' = [writer EXCEPT !.at = "len"]
    /\ UNCHANGED written

WriteLen ==
    /\ writer.at = "len"
    /\ process_write(Len(writer.message))
    /\ writer' = [writer EXCEPT !.at = "bytes"]
    /\ UNCHANGED written

is_full(buffer) == Len(buffer) = 4

write_byte ==
    LET buffer == Append(writer.buffer, Head(writer.message)) IN
    /\ writer.at = "bytes"
    /\ writer.message # <<>>
    /\ IF is_full(buffer)
       THEN /\ process_write(from_le_bytes(buffer))
            /\ writer' = Writer("bytes", Tail(writer.message), <<>>)
       ELSE /\ writer' = Writer("bytes", Tail(writer.message), buffer)
            /\ UNCHANGED <<reader, printed>>
    /\ UNCHANGED written

\* The bytes that are left go out in a word padded with zeros.
flush ==
    /\ writer.at = "bytes"
    /\ writer.message = <<>>
    /\ IF writer.buffer = <<>>
       THEN UNCHANGED <<reader, printed>>
       ELSE process_write(from_le_bytes([i \in 1 .. 4 |->
                IF i <= Len(writer.buffer) THEN writer.buffer[i] ELSE 0]))
    /\ writer' = Writer("idle", <<>>, <<>>)
    /\ UNCHANGED written

Next ==
    \/ \E m \in Messages : WriteHello(m)
    \/ WriteCount \/ WriteLen \/ write_byte \/ flush

Spec == Init /\ [][Next]_vars

----------------------------------------------------------------------------
(* Properties *)

NotEmpty(messages) == SelectSeq(messages, LAMBDA m : m # <<>>)

\* Between two strings every message the guest has written is printed, in order
\* and byte for byte, whatever bytes it has.  A message of 0 bytes need not be, but
\* does not disturb the others: "It is also possible that someone wrote 0 bytes.
\* In this case we just ignore the write."
EveryMessagePrinted == writer.at = "idle" => NotEmpty(printed) = NotEmpty(written)
=============================================================================
