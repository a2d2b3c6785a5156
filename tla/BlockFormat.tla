---------------------------- MODULE BlockFormat ----------------------------
(* The LevelDB data block that the decoder reads and the encoder writes, as *)
(* a reference: a block is the sequence of bytes                            *)
(*     entry ... entry  restart offset ... restart offset  restart count    *)
(* and an entry is three varints (shared, unshared and value length), the   *)
(* unshared rest of the key and the value.  The sizes of the format are     *)
(* parameters, so that a block of some dozens of bytes has every case of a  *)
(* block of 4 KB: a byte is a number below 2 * Radix (128 in the code), a   *)
(* varint digit that is followed by another one has Radix added, a restart  *)
(* offset takes FixedBytes bytes (4) and a stream word WordBytes (8).       *)
EXTENDS Integers, Sequences, SequencesExt, FiniteSetsExt

CONSTANTS
    WordBytes, FixedBytes, Radix,
    MaxBlockBytes,      \* MAX_BLOCK_BYTES of encoder and decoder
    MaxKeyBytes         \* the longest internal key that decoder and merger accept

\* Two restart offsets fill a word (cmpct_block_encoder.v:10).
ASSUME FormatAssumption == /\ WordBytes \in Nat /\ FixedBytes \in Nat \ {0}
                           /\ WordBytes = 2 * FixedBytes
                           /\ Radix \in Nat \ {0, 1}
                           /\ MaxBlockBytes \in Nat /\ MaxKeyBytes \in Nat

Byte == 0..(2 * Radix - 1)

\* Stands for the content of a memory cell that was never written.
Old == -1

varint[n \in Nat] ==
    IF n < Radix THEN <<n>> ELSE <<Radix + (n % Radix)>> \o varint[n \div Radix]

Fixed(n) == [i \in 1..FixedBytes |-> (n \div (2 * Radix)^(i - 1)) % (2 * Radix)]

FixedValue(bytes) ==
    FoldFunction(+, 0, [i \in DOMAIN bytes |-> bytes[i] * (2 * Radix)^(i - 1)])

\* What the i-th key shares with the key before: every interval-th entry is a
\* restart point and shares nothing.
Shared(records, interval, i) ==
    IF (i - 1) % interval = 0 THEN 0
    ELSE Len(LongestCommonPrefix({records[i - 1].key, records[i].key}))

Lengths(records, interval, i) ==
    LET shared == Shared(records, interval, i)
    IN  varint[shared] \o varint[Len(records[i].key) - shared]
        \o varint[Len(records[i].value)]

Entry(records, interval, i) ==
    LET key == records[i].key
    IN  Lengths(records, interval, i)
        \o SubSeq(key, Shared(records, interval, i) + 1, Len(key))
        \o records[i].value

Entries(records, interval) ==
    FlattenSeq([i \in DOMAIN records |-> Entry(records, interval, i)])

\* The block of a list of records.
BlockOf(records, interval) ==
    LET count == (Len(records) - 1) \div interval + 1
        offset(j) == Len(Entries(SubSeq(records, 1, (j - 1) * interval), interval))
    IN  Entries(records, interval)
        \o FlattenSeq([j \in 1..count |-> Fixed(offset(j))])
        \o Fixed(count)

=============================================================================
