---------------------------- MODULE BlockEncoder ----------------------------
(* cmpct_block_encoder: one record after the other, its key received in     *)
(* words and compared on the way with the key before, the three lengths,    *)
(* the unshared rest of the key and the value written out, and the restart  *)
(* array at the end.  Every hand-shake is an action, which waits while its  *)
(* other side does.                                                         *)
(*                                                                          *)
(* ST_WRITE_VARINTS_OVF is left out: keys have at most 256 bytes and        *)
(* lengths 16 bits, so the three varints take at most 2 + 2 + 3 of 8 bytes. *)
(* So are two cases of ST_WAIT_RECORD: a key of length 0, which the merger  *)
(* rejects, and more than MAX_RECORDS restart points, for which a block of  *)
(* MAX_BLOCK_BYTES has no room.                                             *)
EXTENDS BlockFormat

CONSTANTS
    KeyBufBytes,        \* MAX_KEY_BYTES of the encoder, the size of a key buffer
    RestartInterval,    \* RESTART_INTERVAL
    Inputs              \* the lists of records one of which is encoded

ASSUME EncoderAssumption ==
    /\ KeyBufBytes \in Nat /\ RestartInterval \in Nat \ {0}
    /\ \A list \in Inputs :
           /\ list \in Seq([key : Seq(Byte), value : Seq(Byte)]) \ {<<>>}
           /\ \A i \in DOMAIN list : /\ Len(list[i].key) \in 1..MaxKeyBytes
                                     /\ Len(Lengths(list, RestartInterval, i)) <= WordBytes

\* Nothing in the code sees to this: the top level builds decoder and merger for
\* keys of 72 bytes and the encoder with buffers of 64.
KeysFit ==
    \A list \in Inputs : \A i \in DOMAIN list : Len(list[i].key) <= KeyBufBytes

VARIABLES
    records,    \* the records of the merger, in order
    fed,        \* headers of them that the encoder has taken
    enc,        \* the encoder's registers
    emit,       \* the output word, <<>> when emit_valid is low
    out         \* the bytes that have left the encoder

encVars == <<records, fed, enc, emit, out>>

EncInit ==
    /\ records \in Inputs
    /\ fed = 0
    /\ enc = [state |-> "WAIT_RECORD", error |-> FALSE,
              prev_buf_sel |-> 0,
              key_buf |-> [b \in {0, 1} |-> [i \in 0..MaxKeyBytes - 1 |-> Old]],
              prev_key_len |-> 0, key_len |-> 0, value_len |-> 0,
              shared_len |-> 0, unshared_len |-> 0,
              mismatch_found |-> FALSE, is_restart_point |-> FALSE,
              recv_idx |-> 0, block_write_index |-> 0, block_copy_idx |-> 0,
              value_rem |-> 0, restart_offset_mem |-> <<0>>,
              restart_emit_idx |-> 0, entries_since_restart |-> 0,
              output_block_bytes |-> 0]
    /\ emit = <<>>
    /\ out = <<>>

\* The key that prev_buf_sel marks as the most recently completed one: the
\* N-block engine files it as the block's index key when the encoder is done.
last_key_bytes ==
    [i \in 1..enc.prev_key_len |-> enc.key_buf[enc.prev_buf_sel][i - 1]]

\* m_axis_tready: the packer takes the word.
OutputAccepted ==
    /\ emit # <<>>
    /\ out' = out \o emit
    /\ emit' = <<>>
    /\ UNCHANGED <<records, fed, enc>>

\* A word goes to the output register, which must be free (can_emit).
Emit(word) == emit = <<>> /\ emit' = word

Full == enc.block_write_index >= MaxBlockBytes

WriteFails ==
    /\ Full
    /\ enc' = [enc EXCEPT !.state = "IDLE", !.error = TRUE]
    /\ UNCHANGED <<emit, out, records, fed>>

\* ST_WAIT_RECORD, a header is there.
TakeRecord ==
    /\ enc.state = "WAIT_RECORD"
    /\ fed < Len(records)
    /\ fed' = fed + 1
    /\ LET r == records[fed + 1]
           restart == enc.entries_since_restart = RestartInterval
       IN  enc' = [enc EXCEPT
               !.state = "RECV_KEY", !.recv_idx = 0,
               !.key_len = Len(r.key), !.value_len = Len(r.value),
               !.shared_len = 0, !.mismatch_found = FALSE,
               !.is_restart_point = restart,
               !.restart_offset_mem =
                   IF restart THEN Append(@, enc.block_write_index) ELSE @,
               !.entries_since_restart = IF restart THEN 0 ELSE @]
    /\ UNCHANGED <<emit, out, records>>

\* ST_WAIT_RECORD, source_done and no header: the merger has pushed all.
EndOfRecords ==
    /\ enc.state = "WAIT_RECORD"
    /\ fed = Len(records)
    /\ enc' = [enc EXCEPT !.state = "APPEND_RESTARTS", !.restart_emit_idx = 0]
    /\ UNCHANGED <<emit, out, records, fed>>

\* The positions of a word of n key bytes that differ from the key before.
mismatches(word, n) ==
    {k \in 0..n - 1 :
        \/ enc.recv_idx + k >= enc.prev_key_len
        \/ word[k + 1] # enc.key_buf[enc.prev_buf_sel][enc.recv_idx + k]}

new_shared_len(word, n) ==
    IF enc.is_restart_point \/ enc.mismatch_found THEN enc.shared_len
    ELSE enc.recv_idx
         + IF mismatches(word, n) = {} THEN n ELSE Min(mismatches(word, n))

\* Mutant: a mismatch is forgotten at the next word.
new_mismatch_of_word(word, n) ==
    ~enc.is_restart_point /\ mismatches(word, n) # {}

new_mismatch(word, n) ==
    \/ enc.mismatch_found
    \/ ~enc.is_restart_point /\ mismatches(word, n) # {}

\* ST_RECV_KEY: the merger's words need not be full.  A buffer has KeyBufBytes
\* cells, and nothing checks the index: what is written behind them is gone and
\* reads as unknown.  (That is Verilog's rule; memory as synthesized may wrap and
\* lose a byte at the front of the key as well.)
RecvKey(n) ==
    LET word == SubSeq(records[fed].key, enc.recv_idx + 1, enc.recv_idx + n)
        current == 1 - enc.prev_buf_sel
        all == enc.recv_idx + n >= enc.key_len
    IN  /\ enc.state = "RECV_KEY"
        /\ n <= enc.key_len - enc.recv_idx
        /\ enc' = [enc EXCEPT
               !.key_buf[current] =
                   [i \in DOMAIN @ |-> IF i < KeyBufBytes /\ i - enc.recv_idx \in 0..n - 1
                                       THEN word[i - enc.recv_idx + 1] ELSE @[i]],
               !.shared_len = new_shared_len(word, n),
               !.mismatch_found = new_mismatch(word, n),
               !.recv_idx = @ + n,
               !.unshared_len = IF all THEN enc.key_len - new_shared_len(word, n)
                                ELSE @,
               !.state = IF all THEN "WRITE_VARINTS" ELSE @]
        /\ UNCHANGED <<emit, out, records, fed>>

\* ST_WRITE_VARINTS: the three lengths in one word.
WriteVarints ==
    /\ enc.state = "WRITE_VARINTS"
    /\ \/ WriteFails
       \/ /\ ~Full
          /\ LET word == varint[enc.shared_len] \o varint[enc.unshared_len]
                         \o varint[enc.value_len]
             IN  /\ Emit(word)
                 /\ enc' = [enc EXCEPT
                        !.block_write_index = @ + Len(word),
                        !.block_copy_idx = 0,
                        !.value_rem = IF enc.unshared_len = 0
                                      THEN enc.value_len ELSE @,
                        !.state = IF enc.unshared_len = 0
                                  THEN "STREAM_VALUE" ELSE "WRITE_KEY"]
          /\ UNCHANGED <<out, records, fed>>

\* ST_WRITE_KEY: the rest of the key from the current buffer.
WriteKey ==
    LET n == Min({WordBytes, enc.unshared_len - enc.block_copy_idx})
        base == enc.shared_len + enc.block_copy_idx
    IN  /\ enc.state = "WRITE_KEY"
        /\ \/ /\ n = 0
              /\ enc' = [enc EXCEPT !.state = "STREAM_VALUE",
                                    !.value_rem = enc.value_len]
              /\ UNCHANGED <<emit, out, records, fed>>
           \/ n # 0 /\ WriteFails
           \/ /\ n # 0 /\ ~Full
              /\ Emit([k \in 1..n |->
                          enc.key_buf[1 - enc.prev_buf_sel][base + k - 1]])
              /\ enc' = [enc EXCEPT !.block_write_index = @ + n,
                                    !.block_copy_idx = @ + n]
              /\ UNCHANGED <<out, records, fed>>

\* Mutant: every word of the value counts as a full one.
StreamFullWords(n) ==
    LET sent == enc.value_len - enc.value_rem
    IN  /\ enc.state = "STREAM_VALUE"
        /\ n <= enc.value_rem
        /\ Emit(SubSeq(records[fed].value, sent + 1, sent + n))
        /\ enc' = [enc EXCEPT !.block_write_index = @ + n,
                              !.value_rem = @ - WordBytes]
        /\ UNCHANGED <<out, records, fed>>

\* ST_STREAM_VALUE, a word of the value passes through.
StreamValue(n) ==
    LET sent == enc.value_len - enc.value_rem
    IN  /\ enc.state = "STREAM_VALUE"
        /\ n <= enc.value_rem
        /\ \/ emit = <<>> /\ WriteFails
           \/ /\ ~Full
              /\ Emit(SubSeq(records[fed].value, sent + 1, sent + n))
              /\ enc' = [enc EXCEPT !.block_write_index = @ + n,
                                    !.value_rem = @ - n]
              /\ UNCHANGED <<out, records, fed>>

\* ST_STREAM_VALUE, the value is through: the buffers change roles.
RecordDone ==
    /\ enc.state = "STREAM_VALUE"
    /\ enc.value_rem = 0
    /\ enc' = [enc EXCEPT !.state = "WAIT_RECORD",
                          !.prev_key_len = enc.key_len,
                          !.prev_buf_sel = 1 - @,
                          !.entries_since_restart = @ + 1]
    /\ UNCHANGED <<emit, out, records, fed>>

\* ST_APPEND_RESTARTS: two offsets in a word, the last one alone.
AppendRestarts ==
    LET left == SubSeq(enc.restart_offset_mem, enc.restart_emit_idx + 1,
                       Len(enc.restart_offset_mem))
        pair == SubSeq(left, 1, Min({2, Len(left)}))
    IN  /\ enc.state = "APPEND_RESTARTS"
        /\ \/ /\ left = <<>>
              /\ enc' = [enc EXCEPT !.state = "APPEND_RST_CNT"]
              /\ UNCHANGED <<emit, out, records, fed>>
           \/ /\ left # <<>>
              /\ Emit(FlattenSeq([i \in DOMAIN pair |-> Fixed(pair[i])]))
              /\ enc' = [enc EXCEPT
                     !.block_write_index = @ + FixedBytes * Len(pair),
                     !.restart_emit_idx = @ + Len(pair)]
              /\ UNCHANGED <<out, records, fed>>

\* ST_APPEND_RST_CNT: the last word of the block.
AppendRestartCount ==
    /\ enc.state = "APPEND_RST_CNT"
    /\ Emit(Fixed(Len(enc.restart_offset_mem)))
    /\ enc' = [enc EXCEPT !.state = "FINISH",
                   !.output_block_bytes = enc.block_write_index + FixedBytes]
    /\ UNCHANGED <<out, records, fed>>

\* ST_FINISH: done when the last word has left.
Finish ==
    /\ enc.state = "FINISH"
    /\ emit = <<>>
    /\ enc' = [enc EXCEPT !.state = "IDLE"]
    /\ UNCHANGED <<emit, out, records, fed>>

EncNext ==
    \/ OutputAccepted
    \/ TakeRecord
    \/ EndOfRecords
    \/ \E n \in 1..WordBytes : RecvKey(n)
    \/ WriteVarints
    \/ WriteKey
    \/ \E n \in 1..WordBytes : StreamValue(n)
    \/ RecordDone
    \/ AppendRestarts
    \/ AppendRestartCount
    \/ Finish

EncDone == enc.state = "IDLE" /\ ~enc.error

=============================================================================
