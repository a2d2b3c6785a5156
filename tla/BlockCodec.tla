----------------------------- MODULE BlockCodec -----------------------------
(* A block's way through two compactions: the encoder of one writes it, as  *)
(* the last block of a file that the assembler then completes, the decoder  *)
(* of a later one reads it back.  What the encoder produced is compared     *)
(* with the block format, the completed file with its blocks, what the      *)
(* decoder delivers with the records that went in.  Before it is read back  *)
(* the block may be damaged.                                                *)
EXTENDS BlockEncoder, BlockDecoder, Assembler

CONSTANTS
    Earlier,        \* lists of blocks that may precede the encoded one in its file
    Damages,        \* kinds of damage, "none" among them
    PausesAnywhere  \* may the stream pause although words are partial?

\* A block that has been filed has a trailer.
ASSUME EarlierAssumption ==
    \A blocks \in Earlier :
        /\ blocks \in Seq([key : Seq(Byte), offset : Nat, size : Nat])
        /\ \A i \in DOMAIN blocks : blocks[i].size >= TrailerBytes

VARIABLE damage

vars == <<records, fed, enc, emit, out, blk, stream, cap, dec, bank, delivered,
          meta, asm, keybytes, pack, eng, mem, rejected, damage>>

\* Replace the bytes from position a on (counted from 0) by the given ones.
Overwrite(block, a, bytes) ==
    [i \in DOMAIN block |-> IF i - a \in DOMAIN bytes THEN bytes[i - a] ELSE block[i]]

\* What the medium may return instead of the block: every kind breaks a rule
\* of the format at a place where the decoder checks it.
Damaged(block, kind) ==
    LET n == Len(block)
        count == FixedValue(SubSeq(block, n - FixedBytes + 1, n))
        array == n - (count + 1) * FixedBytes
    IN  CASE kind = "none"         -> block
          [] kind = "too short"    -> SubSeq(block, 1, FixedBytes + 1)
          [] kind = "no restart"   -> Overwrite(block, n - FixedBytes, Fixed(0))
          [] kind = "count"        -> Overwrite(block, n - FixedBytes, Fixed(n))
          [] kind = "extra restart" ->
                 Overwrite(block, n - FixedBytes, Fixed(count + 1))
          [] kind = "first offset" -> Overwrite(block, array, Fixed(1))
          [] kind = "last offset"  ->
                 Overwrite(block, n - 2 * FixedBytes, Fixed(array))
          [] kind = "equal offset" ->
                 Overwrite(block, n - 2 * FixedBytes, Fixed(0))
          [] kind = "shared"       -> Overwrite(block, 0, <<1>>)
          [] kind = "key length"   -> Overwrite(block, 1, varint[MaxKeyBytes + 1])
          [] kind = "varint"       ->
                 Overwrite(block, 0, [i \in 1..VarintBytes |-> 2 * Radix - 1])

\* The damage changes the block (an only offset is 0 by rule).
Applicable(kind) == kind = "none" \/ Damaged(out, kind) # out

\* Every emit read of the entries takes whole words.
WholeWords ==
    \A i \in DOMAIN records :
        /\ (Len(records[i].key) - Shared(records, RestartInterval, i)) % WordBytes = 0
        /\ Len(records[i].value) % WordBytes = 0

Init == EncInit /\ DecInit /\ AsmInit /\ damage = "none"

Encode == EncNext /\ UNCHANGED <<decVars, asmVars, damage>>

\* The encoder is done: the N-block engine files the block behind those before
\* it and, the block being the last one of its file, starts the assembler.
StartAssembler ==
    /\ EncDone /\ meta = <<>>
    /\ \E blocks \in Earlier :
           AsmStart(Append(blocks, [offset |-> DataEnd(blocks),
                                    size |-> enc.output_block_bytes + TrailerBytes,
                                    key |-> last_key_bytes]))
    /\ UNCHANGED <<encVars, decVars, damage>>

Assemble == AsmNext /\ UNCHANGED <<encVars, decVars, damage>>

\* A block that the decoder's memory holds is read by a later compaction.
StartDecoder ==
    /\ asm.done /\ blk = <<>>
    /\ Len(out) <= MaxBlockBytes
    /\ \E kind \in Damages, first \in 1..WordBytes, pausing \in BOOLEAN :
           /\ Applicable(kind)
           /\ pausing => PausesAnywhere \/ WholeWords
           /\ damage' = kind
           /\ DecStart(Damaged(out, kind), first, pausing)
    /\ UNCHANGED <<encVars, asmVars>>

Decode == DecNext /\ UNCHANGED <<encVars, asmVars, damage>>

Next == Encode \/ StartAssembler \/ Assemble \/ StartDecoder \/ Decode

Spec == Init /\ [][Next]_vars

\* The merger and the packer serve the encoder, the N-block engine and a later
\* compaction do their part, and again and again a clock comes in which memory
\* answers, a word is offered and the merger is ready.
FairSpec ==
    /\ Spec
    /\ WF_vars(Encode)
    /\ WF_vars(StartAssembler)
    /\ WF_vars((\E bad \in BOOLEAN : AsmTick(TRUE, bad)) /\ UNCHANGED <<encVars, decVars, damage>>)
    /\ WF_vars(StartDecoder)
    /\ WF_vars(Tick(TRUE, TRUE) /\ UNCHANGED <<encVars, asmVars, damage>>)

------------------------------------------------------------------------------

\* The registers hold lengths and positions that their memories have cells for.
TypeOK ==
    /\ emit \in Seq(Byte) /\ out \in Seq(Byte) /\ fed \in 0..Len(records)
    /\ enc.shared_len \in 0..enc.key_len /\ enc.unshared_len \in 0..MaxKeyBytes
    /\ enc.recv_idx \in 0..MaxKeyBytes
    /\ enc.value_rem \in 0..enc.value_len
    /\ enc.restart_emit_idx \in 0..Len(enc.restart_offset_mem)
    /\ cap.wptr \in 0..Len(blk) /\ cap.ra_offset \in 0..Len(blk)
    /\ dec.emit_remain >= 0 /\ dec.copied >= 0
    /\ dec.prev_key_len \in 0..MaxKeyBytes
    /\ Len(pack.bytes) \in 0..BeatBytes /\ eng.beats_remaining >= 0
    /\ asm.blk_idx \in 0..Len(meta) /\ asm.build_ptr \in {Old} \cup 0..FooterBytes
    /\ \A a \in DOMAIN mem : mem[a] \in Byte
    /\ \A b \in DOMAIN bank.data : bank.data[b] \in Byte \cup {Old}

\* However the merger cuts keys and values into words and however the packer
\* stalls, the encoder's output is the LevelDB block of its records, and its
\* length what the N-block engine is told; it gives up only a block that does
\* not fit (cmpct_block_encoder.v, ST_RECV_KEY to ST_FINISH).
EncodesBlock ==
    LET block == BlockOf(records, RestartInterval)
    IN  /\ IsPrefix(out \o emit, block)
        /\ EncDone => out = block /\ enc.output_block_bytes = Len(block)
        /\ enc.error => Len(block) > MaxBlockBytes

\* Memory has rejected no burst of a file that is reported as done, neither
\* long before the end of a write nor with it (cmpct_assembler_v2.v,
\* ST_WR_WAIT; cmpct_infra.v, axi_write_engine).
NoneRejected == asm.done => ~rejected

\* Nothing in front of the tail is written (cmpct_assembler_v2.v, wr_offset).
TailBehindData == \A a \in DOMAIN mem : a >= data_end_offset

\* A file that the assembler has just reported as done can be read: from the
\* footer at its end over the index block a reader finds offset and size of
\* every block with the key of its last record, both blocks of the tail have
\* their checksum, and nothing in front of the tail or behind it is written,
\* however memory stalls; and memory has rejected no burst of it
\* (cmpct_assembler_v2.v, ST_IDX_INIT to ST_DONE; cmpct_block_encoder.v,
\* last_key_bytes).
TailReadable ==
    /\ asm.done /\ blk = <<>> =>
           /\ Bytes(FileSize - Len(Magic), Len(Magic)) = Magic
           /\ Sealed(Footer.index) /\ Sealed(Footer.metaindex)
           /\ Footer.metaindex.size = Len(Restarts)
           /\ LET entries == entriesAt[Footer.index.offset]
              IN  /\ entries = [i \in DOMAIN meta |->
                         [shared |-> 0, key |-> meta[i].key, offset |-> meta[i].offset,
                          size |-> meta[i].size - TrailerBytes]]
                  /\ Last(entries).key = Last(records).key
                  /\ Last(entries).size = Len(out)
           /\ \A a \in DOMAIN mem : a < FileSize
    /\ NoneRejected
    /\ TailBehindData

\* The decoder delivers the records of the block: header, bytes and end mark
\* of each, in order, however early it parses what the capture has stored, and
\* it reports done after all of them and no error.
DeliversRecords ==
    damage = "none" =>
        /\ Len(delivered) <= Len(records) /\ ~dec.error
        /\ \A i \in DOMAIN delivered :
               LET r == delivered[i]
                   all == records[i].key \o records[i].value
               IN  /\ r.key_len = Len(records[i].key)
                   /\ r.value_len = Len(records[i].value)
                   /\ IsPrefix(r.bytes, all)
                   /\ r.last <=> r.bytes = all
                   /\ i < Len(delivered) => r.last
        /\ DecEnded => Len(delivered) = Len(records) /\ Last(delivered).last

\* A block with a broken restart array, count or first entry is never reported
\* as decoded, wherever the parser was when the capture ended.
DamageReported == DecEnded /\ damage # "none" => dec.error

\* Every block is encoded, its file completed or given up, and the block, if it
\* fits, decoded to its end or rejected.
CodecEnds ==
    <>(enc.error \/ asm.error \/ (asm.done /\ Len(out) > MaxBlockBytes) \/ DecEnded)

=============================================================================
