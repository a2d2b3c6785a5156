----------------------------- MODULE Assembler -----------------------------
(* cmpct_assembler (v2): behind the data blocks of a file it writes the     *)
(* index block, the empty metaindex block and the footer.  Every byte goes  *)
(* through a register (data, tvalid, last) into the packer, which makes     *)
(* beats of them, and from there into the AXI write engine, which counts    *)
(* beats.  A step is one clock edge of the three; that memory answers in    *)
(* this cycle, and how, is the step's choice.                               *)
(*                                                                          *)
(* The sizes are scaled like those of BlockFormat: a beat has BeatBytes     *)
(* bytes (64), the two handles of the footer are padded to HandleBytes (40) *)
(* and the checksum takes one byte (4).                                     *)
EXTENDS BlockFormat

CONSTANTS
    BeatBytes,      \* AXI_DATA_WIDTH / 8, which is also what blocks are aligned to
    BurstBeats,     \* MAX_BURST_LEN
    HandleBytes,    \* what the handles of a footer are padded to
    Magic           \* the bytes that end a table

ASSUME AssemblerAssumption ==
    /\ BeatBytes \in Nat \ {0} /\ BurstBeats \in Nat \ {0}
    /\ HandleBytes \in Nat
    /\ Magic \in Seq(Byte) \ {<<>>}

VARIABLES
    meta,       \* blk_*_mem: offset, size with trailer and last key of every block
    asm,        \* the registers of the FSM
    keybytes,   \* cbk_keybytes_r, output register of the key memory
    pack,       \* stream_pack_adapter: bytes of the beat, out_valid
    eng,        \* axi_write_engine
    mem,        \* the bytes of the file that were written, by address
    rejected    \* history: memory has answered a burst with an error

asmVars == <<meta, asm, keybytes, pack, eng, mem, rejected>>

TrailerBytes == 2
Restarts == Fixed(0) \o Fixed(1)
FooterBytes == HandleBytes + Len(Magic)

Align(n) == ((n + BeatBytes - 1) \div BeatBytes) * BeatBytes

\* running_offset of the N-block engine behind the given blocks.
DataEnd(blocks) ==
    IF blocks = <<>> THEN 0 ELSE Align(Last(blocks).offset + Last(blocks).size)

data_end_offset == DataEnd(meta)

\* One step of a checksum; any function that depends on every byte will do.
crc32c_step(crc, b) == (3 * crc + b + 1) % (2 * Radix)

\* Reset or clear.  Registers that these leave alone hold what an earlier file
\* or an aborted run left in them.
AsmInit ==
    /\ meta = <<>>
    /\ asm = [state |-> "IDLE", done |-> FALSE, error |-> FALSE, total_bytes |-> 0,
              wr_start |-> FALSE, tvalid |-> FALSE, last |-> FALSE, data |-> 0,
              return_state |-> "DONE", wr_offset |-> Old, blk_idx |-> 0,
              idx_accum |-> Old, idx_offset |-> Old, idx_size |-> Old,
              meta_offset |-> Old, key_cache |-> <<>>, key_bptr |-> Old,
              vi |-> <<>>, sub |-> Old, build_ptr |-> Old, crc |-> Old,
              wr_addr |-> Old, wr_len |-> Old]
    /\ keybytes = <<>>
    /\ pack = [bytes |-> <<>>, valid |-> FALSE]
    /\ eng = [state |-> "IDLE", done |-> FALSE, error |-> FALSE, beats_remaining |-> 0,
              burst_beats |-> 0, burst_index |-> 0, cur_addr |-> 0, awvalid |-> FALSE,
              awaddr |-> 0, wvalid |-> FALSE, wdata |-> <<>>, wlast |-> FALSE]
    /\ mem = <<>>
    /\ rejected = FALSE

-----------------------------------------------------------------------------
(* The FSM.                                                                 *)

byte_tready == ~pack.valid
can_put == ~asm.tvalid \/ byte_tready

\* The block whose index entry is being written.
cur_block == meta[asm.blk_idx + 1]
content(b) == b.size - TrailerBytes

\* entry_bytes_for
entry_bytes(b) ==
    2 + Len(varint[Len(b.key)]) + Len(b.key)
      + Len(varint[b.offset]) + Len(varint[content(b)])

\* What every edge does to the registers: wr_start is a pulse.
Quiet == [asm EXCEPT !.wr_start = FALSE]

\* The byte in the register has gone and no other one follows it.
Gone ==
    IF asm.tvalid /\ byte_tready
    THEN [Quiet EXCEPT !.tvalid = FALSE, !.last = FALSE] ELSE Quiet

\* A byte goes to the register, as part of a block or as part of the footer.
Put(b, last) == [Quiet EXCEPT !.data = b, !.tvalid = TRUE, !.last = last]
PutSummed(b) == [Put(b, FALSE) EXCEPT !.crc = crc32c_step(@, b)]
PutFooter(b, last) == [Put(b, last) EXCEPT !.build_ptr = @ + 1]

\* The write engine is started on the next part of the file.
StartWrite(len, back, next) ==
    [Quiet EXCEPT !.wr_start = TRUE, !.wr_addr = asm.wr_offset, !.wr_len = len,
                  !.return_state = back, !.state = next]

\* ST_IDLE, the N-block engine has written the metadata and starts.
AsmStart(blocks) ==
    /\ asm.state = "IDLE"
    /\ meta' = blocks
    /\ asm' = [Quiet EXCEPT !.state = "COMPUTE_IDX", !.done = FALSE, !.error = FALSE,
                   !.wr_offset = DataEnd(blocks), !.blk_idx = 0,
                   !.idx_accum = Len(Restarts) + TrailerBytes]
    /\ UNCHANGED <<keybytes, pack, eng, mem, rejected>>

\* ST_COMPUTE_IDX with its second pipeline stage, in which nothing else moves.
ComputeIdx ==
    /\ asm.state = "COMPUTE_IDX"
    /\ asm' = IF asm.blk_idx < Len(meta)
              THEN [Quiet EXCEPT !.idx_accum = @ + entry_bytes(cur_block), !.blk_idx = @ + 1]
              ELSE [Quiet EXCEPT !.blk_idx = 0, !.state = "IDX_INIT"]

\* ST_IDX_INIT
IdxInit ==
    /\ asm.state = "IDX_INIT"
    /\ asm' = [StartWrite(asm.idx_accum, "META_INIT", "META_FETCH") EXCEPT
                   !.crc = 0, !.idx_offset = asm.wr_offset,
                   !.idx_size = asm.idx_accum - TrailerBytes]

\* ST_META_FETCH: the byte in the register, if there is one, stays there.
MetaFetch ==
    /\ asm.state = "META_FETCH"
    /\ asm' = [Quiet EXCEPT !.key_cache = keybytes, !.state = "ENT_SHARED"]

\* ST_ENT_SHARED: keys are not compressed.
EntShared ==
    /\ asm.state = "ENT_SHARED" /\ can_put
    /\ asm' = [PutSummed(0) EXCEPT !.vi = varint[Len(cur_block.key)], !.state = "ENT_USHLEN"]

\* What follows the varint that a state writes, and the varint of that state.
AfterVarint ==
    [ENT_USHLEN |-> <<"ENT_VALLEN",
                      varint[Len(varint[cur_block.offset]) + Len(varint[content(cur_block)])]>>,
     ENT_VALLEN |-> <<"ENT_KEY", <<>> >>,
     ENT_BHOFF  |-> <<"ENT_BHSZ", varint[content(cur_block)]>>,
     ENT_BHSZ   |-> <<"ENT_NEXT", <<>> >>]

AfterFooterVarint ==
    [FOOT_OFF0 |-> <<"FOOT_SZ0", varint[Len(Restarts)]>>,
     FOOT_SZ0  |-> <<"FOOT_OFF1", varint[asm.idx_offset]>>,
     FOOT_OFF1 |-> <<"FOOT_SZ1", varint[asm.idx_size]>>,
     FOOT_SZ1  |-> <<"FOOT_PAD", <<>> >>]

\* The next byte of a varint has been put: registers a.
VarintStep(a, next) ==
    IF Len(asm.vi) > 1 THEN [a EXCEPT !.vi = Tail(@)]
    ELSE [a EXCEPT !.state = next[1], !.vi = next[2],
                   !.key_bptr = IF next[1] = "ENT_KEY" THEN 0 ELSE @]

\* ST_ENT_USHLEN, ST_ENT_VALLEN, ST_ENT_BHOFF, ST_ENT_BHSZ
EntVarint ==
    /\ asm.state \in {"ENT_USHLEN", "ENT_VALLEN", "ENT_BHOFF", "ENT_BHSZ"} /\ can_put
    /\ asm' = VarintStep(PutSummed(Head(asm.vi)), AfterVarint[asm.state])

\* ST_FOOT_OFF0, ST_FOOT_SZ0, ST_FOOT_OFF1, ST_FOOT_SZ1
FootVarint ==
    /\ asm.state \in {"FOOT_OFF0", "FOOT_SZ0", "FOOT_OFF1", "FOOT_SZ1"} /\ can_put
    /\ asm' = VarintStep(PutFooter(Head(asm.vi), FALSE), AfterFooterVarint[asm.state])

\* ST_ENT_KEY: bytes beyond a cached key are zero.
EntKey ==
    /\ asm.state = "ENT_KEY" /\ can_put
    /\ LET i == asm.key_bptr + 1
           a == [PutSummed(IF i \in DOMAIN asm.key_cache THEN asm.key_cache[i] ELSE 0)
                    EXCEPT !.key_bptr = i]
       IN  asm' = IF i = Len(cur_block.key)
                  THEN [a EXCEPT !.vi = varint[cur_block.offset], !.state = "ENT_BHOFF"]
                  ELSE a

\* ST_ENT_NEXT goes on whether or not the entry's last byte is gone.
EntNext ==
    /\ asm.state = "ENT_NEXT"
    /\ asm' = IF asm.blk_idx + 1 >= Len(meta)
              THEN [Gone EXCEPT !.blk_idx = @ + 1, !.sub = 0, !.state = "IDX_REST"]
              ELSE [Gone EXCEPT !.blk_idx = @ + 1, !.state = "META_FETCH"]

\* The bytes of a trailer: type and checksum, the last of the stream.
PutTrailer(i) == IF i = 0 THEN PutSummed(0) ELSE Put(asm.crc, TRUE)

Count(a, n, next) ==
    IF asm.sub = n THEN [a EXCEPT !.sub = 0, !.state = next] ELSE [a EXCEPT !.sub = @ + 1]

\* ST_IDX_REST
IdxRest ==
    /\ asm.state = "IDX_REST" /\ can_put
    /\ asm' = Count(PutSummed(Restarts[asm.sub + 1]), Len(Restarts) - 1, "IDX_TRAIL")

\* ST_IDX_TRAIL
IdxTrail ==
    /\ asm.state = "IDX_TRAIL" /\ can_put
    /\ asm' = Count(PutTrailer(asm.sub), TrailerBytes - 1, "WR_WAIT")

\* ST_WR_WAIT: only the footer is not padded.
WrWait ==
    /\ asm.state = "WR_WAIT"
    /\ asm' = CASE eng.error -> [Gone EXCEPT !.error = TRUE, !.state = "IDLE"]
                [] ~eng.error /\ eng.done -> [Gone EXCEPT
                       !.wr_offset = IF asm.return_state = "DONE" THEN @ + asm.wr_len
                                     ELSE Align(@ + asm.wr_len),
                       !.state = asm.return_state]
                [] OTHER -> Gone

\* ST_META_INIT
MetaInit ==
    /\ asm.state = "META_INIT"
    /\ asm' = [StartWrite(Len(Restarts) + TrailerBytes, "FOOT_INIT", "META_BODY") EXCEPT
                   !.crc = 0, !.meta_offset = asm.wr_offset, !.sub = 0]

\* ST_META_BODY
MetaBody ==
    LET n == Len(Restarts)
    IN  /\ asm.state = "META_BODY" /\ can_put
        /\ asm' = Count(IF asm.sub < n THEN PutSummed(Restarts[asm.sub + 1])
                                       ELSE PutTrailer(asm.sub - n),
                        n + TrailerBytes - 1, "WR_WAIT")

\* ST_FOOT_INIT
FootInit ==
    /\ asm.state = "FOOT_INIT"
    /\ asm' = [StartWrite(FooterBytes, "DONE", "FOOT_OFF0") EXCEPT
                   !.build_ptr = 0, !.vi = varint[asm.meta_offset]]

\* ST_FOOT_PAD: four varints never fill the area.
FootPad ==
    /\ asm.state = "FOOT_PAD" /\ can_put
    /\ asm' = [PutFooter(0, FALSE) EXCEPT
                   !.state = IF asm.build_ptr = HandleBytes - 1 THEN "FOOT_MAGIC" ELSE @]

\* ST_FOOT_MAGIC
FootMagic ==
    LET i == asm.build_ptr - HandleBytes + 1
    IN  /\ asm.state = "FOOT_MAGIC" /\ can_put
        /\ asm' = [PutFooter(Magic[i], i = Len(Magic)) EXCEPT
                       !.state = IF i = Len(Magic) THEN "WR_WAIT" ELSE @]

\* ST_DONE
AsmDone ==
    /\ asm.state = "DONE"
    /\ asm' = [Quiet EXCEPT !.total_bytes = asm.wr_offset - data_end_offset,
                            !.done = TRUE, !.state = "IDLE"]

\* A state with a byte to put, and the register still in use.
PutWaits ==
    /\ asm.state \notin {"IDLE", "COMPUTE_IDX", "IDX_INIT", "META_FETCH", "ENT_NEXT",
                         "WR_WAIT", "META_INIT", "FOOT_INIT", "DONE"}
    /\ ~can_put
    /\ asm' = Quiet

Fsm ==
    \/ ComputeIdx \/ IdxInit \/ MetaFetch \/ EntShared \/ EntVarint \/ EntKey
    \/ EntNext \/ IdxRest \/ IdxTrail \/ WrWait \/ MetaInit \/ MetaBody
    \/ FootInit \/ FootVarint \/ FootPad \/ FootMagic \/ AsmDone \/ PutWaits

\* Mutant: the address of the next key comes a cycle late.
KeyReadLate ==
    keybytes' = IF asm.blk_idx < Len(meta) THEN meta[asm.blk_idx + 1].key ELSE <<>>

\* keybytes_rd_addr: ST_ENT_NEXT reads the next block's key.
KeyRead ==
    LET a == IF asm.state = "ENT_NEXT" THEN asm.blk_idx + 1 ELSE asm.blk_idx
    IN  keybytes' = IF a < Len(meta) THEN meta[a + 1].key ELSE <<>>

-----------------------------------------------------------------------------
(* Packer and write engine.                                                 *)

take_input == eng.state = "W" /\ ~eng.wvalid /\ pack.valid

Pack ==
    pack' = CASE take_input -> [bytes |-> <<>>, valid |-> FALSE]
              [] asm.tvalid /\ byte_tready ->
                     [bytes |-> Append(pack.bytes, asm.data),
                      valid |-> Len(pack.bytes) + 1 = BeatBytes \/ asm.last]
              [] OTHER -> pack

Idle == [eng EXCEPT !.done = FALSE]

EngineStart ==
    /\ eng.state = "IDLE"
    /\ eng' = IF asm.wr_start
              THEN [Idle EXCEPT !.state = "AW", !.error = FALSE,
                        !.beats_remaining = Align(asm.wr_len) \div BeatBytes,
                        !.cur_addr = asm.wr_addr, !.burst_index = 0]
              ELSE Idle
    /\ UNCHANGED <<mem, rejected>>

EngineAW(served) ==
    /\ eng.state = "AW"
    /\ eng' = CASE ~eng.awvalid ->
                     [Idle EXCEPT !.awvalid = TRUE, !.awaddr = eng.cur_addr,
                          !.burst_index = 0,
                          !.burst_beats = Min({BurstBeats, eng.beats_remaining})]
                [] eng.awvalid /\ served -> [Idle EXCEPT !.awvalid = FALSE, !.state = "W"]
                [] OTHER -> Idle
    /\ UNCHANGED <<mem, rejected>>

\* The strobes of a beat let only its bytes be written.
EngineW(served) ==
    LET base == eng.awaddr + eng.burst_index * BeatBytes
        cells == base..base + Len(eng.wdata) - 1
    IN  /\ eng.state = "W"
        /\ \/ /\ take_input
              /\ eng' = [Idle EXCEPT !.wvalid = TRUE, !.wdata = pack.bytes,
                             !.wlast = eng.burst_index + 1 = eng.burst_beats]
              /\ UNCHANGED mem
           \/ /\ eng.wvalid /\ served
              /\ mem' = [a \in cells \cup DOMAIN mem |->
                             IF a \in cells THEN eng.wdata[a - base + 1] ELSE mem[a]]
              /\ eng' = [Idle EXCEPT !.wvalid = FALSE, !.wdata = <<>>,
                             !.beats_remaining = @ - 1, !.burst_index = @ + 1,
                             !.state = IF eng.wlast THEN "B" ELSE @]
           \/ /\ IF eng.wvalid THEN ~served ELSE ~pack.valid
              /\ eng' = Idle /\ UNCHANGED mem
        /\ UNCHANGED rejected

EngineB(served, bad) ==
    /\ eng.state = "B"
    /\ \/ /\ served
          /\ rejected' = (rejected \/ bad)
          /\ eng' = [Idle EXCEPT !.error = @ \/ bad,
                         !.cur_addr = @ + eng.burst_beats * BeatBytes,
                         !.done = eng.beats_remaining = 0,
                         !.state = IF eng.beats_remaining = 0 THEN "IDLE" ELSE "AW"]
       \/ ~served /\ eng' = Idle /\ UNCHANGED rejected
    /\ UNCHANGED mem

Engine(served, bad) ==
    EngineStart \/ EngineAW(served) \/ EngineW(served) \/ EngineB(served, bad)

\* One edge of all three.  With the FSM idle nothing moves: either all writes
\* are done or, after an error, the file is given up.
AsmTick(served, bad) ==
    /\ bad => served /\ eng.state = "B"
    /\ Fsm /\ KeyRead /\ Pack /\ Engine(served, bad)
    /\ UNCHANGED meta

AsmNext == \E served, bad \in BOOLEAN : AsmTick(served, bad)

AsmBusy == asm.state # "IDLE"
AsmEnded == asm.done \/ asm.error

-----------------------------------------------------------------------------
(* A reader of the table, from the footer on, as a reference.               *)

FileSize == data_end_offset + asm.total_bytes

At(a) == IF a \in DOMAIN mem THEN mem[a] ELSE Old
Bytes(a, n) == [i \in 1..n |-> At(a + i - 1)]

\* Value of the varint at an address and the address behind it.
varintAt[a \in Nat] ==
    IF At(a) < Radix THEN [value |-> At(a), next |-> a + 1]
    ELSE LET rest == varintAt[a + 1]
         IN  [value |-> At(a) - Radix + Radix * rest.value, next |-> rest.next]

HandleAt(a) ==
    LET off == varintAt[a]
        len == varintAt[off.next]
    IN  [offset |-> off.value, size |-> len.value, next |-> len.next]

Footer ==
    LET metaindex == HandleAt(FileSize - FooterBytes)
    IN  [metaindex |-> metaindex, index |-> HandleAt(metaindex.next)]

\* The entries of the index block from an address to its restart array.
entriesAt[a \in Nat] ==
    IF a >= Footer.index.offset + Footer.index.size - Len(Restarts) THEN <<>>
    ELSE LET unshared == varintAt[varintAt[a].next]
             len == varintAt[unshared.next]
             handle == HandleAt(len.next + unshared.value)
         IN  <<[shared |-> At(a), key |-> Bytes(len.next, unshared.value),
                offset |-> handle.offset, size |-> handle.size]>>
             \o entriesAt[len.next + unshared.value + len.value]

\* The block of a handle ends in a restart array with one entry, 0, and its
\* checksum fits.
Sealed(handle) ==
    LET bytes == Bytes(handle.offset, handle.size + 1)
        n == Len(Restarts)
    IN  /\ SubSeq(bytes, handle.size - n + 1, handle.size + 1) = Restarts \o <<0>>
        /\ At(handle.offset + handle.size + 1) = FoldLeft(crc32c_step, 0, bytes)

=============================================================================
