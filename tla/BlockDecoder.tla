---------------------------- MODULE BlockDecoder ----------------------------
(* cmpct_block_decoder: a block is captured from the source stream into     *)
(* banked memory, WordBytes bytes in a clock, while the parser already      *)
(* walks over what is there, reads the three lengths of an entry byte by    *)
(* byte, and emits the key (its shared prefix from prev_key_mem, the rest   *)
(* from the banks) and the value in words.  A read of the banks is issued   *)
(* in one clock and its data are there in the next and until the next read. *)
(*                                                                          *)
(* Capture and parser are one clocked process: both see the registers as    *)
(* the last edge left them.  The source pipe in front hands over words,     *)
(* the first of which may be short (byte_skip_adapter_w64).                 *)
EXTENDS BlockFormat

CONSTANTS
    VarintBytes,        \* bytes of a varint at most (5)
    RestartGuard        \* RESTART_GUARD

ASSUME DecoderAssumption ==
    VarintBytes \in Nat \ {0} /\ RestartGuard \in Nat

VARIABLES
    blk,        \* the block in memory, <<>> before the start
    stream,     \* the size of its first word and whether it may pause
    cap,        \* the capture registers
    dec,        \* the parser's registers
    bank,       \* the banks' read data and the offset of the last emit read
    delivered   \* the records handed over, with their bytes so far

decVars == <<blk, stream, cap, dec, bank, delivered>>

Fields == <<"shared", "unshared", "value">>

DecInit ==
    /\ blk = <<>>
    /\ stream = [first |-> WordBytes, pausing |-> FALSE]
    /\ cap = [wptr |-> 0, done |-> FALSE, active |-> FALSE, error |-> FALSE,
              ra_valid |-> FALSE, ra_offset |-> 0, count |-> 0]
    /\ dec = [state |-> "IDLE", error |-> FALSE, parse_index |-> 0, field |-> 1,
              accum |-> 0, bytes |-> 0,
              len |-> [f \in 1..Len(Fields) |-> 0],
              prev_key_len |-> 0, prev_key_mem |-> [i \in 0..MaxKeyBytes - 1 |-> Old],
              key_base |-> 0, next_entry |-> 0, copied |-> 0, emit_remain |-> 0,
              post_emit |-> FALSE, scan |-> 0, prev_offset |-> 0]
    /\ bank = [data |-> [b \in 0..WordBytes - 1 |-> Old], at |-> 0, emit_at |-> 0]
    /\ delivered = <<>>

\* start
DecStart(block, first, pausing) ==
    /\ blk' = block
    /\ stream' = [first |-> first, pausing |-> pausing]
    /\ cap' = [cap EXCEPT !.active = TRUE]
    /\ dec' = [dec EXCEPT !.state = "FETCH"]
    /\ UNCHANGED <<bank, delivered>>

\* Mutant: the restart array is not counted off.
limit_without_guard == Len(blk)

safe_parse_limit == Max({Len(blk) - RestartGuard, 0})

------------------------------------------------------------------------------
\* The capture sub-process.

NextWord == IF cap.wptr = 0 THEN Min({stream.first, Len(blk)})
            ELSE Min({WordBytes, Len(blk) - cap.wptr})

\* The word that ends the block may reach over the end of the memory.
CaptureWord ==
    LET last == cap.wptr + NextWord = Len(blk)
    IN  cap' = IF cap.wptr + NextWord > MaxBlockBytes /\ ~last
               THEN [cap EXCEPT !.error = TRUE, !.active = FALSE]
               ELSE [cap EXCEPT !.wptr = @ + NextWord, !.done = last,
                                !.active = ~last]

\* The clock after the last word: its last bytes are the restart count.
RestartInfo ==
    LET count == FixedValue(SubSeq(blk, Len(blk) - FixedBytes + 1, Len(blk)))
        array == (count + 1) * FixedBytes
    IN  cap' = IF cap.wptr < 2 * FixedBytes \/ count = 0 \/ array > cap.wptr
               THEN [cap EXCEPT !.error = TRUE]
               ELSE [cap EXCEPT !.ra_valid = TRUE, !.count = count,
                                !.ra_offset = cap.wptr - array]

Capture(offered) ==
    \/ /\ offered /\ cap.active /\ ~cap.error /\ cap.wptr < MaxBlockBytes
       /\ CaptureWord
    \/ /\ cap.done /\ ~cap.ra_valid /\ ~cap.error
       /\ RestartInfo
    \/ /\ ~(offered /\ cap.active /\ ~cap.error /\ cap.wptr < MaxBlockBytes)
       /\ ~(cap.done /\ ~cap.ra_valid /\ ~cap.error)
       /\ UNCHANGED cap

------------------------------------------------------------------------------
\* The banks.  Cell a is captured or holds what an earlier block left.

Cell(a) == IF a < cap.wptr THEN blk[a + 1] ELSE Old

\* A parse read takes the row of byte a, an emit read the word from byte a on.
ParseRead(a) ==
    bank' = [bank EXCEPT !.at = a % WordBytes,
                !.data = [b \in DOMAIN @ |-> Cell(a - (a % WordBytes) + b)]]
EmitRead(a) ==
    bank' = [bank EXCEPT !.emit_at = a % WordBytes,
                !.data = [b \in DOMAIN @ |-> Cell(a + ((b - a) % WordBytes))]]

fetched_byte == bank.data[bank.at]
bram_emit_word(n) ==
    [k \in 1..n |-> bank.data[(bank.emit_at + k - 1) % WordBytes]]

\* The word from byte a on has been captured.
WordCaptured(a) == a + WordBytes - 1 < cap.wptr

------------------------------------------------------------------------------
\* The parser.

entries_done == cap.ra_valid /\ dec.parse_index >= cap.ra_offset
Captured == dec.parse_index < cap.wptr

Fail == dec' = [dec EXCEPT !.state = "IDLE", !.error = TRUE]

\* Mutant: the parser waits although the offset is known.
MustWaitOn == /\ Fields[dec.field] = "shared" /\ dec.post_emit
              /\ dec.parse_index >= safe_parse_limit

\* Near the end of the block the parser waits for the restart array's offset.
MustWait == /\ Fields[dec.field] = "shared" /\ dec.post_emit
            /\ ~cap.ra_valid /\ dec.parse_index >= safe_parse_limit

\* ST_FETCH_SHARED, ST_FETCH_UNSHARED, ST_FETCH_VALUE_LEN: the read is issued
\* even if the parser has to wait.
Fetch ==
    /\ dec.state = "FETCH"
    /\ IF ~entries_done /\ Captured THEN ParseRead(dec.parse_index) ELSE UNCHANGED bank
    /\ \/ /\ entries_done
          /\ IF Fields[dec.field] = "shared"
             THEN dec' = [dec EXCEPT !.state = "BEGIN_RESTART_SCAN", !.scan = 0,
                                     !.prev_offset = 0, !.post_emit = FALSE]
             ELSE Fail
       \/ /\ ~entries_done /\ (MustWait \/ ~Captured)
          /\ UNCHANGED dec
       \/ /\ ~entries_done /\ ~MustWait /\ Captured
          /\ dec' = [dec EXCEPT !.state = "CONSUME", !.parse_index = @ + 1,
                                !.post_emit = FALSE]
    /\ UNCHANGED delivered

\* The parser goes on with the given registers at the next byte, which it
\* reads at once if it is there.
ReadOn(d) ==
    IF Captured
    THEN /\ ParseRead(dec.parse_index)
         /\ dec' = [d EXCEPT !.state = "CONSUME", !.parse_index = @ + 1]
    ELSE /\ dec' = [d EXCEPT !.state = "FETCH"]
         /\ UNCHANGED bank

\* ST_CONSUME_SHARED, ST_CONSUME_UNSHARED, ST_CONSUME_VALUE_LEN
Consume ==
    LET value == dec.accum + (fetched_byte % Radix) * Radix^dec.bytes
        full == [dec EXCEPT !.len[dec.field] = value, !.accum = 0, !.bytes = 0]
    IN  /\ dec.state = "CONSUME"
        /\ \/ /\ fetched_byte >= Radix /\ dec.bytes = VarintBytes - 1
              /\ Fail /\ UNCHANGED bank
           \/ /\ fetched_byte >= Radix /\ dec.bytes # VarintBytes - 1
              /\ ReadOn([dec EXCEPT !.accum = value, !.bytes = @ + 1])
           \/ /\ fetched_byte < Radix /\ Fields[dec.field] = "value"
              /\ dec' = [full EXCEPT !.state = "VALIDATE_ENTRY"]
              /\ UNCHANGED bank
           \/ /\ fetched_byte < Radix /\ Fields[dec.field] # "value"
              /\ IF entries_done THEN Fail /\ UNCHANGED bank
                 ELSE ReadOn([full EXCEPT !.field = @ + 1])
        /\ UNCHANGED delivered

\* ST_VALIDATE_ENTRY: the end of the entries is checked only once it is known.
ValidateEntry ==
    LET shared == dec.len[1]
        next == dec.parse_index + dec.len[2] + dec.len[3]
        bad == \/ shared > dec.prev_key_len
               \/ shared + dec.len[2] > MaxKeyBytes
               \/ cap.ra_valid /\ next > cap.ra_offset
    IN  /\ dec.state = "VALIDATE_ENTRY"
        /\ \/ bad /\ Fail
           \/ ~bad /\ dec' = [dec EXCEPT !.state = "EMIT_ENTRY", !.next_entry = next,
                                         !.key_base = dec.parse_index]
        /\ UNCHANGED <<bank, delivered>>

\* The registers at the begin of the first phase from f on that has bytes to
\* emit: 1 the shared prefix, 2 the rest of the key, 3 the value; after the
\* last one the next entry.
Phase(d, f) ==
    LET todo == {g \in f..3 : d.len[g] # 0}
    IN  IF todo = {}
        THEN [d EXCEPT !.state = "FETCH", !.field = 1, !.post_emit = TRUE]
        ELSE [d EXCEPT !.field = Min(todo), !.copied = 0,
                 !.state = IF Min(todo) = 1 THEN "EMIT_KEY_BYTES" ELSE "PREP_EMIT"]

\* ST_EMIT_ENTRY: the header, when record_ready.
EmitEntry(ready) ==
    /\ dec.state = "EMIT_ENTRY"
    /\ \/ ~ready /\ UNCHANGED <<dec, delivered>>
       \/ /\ ready
          /\ dec' = Phase([dec EXCEPT !.parse_index = dec.next_entry,
                                      !.prev_key_len = dec.len[1] + dec.len[2]], 1)
          /\ delivered' = Append(delivered,
                 [key_len |-> dec.len[1] + dec.len[2], value_len |-> dec.len[3],
                  bytes |-> <<>>, last |-> FALSE])
    /\ UNCHANGED bank

\* A word goes out; last marks the record's final one (m_axis_tlast).
Deliver(word, last) ==
    delivered' = [delivered EXCEPT ![Len(delivered)].bytes = @ \o word,
                                   ![Len(delivered)].last = last]

\* ST_EMIT_KEY_BYTES: the shared prefix from prev_key_mem.
EmitKeyBytes(ready) ==
    LET n == Min({WordBytes, dec.len[1] - dec.copied})
        final == dec.copied + n >= dec.len[1]
    IN  /\ dec.state = "EMIT_KEY_BYTES"
        /\ \/ ~ready /\ UNCHANGED <<dec, delivered>>
           \/ /\ ready
              /\ Deliver([k \in 1..n |-> dec.prev_key_mem[dec.copied + k - 1]],
                         final /\ dec.len[2] = 0 /\ dec.len[3] = 0)
              /\ dec' = IF final THEN Phase(dec, 2)
                        ELSE [dec EXCEPT !.copied = @ + n]
        /\ UNCHANGED bank

EmitBase == dec.key_base + (IF dec.field = 2 THEN 0 ELSE dec.len[2])

\* ST_PREP_EMIT_UNSHARED, ST_PREP_EMIT_VALUE: the bank read is issued when the
\* whole word has been captured; the parser goes on with it, or with a final
\* partial word all of which has been captured.
PrepEmit ==
    LET base == EmitBase + dec.copied
        left == dec.len[dec.field] - dec.copied
        go == WordCaptured(base) \/ (left < WordBytes /\ base + left <= cap.wptr)
    IN  /\ dec.state = "PREP_EMIT"
        /\ IF WordCaptured(base) THEN EmitRead(base) ELSE UNCHANGED bank
        /\ \/ go /\ dec' = [dec EXCEPT !.state = "EMIT", !.emit_remain = left]
           \/ ~go /\ UNCHANGED dec
        /\ UNCHANGED delivered

\* The key bytes that are emitted become the tail of prev_key_mem.
KeyMem(word) ==
    LET base == dec.len[1] + dec.copied
    IN  [i \in DOMAIN dec.prev_key_mem |->
            IF dec.field = 2 /\ i - base \in 0..Len(word) - 1
            THEN word[i - base + 1] ELSE dec.prev_key_mem[i]]

\* ST_EMIT_UNSHARED_KEY, ST_EMIT_VALUE_BYTES: a word goes out and the next one
\* is read if it has been captured.
EmitBytes(ready) ==
    LET n == Min({WordBytes, dec.emit_remain})
        word == bram_emit_word(n)
        next == EmitBase + dec.copied + WordBytes
        d == [dec EXCEPT !.prev_key_mem = KeyMem(word)]
        more == [d EXCEPT !.copied = @ + WordBytes, !.emit_remain = @ - WordBytes]
    IN  /\ dec.state = "EMIT"
        /\ \/ ~ready /\ UNCHANGED <<dec, bank, delivered>>
           \/ /\ ready /\ dec.emit_remain <= WordBytes
              /\ Deliver(word, dec.field = 3 \/ dec.len[3] = 0)
              /\ dec' = Phase(d, dec.field + 1)
              /\ UNCHANGED bank
           \/ /\ ready /\ dec.emit_remain > WordBytes
              /\ Deliver(word, FALSE)
              /\ IF WordCaptured(next) THEN EmitRead(next) /\ dec' = more
                 ELSE dec' = [more EXCEPT !.state = "PREP_EMIT"] /\ UNCHANGED bank

\* ST_BEGIN_RESTART_SCAN: the next restart offset, or the end.
BeginRestartScan ==
    /\ dec.state = "BEGIN_RESTART_SCAN"
    /\ dec' = IF dec.scan < cap.count
              THEN [dec EXCEPT !.state = "FETCH_FIXED32", !.accum = 0, !.bytes = 0]
              ELSE [dec EXCEPT !.state = "IDLE"]
    /\ UNCHANGED <<bank, delivered>>

\* ST_FETCH_FIXED32
FetchFixed32 ==
    /\ dec.state = "FETCH_FIXED32"
    /\ ParseRead(cap.ra_offset + dec.scan * FixedBytes + dec.bytes)
    /\ dec' = [dec EXCEPT !.state = "CONSUME_FIXED32"]
    /\ UNCHANGED delivered

\* Mutant: restart offsets need not ascend.
OffsetBadUnordered(offset) ==
    \/ dec.scan = 0 /\ offset # 0
    \/ offset >= cap.ra_offset

OffsetBad(offset) ==
    \/ dec.scan = 0 /\ offset # 0
    \/ offset >= cap.ra_offset
    \/ dec.scan # 0 /\ offset <= dec.prev_offset

\* ST_CONSUME_FIXED32
ConsumeFixed32 ==
    LET offset == dec.accum + fetched_byte * (2 * Radix)^dec.bytes
    IN  /\ dec.state = "CONSUME_FIXED32"
        /\ \/ /\ dec.bytes # FixedBytes - 1
              /\ dec' = [dec EXCEPT !.state = "FETCH_FIXED32", !.accum = offset,
                                    !.bytes = @ + 1]
           \/ dec.bytes = FixedBytes - 1 /\ OffsetBad(offset) /\ Fail
           \/ /\ dec.bytes = FixedBytes - 1 /\ ~OffsetBad(offset)
              /\ dec' = [dec EXCEPT !.state = "BEGIN_RESTART_SCAN",
                                    !.prev_offset = offset, !.scan = @ + 1]
        /\ UNCHANGED <<bank, delivered>>

CaptureFailed ==
    /\ cap.error
    /\ Fail
    /\ UNCHANGED <<bank, delivered>>

Parse(ready) ==
    \/ CaptureFailed
    \/ /\ ~cap.error
       /\ \/ Fetch
          \/ Consume
          \/ ValidateEntry
          \/ EmitEntry(ready)
          \/ EmitKeyBytes(ready)
          \/ PrepEmit
          \/ EmitBytes(ready)
          \/ BeginRestartScan
          \/ FetchFixed32
          \/ ConsumeFixed32

DecBusy == blk # <<>> /\ dec.state # "IDLE"

\* A clock edge.  A stream that does not pause offers a word in every clock.
Tick(offered, ready) ==
    /\ DecBusy
    /\ offered \/ stream.pausing
    /\ Capture(offered)
    /\ Parse(ready)
    /\ UNCHANGED <<blk, stream>>

DecNext == \E offered, ready \in BOOLEAN : Tick(offered, ready)

DecEnded == blk # <<>> /\ dec.state = "IDLE"

=============================================================================
