---------------------------- MODULE NBlockEngine ----------------------------
(***************************************************************************)
(* cmpct_nblock_engine with the output side of cmpct_pair_chain.           *)
(*                                                                         *)
(* The FSM takes descriptor pairs, starts the merge chain on each, and     *)
(* overlaps the encoding of pair N+1 with the writing of pair N.  When the *)
(* last pair, or the last pair of a split output file, has been encoded    *)
(* it waits for the write engine and lets the assembler append the index   *)
(* block and the footer.                                                   *)
(*                                                                         *)
(* Everything shares one clock: a step (Tick) is one clock edge.           *)
(*                                                                         *)
(* Data abstraction.  Addresses, offsets and sizes are counted in 64-byte  *)
(* AXI beats, because running_offset and sst_base_offset are always        *)
(* rounded up to 64.  A data block is its number and its number of beats,  *)
(* trailer included; what lies in destination memory is which beat of      *)
(* which block was last written there.  The byte packers, the 128-word     *)
(* FIFO and the trailer appender are one queue of PipeBeats beats in front *)
(* of the pack adapter's output register.                                  *)
(***************************************************************************)
EXTENDS Integers, Sequences

CONSTANTS
    Pairs,              \* possible numbers of descriptor pairs of a run
    BlockBeats,         \* possible sizes of an encoded block, in beats
    PipeBeats,          \* beats the packers, FIFO and trailer appender hold
    BurstBeats,         \* MAX_BURST_LEN of the write engine
    MaxBlockPairs,      \* MAX_BLOCK_PAIRS: blocks one index can describe
    SplitThresholds,    \* possible split_threshold values, in beats; NoSplit = disabled
    NoSplit,
    TailBeats,          \* beats of index block, metaindex block and footer
    MemBeats,           \* size of the destination buffer, in beats
    MaxRuns             \* bound on start pulses

ASSUME NBlockAssumption ==
    /\ Pairs \subseteq Nat \ {0}
    /\ BlockBeats \subseteq Nat \ {0}
    /\ PipeBeats \in Nat \ {0}
    /\ BurstBeats \in Nat \ {0}
    /\ MaxBlockPairs \in Nat \ {0}
    /\ SplitThresholds \subseteq Nat \cup {NoSplit}
    /\ NoSplit \notin Nat
    /\ TailBeats \in Nat \ {0}
    /\ MemBeats \in Nat
    /\ MaxRuns \in Nat

VARIABLES
    pairs, taken,           \* descriptors of this run; how many were taken
    state, busy, done, error,
    current, desc_is_last,  \* descriptor of the pair in the merge chain
    next_desc, desc_prefetched,
    active_block_index, blocks_in_sst, running_offset, sst_base_offset,
    split_threshold, sstable_sizes,
    pipeline_wr_pending, pipeline_restart, wr_done_pending, front_start_pending,
    assemble_mode, asm_start,
    inner_cmd,              \* inner_clear_r, inner_start_r, inner_front_clear_r, ..._start_r
    meta,                   \* metadata memory of the assembler
    enc, enc_left, enc_size, enc_done, front_error,
    enc_of,                 \* history: run and pair the encoder works on
    pipe,                   \* beats between the encoder and the pack adapter
    write_beat,             \* pack adapter output: a sequence of at most one beat
    wr_start, wr_started, write_beat_tvalid_d,
    wr_state, cur_addr, burst_index, stream_last_seen, wr_done, wr_error,
    asm,                    \* assembler: "IDLE", "RUN", "DONE", "ERROR"
    mem,                    \* destination memory
    files,                  \* history: base and metadata of the files assembled
    write_failed,           \* history: a write of this run was answered with an error
    runs

nbVars == <<state, busy, done, error, current, desc_is_last, next_desc,
            desc_prefetched, active_block_index, blocks_in_sst, running_offset,
            sst_base_offset, split_threshold, sstable_sizes, pipeline_wr_pending,
            pipeline_restart, wr_done_pending, front_start_pending, assemble_mode,
            asm_start, inner_cmd, meta, taken, pairs, files, runs>>
encVars == <<enc, enc_left, enc_size, enc_done, front_error, enc_of>>
startVars == <<wr_start, wr_started, write_beat_tvalid_d>>
writerVars == <<wr_state, cur_addr, burst_index, stream_last_seen, wr_done, wr_error>>
vars == <<nbVars, encVars, pipe, write_beat, startVars, writerVars, asm, mem, write_failed>>

-----------------------------------------------------------------------------
(* The merge chain up to the encoder: source pipes, merger and encoder     *)
(* work on one pair, hand beats to the output pipe and pulse enc_done.     *)

\* The i-th of the n beats of the block the encoder works on.
Beat(i, n) == [run |-> enc_of[1], blk |-> enc_of[2], idx |-> i, last |-> (i = n)]

FrontReset == inner_cmd \in {"clear", "front_clear"}

EncoderReset ==
    /\ FrontReset
    /\ enc' = "IDLE"
    /\ enc_done' = FALSE
    /\ front_error' = FALSE
    /\ UNCHANGED <<enc_left, enc_size, enc_of>>

EncoderStart ==
    /\ inner_cmd \in {"start", "front_start"}
    /\ enc' = "RUN"
    /\ enc_size' \in BlockBeats
    /\ enc_left' = enc_size'
    /\ enc_of' = <<runs, current>>
    /\ enc_done' = FALSE
    /\ UNCHANGED front_error

EncoderWait ==
    /\ inner_cmd = "none"
    /\ enc_done' = FALSE
    /\ UNCHANGED <<enc, enc_left, enc_size, front_error, enc_of>>

\* Mutant: the encoder does not look at the room in the FIFO.
CanEmitAlways == enc = "RUN"

CanEmit == enc = "RUN" /\ Len(pipe) < PipeBeats

\* The output FIFO has room for 64 more bytes.
EncoderEmit ==
    /\ inner_cmd = "none"
    /\ CanEmit
    /\ enc_left' = enc_left - 1
    /\ enc' = IF enc_left = 1 THEN "IDLE" ELSE "RUN"
    /\ enc_done' = (enc_left = 1)
    /\ UNCHANGED <<enc_size, front_error, enc_of>>

\* A decoder, the merger or the encoder rejects its input.
EncoderFault ==
    /\ inner_cmd = "none"
    /\ enc = "RUN"
    /\ enc' = "IDLE"
    /\ front_error' = TRUE
    /\ enc_done' = FALSE
    /\ UNCHANGED <<enc_left, enc_size, enc_of>>

EncoderClock(in) ==
    \/ EncoderReset
    \/ EncoderStart
    \/ in = "wait" /\ EncoderWait
    \/ in = "go" /\ EncoderEmit
    \/ in = "go" /\ ~CanEmit /\ EncoderWait
    \/ in = "fault" /\ EncoderFault

Emitting(in) == inner_cmd = "none" /\ in = "go" /\ CanEmit

-----------------------------------------------------------------------------
(* Output pipe and pack adapter; only inner_clear resets them.             *)

InnerClear == inner_cmd = "clear"
Arrives(in) == in = "go" /\ write_beat = <<>> /\ pipe /= <<>>

\* The write engine is connected to the AXI port only outside assemble_mode.
TakeBeat(axi) ==
    /\ wr_state = "W"
    /\ ~assemble_mode
    /\ axi = "go"
    /\ write_beat /= <<>>
    /\ ~stream_last_seen

PipeClock(inEnc, inPipe, axi) ==
    IF InnerClear
    THEN pipe' = <<>> /\ write_beat' = <<>>
    ELSE /\ pipe' = LET rest == IF Arrives(inPipe) THEN Tail(pipe) ELSE pipe
                    IN  IF Emitting(inEnc)
                        THEN Append(rest, Beat(enc_size - enc_left + 1, enc_size))
                        ELSE rest
         /\ write_beat' = IF Arrives(inPipe) THEN <<Head(pipe)>>
                          ELSE IF TakeBeat(axi) THEN <<>>
                          ELSE write_beat

-----------------------------------------------------------------------------
(* Start logic: the write engine is started on the first packed beat of    *)
(* each block.                                                             *)

FirstBeat == ~wr_started /\ write_beat /= <<>> /\ ~write_beat_tvalid_d

StartClock ==
    \/ /\ InnerClear
       /\ wr_start' = FALSE
       /\ wr_started' = FALSE
       /\ write_beat_tvalid_d' = FALSE
    \/ /\ ~InnerClear
       /\ inner_cmd /= "start"
       /\ wr_done
       /\ wr_start' = FALSE
       /\ wr_started' = FALSE
       /\ write_beat_tvalid_d' = FALSE
    \/ /\ ~InnerClear
       /\ inner_cmd /= "start"
       /\ ~wr_done
       /\ wr_start' = FirstBeat
       /\ wr_started' = (wr_started \/ FirstBeat)
       /\ write_beat_tvalid_d' = (write_beat /= <<>>)
    \/ /\ inner_cmd = "start"
       /\ wr_start' = FALSE
       /\ wr_started' = FALSE
       /\ write_beat_tvalid_d' = (write_beat /= <<>>)

-----------------------------------------------------------------------------
(* axi_write_engine in TLAST_STOP mode.                                    *)

\* Mutant: the base of the current output file is left out.
dst_base_without_file == running_offset

\* current_dst_base_addr, a live wire: sampled when the engine starts.
current_dst_base_addr == sst_base_offset + running_offset

WriterReset ==
    /\ InnerClear
    /\ wr_state' = "IDLE"
    /\ cur_addr' = 0
    /\ burst_index' = 0
    /\ stream_last_seen' = FALSE
    /\ wr_done' = FALSE
    /\ wr_error' = FALSE

WriterIdle ==
    /\ ~InnerClear
    /\ wr_state = "IDLE"
    /\ wr_done' = FALSE
    /\ \/ /\ ~wr_start
          /\ UNCHANGED <<wr_state, cur_addr, burst_index, stream_last_seen, wr_error>>
       \/ /\ wr_start
          /\ wr_state' = "AW"
          /\ cur_addr' = current_dst_base_addr
          /\ burst_index' = 0
          /\ stream_last_seen' = FALSE
          /\ wr_error' = FALSE

WriterAW(axi) ==
    /\ ~InnerClear
    /\ wr_state = "AW"
    /\ wr_state' = IF axi = "go" /\ ~assemble_mode THEN "W" ELSE "AW"
    /\ burst_index' = 0
    /\ wr_done' = FALSE
    /\ UNCHANGED <<cur_addr, stream_last_seen, wr_error>>

\* A burst ends when it is full; after the block's last beat it is filled up
\* with beats whose byte strobes are off.
WriterW(axi) ==
    /\ ~InnerClear
    /\ wr_state = "W"
    /\ wr_done' = FALSE
    /\ \/ /\ ~TakeBeat(axi)
          /\ UNCHANGED <<wr_state, burst_index, stream_last_seen>>
       \/ /\ TakeBeat(axi)
          /\ stream_last_seen' = Head(write_beat).last
          /\ burst_index' = burst_index + 1
          /\ wr_state' = IF Head(write_beat).last \/ burst_index + 1 = BurstBeats
                         THEN "B" ELSE "W"
    /\ UNCHANGED <<cur_addr, wr_error>>

\* A bad response raises error and changes nothing else.
WriterB(axi) ==
    /\ ~InnerClear
    /\ wr_state = "B"
    /\ \/ /\ axi = "wait" \/ assemble_mode
          /\ wr_done' = FALSE
          /\ UNCHANGED <<wr_state, cur_addr, wr_error>>
       \/ /\ axi /= "wait" /\ ~assemble_mode
          /\ wr_error' = (wr_error \/ axi = "fault")
          /\ cur_addr' = cur_addr + BurstBeats
          /\ wr_done' = stream_last_seen
          /\ wr_state' = IF stream_last_seen THEN "IDLE" ELSE "AW"
    /\ UNCHANGED <<burst_index, stream_last_seen>>

WriterClock(axi) ==
    \/ WriterReset
    \/ WriterIdle
    \/ WriterAW(axi)
    \/ WriterW(axi)
    \/ WriterB(axi)

-----------------------------------------------------------------------------
(* The assembler, reduced to its effect: it writes the tail of the file    *)
(* behind the data blocks and holds done until it is cleared.              *)

AsmWrites(axi) == asm = "RUN" /\ ~InnerClear /\ axi = "go"

AsmClock(axi) ==
    asm' = CASE InnerClear -> "IDLE"
             [] ~InnerClear /\ asm_start -> "RUN"
             [] AsmWrites(axi) /\ ~asm_start -> "DONE"
             [] asm = "RUN" /\ ~InnerClear /\ ~asm_start /\ axi = "fault" -> "ERROR"
             [] OTHER -> asm

\* A beat of this run is its block and number; Old is whatever a run before
\* left behind or still writes.
Old == <<0, 0>>
StartAccepted(cmd) == state = "IDLE" /\ cmd = "start" /\ ~busy
BeatWritten == IF Head(write_beat).run = runs
               THEN <<Head(write_beat).blk, Head(write_beat).idx>> ELSE Old

MemClock(cmd, axi) ==
    mem' = [a \in DOMAIN mem |->
              IF StartAccepted(cmd) THEN Old
              ELSE IF ~InnerClear /\ TakeBeat(axi) /\ a = cur_addr + burst_index
              THEN BeatWritten
              ELSE IF AsmWrites(axi) /\ a - current_dst_base_addr \in 0..TailBeats - 1
              THEN <<0, a - current_dst_base_addr + 1>>
              ELSE mem[a]]

-----------------------------------------------------------------------------
(* The nblock FSM.                                                         *)

\* Mutant: the write engine's error is left out.
inner_error_front == front_error

inner_error == front_error \/ wr_error

\* Mutant: a descriptor is taken although the next one is held already.
desc_ready_again ==
    \/ state = "POP" /\ ~desc_prefetched
    \/ state = "WAIT" /\ ~desc_is_last /\ active_block_index > 0

desc_ready ==
    \/ state = "POP" /\ ~desc_prefetched
    \/ state = "WAIT" /\ ~desc_prefetched /\ ~desc_is_last /\ active_block_index > 0

\* The matcher offers descriptor taken + 1.
DescHandshake(in) == in = "go" /\ taken < pairs /\ desc_ready

\* Assignments made on every clock edge, whatever the state.
PulseDefaults ==
    /\ inner_cmd' = IF front_start_pending THEN "front_start" ELSE "none"
    /\ front_start_pending' = FALSE
PendingDefault == pipeline_wr_pending' = (pipeline_wr_pending /\ ~wr_done)
StatusDefaults == done' = FALSE /\ error' = FALSE
NoAsmStart == asm_start' = FALSE
NoPrefetch == UNCHANGED <<next_desc, desc_prefetched, taken>>

fileVars == <<blocks_in_sst, running_offset, meta>>
runVars == <<pairs, split_threshold, runs>>
outVars == <<sst_base_offset, sstable_sizes, files>>
descVars == <<current, desc_is_last>>

NBClear ==
    /\ state' = "IDLE"
    /\ busy' = FALSE
    /\ done' = FALSE /\ error' = FALSE
    /\ inner_cmd' = "none"
    /\ NoAsmStart
    /\ pipeline_wr_pending' = FALSE
    /\ pipeline_restart' = FALSE
    /\ wr_done_pending' = FALSE
    /\ active_block_index' = 0
    /\ running_offset' = 0
    /\ assemble_mode' = FALSE
    /\ sst_base_offset' = 0
    /\ blocks_in_sst' = 0
    /\ sstable_sizes' = <<>>
    /\ files' = <<>>
    /\ UNCHANGED <<front_start_pending, next_desc, desc_prefetched, taken, meta,
                   runVars, descVars>>

\* A new run: fresh descriptors, every counter back to zero.
NBIdle(cmd) ==
    /\ state = "IDLE"
    /\ StatusDefaults
    /\ NoAsmStart
    /\ \/ /\ ~(cmd = "start" /\ ~busy)
          /\ PulseDefaults
          /\ PendingDefault
          /\ NoPrefetch
          /\ UNCHANGED <<state, busy, pipeline_restart, wr_done_pending, assemble_mode,
                         active_block_index, fileVars, runVars, outVars, descVars>>
       \/ /\ cmd = "start" /\ ~busy
          /\ runs < MaxRuns
          /\ runs' = runs + 1
          /\ pairs' \in Pairs
          /\ split_threshold' \in SplitThresholds
          /\ taken' = 0
          /\ state' = "POP"
          /\ busy' = TRUE
          /\ desc_is_last' = FALSE
          /\ active_block_index' = 0
          /\ running_offset' = 0
          /\ assemble_mode' = FALSE
          /\ sst_base_offset' = 0
          /\ blocks_in_sst' = 0
          /\ sstable_sizes' = <<>>
          /\ files' = <<>>
          /\ pipeline_wr_pending' = FALSE
          /\ pipeline_restart' = FALSE
          /\ wr_done_pending' = FALSE
          /\ front_start_pending' = FALSE
          /\ desc_prefetched' = FALSE
          /\ inner_cmd' = "none"
          /\ meta' = <<>>      \* the old words stay in the memory, unread
          /\ UNCHANGED <<current, next_desc>>

\* Take the prefetched descriptor, or the one on the stream.
NBPop(in) ==
    /\ state = "POP"
    /\ StatusDefaults /\ NoAsmStart /\ PulseDefaults /\ PendingDefault
    /\ \/ /\ desc_prefetched
          /\ current' = next_desc
          /\ desc_is_last' = (next_desc = pairs)
          /\ desc_prefetched' = FALSE
          /\ state' = IF pipeline_restart THEN "PIPE_RESTART" ELSE "CLEAR"
          /\ UNCHANGED <<next_desc, taken>>
       \/ /\ DescHandshake(in)
          /\ taken' = taken + 1
          /\ current' = taken + 1
          /\ desc_is_last' = (taken + 1 = pairs)
          /\ state' = IF pipeline_restart THEN "PIPE_RESTART" ELSE "CLEAR"
          /\ UNCHANGED <<next_desc, desc_prefetched>>
       \/ /\ ~desc_prefetched /\ ~DescHandshake(in)
          /\ NoPrefetch
          /\ UNCHANGED <<state, descVars>>
    /\ UNCHANGED <<busy, pipeline_restart, wr_done_pending, assemble_mode,
                   active_block_index, fileVars, runVars, outVars>>

NBClearState ==
    /\ state = "CLEAR"
    /\ state' = "START"
    /\ inner_cmd' = "clear"
    /\ front_start_pending' = FALSE
    /\ StatusDefaults /\ NoAsmStart /\ PendingDefault /\ NoPrefetch
    /\ UNCHANGED <<busy, pipeline_restart, wr_done_pending, assemble_mode,
                   active_block_index, fileVars, runVars, outVars, descVars>>

NBStart ==
    /\ state = "START"
    /\ state' = "WAIT"
    /\ inner_cmd' = "start"
    /\ front_start_pending' = FALSE
    /\ StatusDefaults /\ NoAsmStart /\ PendingDefault /\ NoPrefetch
    /\ UNCHANGED <<busy, pipeline_restart, wr_done_pending, assemble_mode,
                   active_block_index, fileVars, runVars, outVars, descVars>>

\* Next-descriptor registers, loaded while the FSM waits.
Prefetch(in) ==
    IF DescHandshake(in)
    THEN next_desc' = taken + 1 /\ taken' = taken + 1 /\ desc_prefetched' = TRUE
    ELSE NoPrefetch

\* Mutant: busy stays up after an error.
InnerFailsBusy ==
    /\ inner_error
    /\ error' = TRUE
    /\ done' = FALSE
    /\ state' = "IDLE"
    /\ UNCHANGED busy

InnerFails ==
    /\ inner_error
    /\ busy' = FALSE
    /\ error' = TRUE
    /\ done' = FALSE
    /\ state' = "IDLE"

NBWaitError(in) ==
    /\ state = "WAIT"
    /\ InnerFails
    /\ Prefetch(in)
    /\ NoAsmStart /\ PulseDefaults /\ PendingDefault
    /\ UNCHANGED <<pipeline_restart, wr_done_pending, assemble_mode,
                   active_block_index, fileVars, runVars, outVars, descVars>>

NBWaitOn(in) ==
    /\ state = "WAIT"
    /\ ~inner_error
    /\ ~enc_done
    /\ Prefetch(in)
    /\ StatusDefaults /\ NoAsmStart /\ PulseDefaults /\ PendingDefault
    /\ UNCHANGED <<state, busy, pipeline_restart, wr_done_pending, assemble_mode,
                   active_block_index, fileVars, runVars, outVars, descVars>>

\* Mutant: the block is recorded at the offset behind it.
RecordBlockBehind ==
    /\ running_offset' = running_offset + enc_size
    /\ meta' = Append(SubSeq(meta, 1, blocks_in_sst),
                      [blk |-> current, offset |-> running_offset', beats |-> enc_size])
    /\ blocks_in_sst' = blocks_in_sst + 1

\* Metadata of the block just encoded; the offset registered before this edge.
RecordBlock ==
    /\ meta' = Append(SubSeq(meta, 1, blocks_in_sst),
                      [blk |-> current, offset |-> running_offset, beats |-> enc_size])
    /\ running_offset' = running_offset + enc_size
    /\ blocks_in_sst' = blocks_in_sst + 1

SplitHere ==
    \/ split_threshold /= NoSplit /\ running_offset >= split_threshold
    \/ blocks_in_sst + 1 >= MaxBlockPairs

\* The encoder finished the last pair of the run or of the output file.
NBEncodedLast(in) ==
    /\ state = "WAIT"
    /\ ~inner_error
    /\ enc_done
    /\ desc_is_last \/ SplitHere
    /\ RecordBlock
    /\ wr_done_pending' = wr_done
    /\ state' = IF desc_is_last THEN "WAIT_LAST" ELSE "WAIT_SPLIT"
    /\ Prefetch(in)
    /\ StatusDefaults /\ NoAsmStart /\ PulseDefaults /\ PendingDefault
    /\ UNCHANGED <<busy, pipeline_restart, assemble_mode, active_block_index,
                   runVars, outVars, descVars>>

\* More pairs for this file: restart the front while the block is written.
NBEncodedMore(in) ==
    /\ state = "WAIT"
    /\ ~inner_error
    /\ enc_done
    /\ ~(desc_is_last \/ SplitHere)
    /\ RecordBlock
    /\ pipeline_wr_pending' = TRUE
    /\ pipeline_restart' = TRUE
    /\ active_block_index' = active_block_index + 1
    /\ IF desc_prefetched
       THEN /\ current' = next_desc
            /\ desc_is_last' = (next_desc = pairs)
            /\ desc_prefetched' = FALSE
            /\ state' = "PIPE_RESTART"
            /\ UNCHANGED <<next_desc, taken>>
       ELSE /\ state' = "POP"
            /\ Prefetch(in)
            /\ UNCHANGED descVars
    /\ StatusDefaults /\ NoAsmStart /\ PulseDefaults
    /\ UNCHANGED <<busy, wr_done_pending, assemble_mode, runVars, outVars>>

\* WAIT_LAST and WAIT_SPLIT: a write completion is taken for the previous
\* pair's while pipeline_wr_pending is up, otherwise for the file's last one.
NBWaitWrite ==
    /\ state \in {"WAIT_LAST", "WAIT_SPLIT"}
    /\ \/ /\ InnerFails
          /\ NoAsmStart /\ PendingDefault
          /\ UNCHANGED <<wr_done_pending, assemble_mode>>
       \/ /\ ~inner_error
          /\ ~(wr_done \/ wr_done_pending)
          /\ StatusDefaults /\ NoAsmStart /\ PendingDefault
          /\ UNCHANGED <<state, busy, wr_done_pending, assemble_mode>>
       \/ /\ ~inner_error
          /\ wr_done \/ wr_done_pending
          /\ wr_done_pending' = FALSE
          /\ pipeline_wr_pending' = FALSE
          /\ assemble_mode' = (assemble_mode \/ ~pipeline_wr_pending)
          /\ asm_start' = ~pipeline_wr_pending
          /\ state' = IF pipeline_wr_pending THEN state
                      ELSE IF state = "WAIT_LAST" THEN "ASSEMBLE" ELSE "SPLIT_ASM"
          /\ StatusDefaults
          /\ UNCHANGED busy
    /\ PulseDefaults /\ NoPrefetch
    /\ UNCHANGED <<pipeline_restart, active_block_index, fileVars, runVars, outVars, descVars>>

NBPipeRestart ==
    /\ state = "PIPE_RESTART"
    /\ state' = "WAIT"
    /\ inner_cmd' = "front_clear"
    /\ front_start_pending' = TRUE
    /\ pipeline_restart' = FALSE
    /\ StatusDefaults /\ NoAsmStart /\ PendingDefault /\ NoPrefetch
    /\ UNCHANGED <<busy, wr_done_pending, assemble_mode, active_block_index,
                   fileVars, runVars, outVars, descVars>>

\* ASSEMBLE and SPLIT_ASM: record the file, then finish or go on with the next.
NBAssemble ==
    /\ state \in {"ASSEMBLE", "SPLIT_ASM"}
    /\ \/ /\ asm \notin {"DONE", "ERROR"}
          /\ StatusDefaults
          /\ UNCHANGED <<state, busy, assemble_mode, outVars>>
       \/ /\ asm = "ERROR"
          /\ busy' = FALSE
          /\ error' = TRUE
          /\ done' = FALSE
          /\ assemble_mode' = FALSE
          /\ state' = "IDLE"
          /\ UNCHANGED outVars
       \/ /\ asm = "DONE"
          /\ sstable_sizes' = Append(sstable_sizes, running_offset + TailBeats)
          /\ files' = Append(files, [base |-> sst_base_offset, meta |-> SubSeq(meta, 1, blocks_in_sst)])
          /\ assemble_mode' = FALSE
          /\ error' = FALSE
          /\ IF state = "ASSEMBLE"
             THEN /\ busy' = FALSE
                  /\ done' = TRUE
                  /\ state' = "IDLE"
                  /\ UNCHANGED sst_base_offset
             ELSE /\ done' = FALSE
                  /\ state' = "SPLIT_RESET"
                  /\ sst_base_offset' = sst_base_offset + running_offset + TailBeats
                  /\ UNCHANGED busy
    /\ NoAsmStart /\ PulseDefaults /\ PendingDefault /\ NoPrefetch
    /\ UNCHANGED <<pipeline_restart, wr_done_pending, active_block_index, fileVars,
                   runVars, descVars>>

NBSplitReset ==
    /\ state = "SPLIT_RESET"
    /\ state' = "POP"
    /\ running_offset' = 0
    /\ blocks_in_sst' = 0
    /\ active_block_index' = active_block_index + 1
    /\ StatusDefaults /\ NoAsmStart /\ PulseDefaults /\ PendingDefault /\ NoPrefetch
    /\ UNCHANGED <<busy, meta, pipeline_restart, wr_done_pending, assemble_mode,
                   runVars, outVars, descVars>>

NBClock(cmd, in) ==
    \/ cmd = "clear" /\ NBClear
    \/ /\ cmd /= "clear"
       /\ \/ NBIdle(cmd)
          \/ NBPop(in)
          \/ NBClearState
          \/ NBStart
          \/ NBWaitError(in)
          \/ NBWaitOn(in)
          \/ NBEncodedLast(in)
          \/ NBEncodedMore(in)
          \/ NBWaitWrite
          \/ NBPipeRestart
          \/ NBAssemble
          \/ NBSplitReset

-----------------------------------------------------------------------------

\* The write engine is working on a block of the current run.
OwnWrite == \E a \in DOMAIN mem : a = cur_addr + burst_index - 1 /\ mem[a] /= Old

RecordFailure(cmd, axi) ==
    write_failed' = IF StartAccepted(cmd) THEN FALSE
                    ELSE \/ write_failed
                         \/ /\ ~InnerClear /\ wr_state = "B" /\ ~assemble_mode
                            /\ axi = "fault"
                            /\ OwnWrite

(* cmd: pulse from cmpct_engine; inDesc: the matcher offers a descriptor;  *)
(* inEnc: the chain produces 64 more bytes, stalls or fails; inPipe: a     *)
(* beat reaches the pack adapter's register; axi: the memory's answer.     *)
Command == {"none", "start", "clear"}
Input == {"go", "wait", "fault"}

Tick(cmd, inDesc, inEnc, inPipe, axi) ==
    /\ NBClock(cmd, inDesc)
    /\ EncoderClock(inEnc)
    /\ PipeClock(inEnc, inPipe, axi)
    /\ StartClock
    /\ WriterClock(axi)
    /\ AsmClock(axi)
    /\ MemClock(cmd, axi)
    /\ RecordFailure(cmd, axi)

Init ==
    /\ pairs \in Pairs /\ taken = 0
    /\ state = "IDLE" /\ busy = FALSE /\ done = FALSE /\ error = FALSE
    /\ current = 0 /\ desc_is_last = FALSE
    /\ next_desc = 0 /\ desc_prefetched = FALSE
    /\ active_block_index = 0 /\ blocks_in_sst = 0
    /\ running_offset = 0 /\ sst_base_offset = 0
    /\ split_threshold \in SplitThresholds /\ sstable_sizes = <<>>
    /\ pipeline_wr_pending = FALSE /\ pipeline_restart = FALSE
    /\ wr_done_pending = FALSE /\ front_start_pending = FALSE
    /\ assemble_mode = FALSE /\ asm_start = FALSE
    /\ inner_cmd = "none"
    /\ meta = <<>>
    /\ enc = "IDLE" /\ enc_left = 0 /\ enc_size = 0
    /\ enc_done = FALSE /\ front_error = FALSE /\ enc_of = <<0, 0>>
    /\ pipe = <<>> /\ write_beat = <<>>
    /\ wr_start = FALSE /\ wr_started = FALSE /\ write_beat_tvalid_d = FALSE
    /\ wr_state = "IDLE" /\ cur_addr = 0 /\ burst_index = 0
    /\ stream_last_seen = FALSE /\ wr_done = FALSE /\ wr_error = FALSE
    /\ asm = "IDLE"
    /\ mem = [a \in 0..MemBeats - 1 |-> Old]
    /\ files = <<>> /\ write_failed = FALSE /\ runs = 0

\* An input that nothing samples in this cycle has one value.
InputFor(sampled, values) == IF sampled THEN values ELSE {"go"}
AxiSampled == asm = "RUN" \/ (wr_state /= "IDLE" /\ ~assemble_mode)

Next ==
    \E cmd \in Command,
       inDesc \in InputFor(taken < pairs /\ desc_ready, {"go", "wait"}),
       inEnc \in InputFor(inner_cmd = "none" /\ enc = "RUN", Input),
       inPipe \in InputFor(write_beat = <<>> /\ pipe /= <<>>, {"go", "wait"}),
       axi \in InputFor(AxiSampled, Input) :
        Tick(cmd, inDesc, inEnc, inPipe, axi)

Spec == Init /\ [][Next]_vars

\* Descriptors come, the chain produces and the memory answers.
ServedTick == Tick("none", "go", "go", "go", "go")

FairSpec == Spec /\ WF_vars(ServedTick)

-----------------------------------------------------------------------------
(* Properties.                                                             *)

TypeOK ==
    /\ state \in {"IDLE", "POP", "CLEAR", "START", "WAIT", "WAIT_LAST", "WAIT_SPLIT",
                  "PIPE_RESTART", "ASSEMBLE", "SPLIT_ASM", "SPLIT_RESET"}
    /\ inner_cmd \in {"none", "clear", "start", "front_clear", "front_start"}
    /\ wr_state \in {"IDLE", "AW", "W", "B"}
    /\ taken \in 0..pairs
    /\ state \notin {"IDLE", "POP"} => current \in 1..taken
    /\ running_offset \in 0..MemBeats /\ sst_base_offset \in 0..MemBeats
    /\ Len(pipe) <= PipeBeats /\ Len(write_beat) <= 1
    /\ blocks_in_sst \in 0..MaxBlockPairs
    /\ enc_left \in 0..enc_size

\* Block m of the file at base is in memory, beat for beat, where the index
\* entry the assembler builds from m says it is.
BlockInPlace(base, m) ==
    \A j \in 1..m.beats : mem[base + m.offset + j - 1] = <<m.blk, j>>

\* When the assembler is started, every block the index will describe has
\* been written completely and at the offset recorded for it.
AssembledAfterWritten ==
    asm_start => \A i \in 1..blocks_in_sst : BlockInPlace(sst_base_offset, meta[i])

\* STATUS.md:176 on the fix for enc_done and wr_done in the same cycle, and
\* cmpct_nblock_engine.v:740: "last pair - wait for wr_done before assembling".
\* The write engine and the output pipe are empty when the assembler starts.
AssembledAfterLastWrite ==
    asm_start => pipe = <<>> /\ write_beat = <<>> /\ wr_state = "IDLE"

\* A finished file stays intact: no later block, file tail or straggling
\* write of the same run lands on it.
FilesIntact ==
    \A f \in 1..Len(files) : \A i \in 1..Len(files[f].meta) :
        BlockInPlace(files[f].base, files[f].meta[i])

\* The files of a successful run hold every descriptor pair exactly once, in
\* the order of the stream, whatever was prefetched when.
EveryPairOnce ==
    done =>
      /\ files[1].meta[1].blk = 1
      /\ files[Len(files)].meta[Len(files[Len(files)].meta)].blk = pairs
      /\ \A f \in 1..Len(files) :
           /\ \A i \in 2..Len(files[f].meta) :
                files[f].meta[i].blk = files[f].meta[i - 1].blk + 1
           /\ f > 1 => files[f].meta[1].blk = files[f - 1].meta[Len(files[f - 1].meta)].blk + 1

\* A run whose data could not all be written is not reported as done.
WriteErrorReported == done => ~write_failed

\* A started run ends in done or error.
RunEnds == busy ~> ~busy
=============================================================================
