------------------------- MODULE NBlockEngineProofs -------------------------
(***************************************************************************)
(* Theorems about NBlockEngine, for every number of pairs, block size,     *)
(* burst length, split threshold and run.  That every pair is in the       *)
(* output once needs no assumption; what lies where in memory needs two    *)
(* about the constants: the output fits into the destination buffer, and   *)
(* every block is longer than the output pipe (nblock_done_race.cfg shows  *)
(* what happens to shorter ones).                                          *)
(***************************************************************************)
EXTENDS NBlockEngine, TLAPS, SequenceTheorems

\* A size that bounds every block and lets each pair have a file of its own.
IsBound(b) ==
    /\ b \in Nat
    /\ \A x \in BlockBeats : x <= b
    /\ \A p \in Pairs : p * (b + TailBeats) <= MemBeats

OutputFits == \E b \in Nat : IsBound(b)

LongBlocks == \A x \in BlockBeats : x > PipeBeats + 1

MaxBlock == CHOOSE b \in Nat : IsBound(b)
Slot == MaxBlock + TailBeats

-----------------------------------------------------------------------------
(* The FSM: which pairs are recorded in which file.                        *)

States == {"IDLE", "POP", "CLEAR", "START", "WAIT", "WAIT_LAST", "WAIT_SPLIT",
           "PIPE_RESTART", "ASSEMBLE", "SPLIT_ASM", "SPLIT_RESET"}
Commands == {"none", "clear", "start", "front_clear", "front_start"}
Block == [blk : Nat, offset : Nat, beats : Nat]
File == [base : Nat, meta : Seq(Block)]

FsmType ==
    /\ state \in States
    /\ inner_cmd \in Commands
    /\ pairs \in Pairs
    /\ taken \in Nat /\ current \in Nat /\ next_desc \in Nat /\ runs \in Nat
    /\ blocks_in_sst \in Nat /\ running_offset \in Nat /\ sst_base_offset \in Nat
    /\ meta \in Seq(Block) /\ blocks_in_sst <= Len(meta)
    /\ files \in Seq(File)

\* The last pair of file f.
EndOf(f) == files[f].meta[Len(files[f].meta)].blk

\* The first pair of the file that is being built, and the pair to record next.
FirstPair == IF files = <<>> THEN 1 ELSE EndOf(Len(files)) + 1
NextPair == IF state = "SPLIT_RESET" THEN FirstPair ELSE FirstPair + blocks_in_sst

\* The finished files hold the pairs from 1 on, each once.
FilesChain ==
    \A f \in 1..Len(files) :
      /\ Len(files[f].meta) >= 1
      /\ \A i \in 2..Len(files[f].meta) :
           files[f].meta[i].blk = files[f].meta[i - 1].blk + 1
      /\ f = 1 => files[f].meta[1].blk = 1
      /\ f > 1 => files[f].meta[1].blk = EndOf(f - 1) + 1

\* So does the index of the current file.
MetaChain ==
    state \notin {"IDLE", "SPLIT_RESET"} =>
      \A i \in 1..blocks_in_sst : meta[i].blk = FirstPair + i - 1

\* The descriptor registers: n is the last pair they were loaded with.
Loaded(n) ==
    /\ taken = IF desc_prefetched THEN n + 1 ELSE n
    /\ desc_prefetched => next_desc = n + 1

InChain == {"CLEAR", "START", "WAIT", "PIPE_RESTART"}
Recorded == {"WAIT_LAST", "WAIT_SPLIT", "ASSEMBLE", "SPLIT_ASM"}

PairInv ==
    /\ FilesChain
    /\ MetaChain
    /\ taken <= pairs
    /\ state \in InChain =>
         Loaded(NextPair) /\ current = NextPair /\ (desc_is_last <=> current = pairs)
    /\ state \notin InChain \cup {"IDLE"} => Loaded(NextPair - 1)
    /\ state \in Recorded =>
         blocks_in_sst >= 1 /\ current = NextPair - 1 /\ (desc_is_last <=> current = pairs)
    /\ state \in {"WAIT_LAST", "ASSEMBLE"} => desc_is_last
    /\ state = "SPLIT_RESET" => files /= <<>>
    /\ done => state = "IDLE" /\ files /= <<>> /\ EndOf(Len(files)) = pairs

\* Between two files the registers still hold the last pair.
CurrentInv == state = "SPLIT_RESET" => current \in 1..taken

\* Beats up to the end of the current file.
Used == sst_base_offset + running_offset + (IF blocks_in_sst > 0 THEN TailBeats ELSE 0)

\* The index has room for the block in the chain, and the output for the run.
RoomInv ==
    /\ blocks_in_sst <= MaxBlockPairs
    /\ state \in {"CLEAR", "START", "POP", "WAIT", "PIPE_RESTART"} =>
         blocks_in_sst < MaxBlockPairs
    /\ sst_base_offset <= MemBeats /\ running_offset <= MemBeats
    /\ state \notin {"IDLE", "SPLIT_RESET"} => Used <= (NextPair - 1) * Slot
    /\ state = "SPLIT_RESET" => sst_base_offset <= (NextPair - 1) * Slot

\* Which pulses go with which state.
PulseInv ==
    /\ front_start_pending =>
         \/ state = "WAIT" /\ inner_cmd = "front_clear"
         \/ state = "IDLE" /\ inner_cmd = "none"
    /\ inner_cmd = "clear" <=> state = "START"
    /\ inner_cmd = "start" => state = "WAIT" /\ blocks_in_sst = 0
    /\ inner_cmd = "front_clear" => state = "WAIT" /\ front_start_pending
    /\ inner_cmd = "front_start" => state \in {"WAIT", "IDLE"}
    /\ state \in {"CLEAR", "START"} => blocks_in_sst = 0
    /\ state = "PIPE_RESTART" => blocks_in_sst > 0
    /\ state = "POP" => (pipeline_restart <=> blocks_in_sst > 0)
    /\ state \notin {"IDLE", "POP", "PIPE_RESTART"} => ~pipeline_restart
    /\ blocks_in_sst = 0 => running_offset = 0
    /\ asm_start => state \in {"ASSEMBLE", "SPLIT_ASM"}

-----------------------------------------------------------------------------
(* The data path.                                                          *)

BeatRec == [run : Nat, blk : Nat, idx : Int, last : BOOLEAN]

PathType ==
    /\ enc \in {"IDLE", "RUN"}
    /\ enc_size \in Nat /\ enc_left \in 0..enc_size
    /\ enc = "RUN" => enc_left >= 1 /\ enc_size \in BlockBeats
    /\ enc_of \in Nat \X Nat /\ enc_of[1] <= runs
    /\ pipe \in Seq(BeatRec) /\ Len(pipe) <= PipeBeats
    /\ write_beat \in Seq(BeatRec) /\ Len(write_beat) <= 1
    /\ wr_state \in {"IDLE", "AW", "W", "B"}
    /\ cur_addr \in Nat /\ burst_index \in Nat
    /\ asm \in {"IDLE", "RUN", "DONE", "ERROR"}
    /\ mem = [a \in 0..MemBeats - 1 |-> mem[a]]

\* The write engine is started once per block and works until its wr_done.
StartInv ==
    /\ wr_start => wr_started /\ wr_state = "IDLE" /\ ~wr_done /\ write_beat /= <<>>
    /\ wr_state /= "IDLE" => wr_started /\ ~wr_done
    /\ wr_state /= "IDLE" => cur_addr >= sst_base_offset

\* Nothing is in the chain, the pipe or the write engine.
Quiet ==
    /\ enc = "IDLE" /\ ~enc_done
    /\ pipe = <<>> /\ write_beat = <<>>
    /\ wr_state = "IDLE" /\ ~wr_start

\* ... and nothing starts there by itself.
Silent == Quiet /\ inner_cmd = "none" /\ ~front_start_pending

\* Between the start of a run and the clear of the chain the path may still
\* carry what the last run left.
Stale == state \in {"POP", "CLEAR", "START"} /\ blocks_in_sst = 0 /\ files = <<>>

StaleInv ==
    Stale =>
      /\ ~write_failed
      /\ enc_of[1] < runs
      /\ \A k \in 1..Len(pipe) : pipe[k].run < runs
      /\ \A k \in 1..Len(write_beat) : write_beat[k].run < runs
      /\ Quiet \/ \A a \in DOMAIN mem : mem[a] = Old

RunBeats ==
    /\ \A k \in 1..Len(pipe) : pipe[k].run <= runs
    /\ \A k \in 1..Len(write_beat) : write_beat[k].run <= runs

\* States in which blocks of the current file move.
Flowing ==
    \/ state \in {"WAIT", "WAIT_LAST", "WAIT_SPLIT", "PIPE_RESTART"}
    \/ state = "POP" /\ blocks_in_sst > 0

\* States whose blocks are in memory, and in which nothing moves.
Settled ==
    \/ state \in {"ASSEMBLE", "SPLIT_ASM", "SPLIT_RESET"}
    \/ state \in {"POP", "CLEAR", "START"} /\ blocks_in_sst = 0 /\ files /= <<>>

SettledInv ==
    /\ Settled => Quiet
    /\ asm = "RUN" \/ asm_start => Quiet /\ ~front_start_pending /\ inner_cmd \in {"none", "clear"}
    /\ asm_start \/ Flowing => asm = "IDLE"
    /\ state = "WAIT" /\ inner_cmd = "start" => Quiet
    /\ Flowing /\ state /= "WAIT" => ~front_error

\* No write of a block is awaited outside the flowing states.
NonePending == Settled \/ Stale => ~pipeline_wr_pending

-----------------------------------------------------------------------------
(* The blocks of the current file as one stream of beats.                  *)

\* Beats of the block in the chain that the encoder has handed over.
Emitted == IF state = "WAIT" /\ (enc = "RUN" \/ enc_done) THEN enc_size - enc_left ELSE 0

\* Beats of the file that the write engine has taken.
Taken == running_offset + Emitted - Len(pipe) - Len(write_beat)

LastOffset == IF blocks_in_sst = 0 THEN 0 ELSE meta[blocks_in_sst].offset

\* Beat i of n of a block.
BeatOf(run, blk, i, n) == [run |-> run, blk |-> blk, idx |-> i, last |-> (i = n)]

\* Beat a of the file: of the block recorded last, or of the one in the chain.
Stream ==
    [a \in Nat |->
       IF a < running_offset
       THEN BeatOf(runs, meta[blocks_in_sst].blk, a - LastOffset + 1, meta[blocks_in_sst].beats)
       ELSE BeatOf(runs, current, a - running_offset + 1, enc_size)]

\* The output pipe holds the stream from beat t on.
Carries(s, t, p, w) ==
    /\ \A k \in 1..Len(w) : w[k] = s[t]
    /\ \A k \in 1..Len(p) : p[k] = s[t + Len(w) + k - 1]

\* The beats of the stream from lo to t - 1 lie in memory.
Stored(s, m, base, lo, t) ==
    \A a \in lo..t - 1 : m[base + a] = <<s[a].blk, s[a].idx>>

\* The write engine is about to write beat t of the file; r is where the
\* blocks recorded so far end.
Writing(t, r, base) ==
    /\ wr_state = "IDLE" => t = r
    /\ wr_state = "AW" => cur_addr = base + t /\ ~stream_last_seen
    /\ wr_state = "W" => /\ cur_addr + burst_index = base + t
                         /\ ~stream_last_seen /\ burst_index < BurstBeats
    /\ wr_state = "B" /\ stream_last_seen => t = r
    /\ wr_state = "B" /\ ~stream_last_seen => cur_addr + BurstBeats = base + t

\* The encoder works on the pair in the FSM's registers, from the start pulse
\* until enc_done; the block's last beat is then still in the pipe.
ChainOK ==
    /\ state = "WAIT" /\ inner_cmd = "none" => enc = "RUN" \/ enc_done
    /\ state = "WAIT" /\ inner_cmd /= "none" => enc = "IDLE" /\ ~enc_done
    /\ state /= "WAIT" => enc = "IDLE" /\ ~enc_done /\ inner_cmd = "none"
    /\ enc = "RUN" => enc_of = <<runs, current>>
    /\ enc_done => pipe /= <<>> /\ enc = "IDLE" /\ enc_left = 0 /\ enc_size \in BlockBeats

\* The write engine is behind the block recorded before the last one; what it
\* has taken is in memory, the rest is in the pipe.
StreamOK ==
    /\ Taken \in Nat
    /\ blocks_in_sst > 0 => Taken > LastOffset
    /\ Carries(Stream, Taken, pipe, write_beat)
    /\ Stored(Stream, mem, sst_base_offset, LastOffset, Taken)
    /\ Writing(Taken, running_offset, sst_base_offset)

\* pipeline_wr_pending is up only while the last recorded block is written.
PendingOK ==
    /\ state \in {"WAIT_LAST", "WAIT_SPLIT"} => ~pipeline_wr_pending /\ ~wr_done_pending
    /\ pipeline_wr_pending =>
         \/ Taken < running_offset
         \/ wr_state = "B" /\ stream_last_seen
         \/ wr_state = "IDLE" /\ wr_done

FlowInv == Flowing /\ ~front_error => ChainOK /\ StreamOK /\ PendingOK

\* The blocks recorded lie one behind the other; all but the last are in memory.
MetaInv ==
    state \notin {"IDLE", "SPLIT_RESET"} =>
      /\ blocks_in_sst > 0 =>
           meta[blocks_in_sst].offset + meta[blocks_in_sst].beats = running_offset
      /\ \A i \in 1..blocks_in_sst - 1 :
           /\ meta[i].offset + meta[i].beats <= LastOffset
           /\ BlockInPlace(sst_base_offset, meta[i])
      /\ state \in {"ASSEMBLE", "SPLIT_ASM"} =>
           BlockInPlace(sst_base_offset, meta[blocks_in_sst])

FilesInv ==
    /\ FilesIntact
    /\ \/ state = "IDLE" /\ Silent /\ asm /= "RUN" /\ ~asm_start
       \/ \A f \in 1..Len(files) : \A i \in 1..Len(files[f].meta) :
             files[f].base + files[f].meta[i].offset + files[f].meta[i].beats
               <= sst_base_offset

FailInv ==
    /\ ~Stale /\ state /= "IDLE" /\ write_failed => wr_error /\ Flowing
    /\ done => ~write_failed

IInv ==
    /\ FsmType /\ PairInv /\ RoomInv /\ PulseInv
    /\ PathType /\ StartInv /\ StaleInv /\ SettledInv /\ RunBeats
    /\ NonePending /\ CurrentInv
    /\ FlowInv /\ MetaInv /\ FilesInv /\ FailInv

-----------------------------------------------------------------------------
(* Types of the FSM's registers.                                           *)

LEMMA SubSeqOfBlocks ==
    ASSUME NEW m \in Seq(Block), NEW n \in Nat, n <= Len(m)
    PROVE  /\ SubSeq(m, 1, n) \in Seq(Block)
           /\ Len(SubSeq(m, 1, n)) = n
           /\ \A i \in 1..n : SubSeq(m, 1, n)[i] = m[i]
OBVIOUS

\* What RecordBlock leaves in the metadata memory.
LEMMA RecordEffect ==
    ASSUME FsmType, enc_size \in Nat, RecordBlock
    PROVE  /\ meta' \in Seq(Block)
           /\ Len(meta') = blocks_in_sst + 1
           /\ \A i \in 1..blocks_in_sst : meta'[i] = meta[i]
           /\ meta'[blocks_in_sst + 1] = [blk |-> current, offset |-> running_offset, beats |-> enc_size]
           /\ running_offset' = running_offset + enc_size
           /\ blocks_in_sst' = blocks_in_sst + 1
<1> DEFINE b == [blk |-> current, offset |-> running_offset, beats |-> enc_size]
           m == SubSeq(meta, 1, blocks_in_sst)
<1>1. b \in Block
  BY DEF FsmType, Block
<1>2. /\ m \in Seq(Block) /\ Len(m) = blocks_in_sst
      /\ \A i \in 1..blocks_in_sst : m[i] = meta[i]
  BY SubSeqOfBlocks DEF FsmType
<1>3. meta' = Append(m, b)
  BY DEF RecordBlock
<1>4. blocks_in_sst \in Nat
  BY DEF FsmType
<1> HIDE DEF b, m
<1>5. /\ meta' \in Seq(Block) /\ Len(meta') = blocks_in_sst + 1
      /\ \A i \in 1..blocks_in_sst : meta'[i] = m[i]
      /\ meta'[blocks_in_sst + 1] = b
  BY <1>1, <1>2, <1>3, <1>4
<1> QED BY <1>2, <1>5 DEF RecordBlock, b

LEMMA FsmTypeStep ==
    ASSUME FsmType, enc_size \in Nat,
           NEW cmd, NEW in, NBClock(cmd, in)
    PROVE  FsmType'
<1> USE NBlockAssumption DEF FsmType, States, Commands, StatusDefaults, NoAsmStart,
        PulseDefaults, PendingDefault, NoPrefetch, fileVars, runVars, outVars, descVars
<1>1. CASE cmd = "clear" /\ NBClear
  BY <1>1 DEF NBClear
<1>2. CASE NBIdle(cmd)
  <2>1. CASE cmd = "start" /\ ~busy
    <3>1. <<>> \in Seq(Block) /\ <<>> \in Seq(File) /\ Len(<<>>) = 0
      OBVIOUS
    <3>2. meta' = <<>> /\ files' = <<>> /\ blocks_in_sst' = 0
      BY <1>2, <2>1 DEF NBIdle
    <3>3. meta' \in Seq(Block) /\ files' \in Seq(File) /\ blocks_in_sst' <= Len(meta')
      BY <3>1, <3>2
    <3>4. /\ pairs' \in Pairs /\ runs' = runs + 1 /\ taken' = 0 /\ state' = "POP"
          /\ running_offset' = 0 /\ sst_base_offset' = 0 /\ inner_cmd' = "none"
          /\ current' = current /\ next_desc' = next_desc
      BY <1>2, <2>1 DEF NBIdle
    <3> QED BY <3>2, <3>3, <3>4
  <2>2. CASE ~(cmd = "start" /\ ~busy)
    BY <1>2, <2>2 DEF NBIdle
  <2> QED BY <2>1, <2>2
<1>3. CASE NBPop(in)
  BY <1>3 DEF NBPop
<1>4. CASE NBClearState \/ NBStart \/ NBPipeRestart \/ NBSplitReset
  <2>1. CASE NBClearState \/ NBStart
    BY <2>1 DEF NBClearState, NBStart
  <2>2. CASE NBPipeRestart
    BY <2>2 DEF NBPipeRestart
  <2>3. CASE NBSplitReset
    BY <2>3 DEF NBSplitReset
  <2> QED BY <1>4, <2>1, <2>2, <2>3
<1>5. CASE NBWaitError(in) \/ NBWaitOn(in)
  BY <1>5 DEF NBWaitError, NBWaitOn, Prefetch, InnerFails
<1>6. CASE NBEncodedLast(in)
  <2>1. RecordBlock
    BY <1>6 DEF NBEncodedLast
  <2>2. meta' \in Seq(Block) /\ Len(meta') = blocks_in_sst + 1
        /\ running_offset' = running_offset + enc_size /\ blocks_in_sst' = blocks_in_sst + 1
    BY <2>1, RecordEffect
  <2> QED BY <1>6, <2>2 DEF NBEncodedLast, Prefetch
<1>7. CASE NBEncodedMore(in)
  <2>1. RecordBlock
    BY <1>7 DEF NBEncodedMore
  <2>2. meta' \in Seq(Block) /\ Len(meta') = blocks_in_sst + 1
        /\ running_offset' = running_offset + enc_size /\ blocks_in_sst' = blocks_in_sst + 1
    BY <2>1, RecordEffect
  <2> QED BY <1>7, <2>2 DEF NBEncodedMore, Prefetch
<1>8. CASE NBWaitWrite
  BY <1>8 DEF NBWaitWrite, InnerFails
<1>9. CASE NBAssemble
  <2>1. SubSeq(meta, 1, blocks_in_sst) \in Seq(Block)
    BY SubSeqOfBlocks
  <2> DEFINE b == [base |-> sst_base_offset, meta |-> SubSeq(meta, 1, blocks_in_sst)]
  <2>2. b \in File
    BY <2>1 DEF File
  <2>3. files' = files \/ files' = Append(files, b)
    BY <1>9 DEF NBAssemble
  <2> HIDE DEF b
  <2>4. files' \in Seq(File)
    BY <2>2, <2>3, AppendProperties
  <2> QED BY <1>9, <2>4 DEF NBAssemble
<1> QED BY <1>1, <1>2, <1>3, <1>4, <1>5, <1>6, <1>7, <1>8, <1>9 DEF NBClock

-----------------------------------------------------------------------------
(* Pulses.                                                                 *)

LEMMA PulseStep ==
    ASSUME FsmType, PulseInv, NEW cmd, NEW in, NBClock(cmd, in),
           state = "WAIT" /\ enc_done /\ ~inner_error => inner_cmd = "none"
    PROVE  PulseInv'
<1> USE DEF StatusDefaults, NoAsmStart, PulseDefaults, PendingDefault, NoPrefetch,
        fileVars, runVars, outVars, descVars
<1>0. blocks_in_sst \in Nat
  BY DEF FsmType
<1>1. CASE cmd = "clear" /\ NBClear
  <2>1. ~asm_start'
    BY <1>1, Zenon DEF NBClear
  <2> QED BY <1>0, <1>1, <2>1 DEF NBClear, PulseInv
<1>2. CASE NBIdle(cmd)
  <2>1. ~asm_start' /\ ~front_start_pending'
    BY <1>2, Zenon DEF NBIdle
  <2>2. CASE cmd = "start" /\ ~busy
    <3>1. ~pipeline_restart'
      BY <1>2, <2>2, Zenon DEF NBIdle
    <3> QED BY <1>2, <2>1, <2>2, <3>1 DEF NBIdle, PulseInv
  <2>3. CASE ~(cmd = "start" /\ ~busy)
    BY <1>2, <2>1, <2>3 DEF NBIdle, PulseInv
  <2> QED BY <2>2, <2>3
<1>3. CASE NBPop(in)
  <2>1. ~asm_start' /\ ~front_start_pending'
    BY <1>3, Zenon DEF NBPop
  <2> QED BY <1>0, <1>3, <2>1 DEF NBPop, PulseInv
<1>4. CASE NBClearState \/ NBStart
  <2>1. ~asm_start' /\ ~front_start_pending'
    BY <1>4, Zenon DEF NBClearState, NBStart
  <2> QED BY <1>0, <1>4, <2>1 DEF NBClearState, NBStart, PulseInv
<1>5. CASE NBPipeRestart
  <2>1. ~asm_start' /\ front_start_pending' /\ ~pipeline_restart'
    BY <1>5, Zenon DEF NBPipeRestart
  <2> QED BY <1>0, <1>5, <2>1 DEF NBPipeRestart, PulseInv
<1>6. CASE NBSplitReset \/ NBAssemble
  <2>1. ~asm_start' /\ ~front_start_pending'
    BY <1>6, Zenon DEF NBSplitReset, NBAssemble
  <2> QED BY <1>0, <1>6, <2>1 DEF NBSplitReset, NBAssemble, PulseInv
<1>7. CASE NBWaitError(in) \/ NBWaitOn(in)
  <2>1. ~asm_start' /\ ~front_start_pending'
    BY <1>7, Zenon DEF NBWaitError, NBWaitOn
  <2> QED BY <1>0, <1>7, <2>1 DEF NBWaitError, NBWaitOn, InnerFails, PulseInv
<1>8. CASE NBEncodedLast(in) \/ NBEncodedMore(in)
  <2>1. ~asm_start' /\ ~front_start_pending'
    BY <1>8, Zenon DEF NBEncodedLast, NBEncodedMore
  <2>2. RecordBlock
    BY <1>8 DEF NBEncodedLast, NBEncodedMore
  <2>3. blocks_in_sst' = blocks_in_sst + 1
    BY <2>2 DEF RecordBlock
  <2>a. ~front_start_pending
    BY <1>8 DEF NBEncodedLast, NBEncodedMore, PulseInv
  <2>4. CASE NBEncodedLast(in)
    <3>1. state = "WAIT" /\ pipeline_restart' = pipeline_restart
          /\ inner_cmd' \in {"none", "front_start"}
          /\ (inner_cmd' = "front_start" => front_start_pending)
          /\ state' \in {"WAIT_LAST", "WAIT_SPLIT"}
      BY <2>4 DEF NBEncodedLast
    <3> QED BY <1>0, <2>1, <2>3, <2>a, <3>1 DEF PulseInv
  <2>5. CASE NBEncodedMore(in)
    <3>1. pipeline_restart'
      BY <2>5, Zenon DEF NBEncodedMore
    <3>2. state = "WAIT" /\ state' \in {"POP", "PIPE_RESTART"}
          /\ inner_cmd' \in {"none", "front_start"}
          /\ (inner_cmd' = "front_start" => front_start_pending)
      BY <2>5 DEF NBEncodedMore
    <3> QED BY <1>0, <2>1, <2>3, <2>a, <3>1, <3>2 DEF PulseInv
  <2> QED BY <1>8, <2>4, <2>5
<1>9. CASE NBWaitWrite
  <2>1. ~front_start_pending'
    BY <1>9, Zenon DEF NBWaitWrite
  <2>2. asm_start' => state' \in {"ASSEMBLE", "SPLIT_ASM"}
    BY <1>9, Zenon DEF NBWaitWrite, InnerFails
  <2>3. state' \in {"IDLE", "WAIT_LAST", "WAIT_SPLIT", "ASSEMBLE", "SPLIT_ASM"}
    BY <1>9 DEF NBWaitWrite, InnerFails
  <2> QED BY <1>0, <1>9, <2>1, <2>2, <2>3 DEF NBWaitWrite, PulseInv
<1> QED BY <1>1, <1>2, <1>3, <1>4, <1>5, <1>6, <1>7, <1>8, <1>9 DEF NBClock

-----------------------------------------------------------------------------
(* Pairs.                                                                  *)

LEMMA FirstPairNat ==
    ASSUME FsmType, FilesChain
    PROVE  FirstPair \in Nat \ {0}
<1>1. CASE files = <<>>
  BY <1>1 DEF FirstPair
<1>2. CASE files /= <<>>
  <2>1. Len(files) \in 1..Len(files) /\ files[Len(files)] \in File
    BY <1>2 DEF FsmType
  <2> DEFINE m == files[Len(files)].meta
  <2>2. m \in Seq(Block) /\ Len(m) >= 1
    BY <2>1 DEF File, FilesChain
  <2> HIDE DEF m
  <2>3. m[Len(m)] \in Block
    BY <2>2
  <2>4. m[Len(m)].blk \in Nat
    BY <2>3 DEF Block
  <2> QED BY <1>2, <2>4 DEF FirstPair, EndOf, m
<1> QED BY <1>1, <1>2

\* The chain continues in a file made of the current index.
LEMMA FileAppended ==
    ASSUME FsmType, FilesChain, MetaChain, state \notin {"IDLE", "SPLIT_RESET"},
           blocks_in_sst >= 1,
           files' = Append(files, [base |-> sst_base_offset,
                                   meta |-> SubSeq(meta, 1, blocks_in_sst)])
    PROVE  /\ FilesChain'
           /\ files' /= <<>>
           /\ EndOf(Len(files))' = FirstPair + blocks_in_sst - 1
           /\ FirstPair' = FirstPair + blocks_in_sst
<1> DEFINE m == SubSeq(meta, 1, blocks_in_sst)
           b == [base |-> sst_base_offset, meta |-> m]
           n == Len(files)
<1>1. blocks_in_sst \in Nat /\ FirstPair \in Nat
  BY FirstPairNat DEF FsmType
<1>2. /\ m \in Seq(Block) /\ Len(m) = blocks_in_sst
      /\ \A i \in 1..blocks_in_sst : m[i] = meta[i]
  BY SubSeqOfBlocks DEF FsmType
<1>3. \A i \in 1..blocks_in_sst : m[i].blk = FirstPair + i - 1
  BY <1>2 DEF MetaChain
<1>4. b \in File /\ b.meta = m
  BY <1>2 DEF File, FsmType
<1> HIDE DEF m, b
<1>5. files \in Seq(File) /\ n \in Nat
  BY DEF FsmType
<1>6. /\ files' = Append(files, b)
      /\ Len(files') = n + 1
      /\ \A f \in 1..n : files'[f] = files[f]
      /\ files'[n + 1] = b
  BY <1>4, <1>5, AppendProperties DEF m, b
<1>7. EndOf(Len(files))' = FirstPair + blocks_in_sst - 1
  <2>1. files'[Len(files')].meta = m
    BY <1>4, <1>6
  <2>2. m[Len(m)].blk = FirstPair + blocks_in_sst - 1
    BY <1>1, <1>2, <1>3
  <2> QED BY <2>1, <2>2 DEF EndOf
<1>8. files' /= <<>>
  BY <1>5, <1>6
<1>9. FirstPair' = FirstPair + blocks_in_sst
  BY <1>1, <1>7, <1>8 DEF FirstPair
<1>10. n >= 1 => FirstPair = EndOf(n) + 1
  BY <1>5 DEF FirstPair
<1>11. n = 0 => FirstPair = 1
  BY <1>5 DEF FirstPair
<1>12. ASSUME NEW f \in 1..n + 1
       PROVE  /\ Len(files'[f].meta) >= 1
              /\ \A i \in 2..Len(files'[f].meta) :
                   files'[f].meta[i].blk = files'[f].meta[i - 1].blk + 1
              /\ f = 1 => files'[f].meta[1].blk = 1
              /\ f > 1 => files'[f].meta[1].blk = files'[f - 1].meta[Len(files'[f - 1].meta)].blk + 1
  <2>1. CASE f \in 1..n
    <3>1. files'[f] = files[f] /\ (f > 1 => files'[f - 1] = files[f - 1])
      BY <1>5, <1>6, <2>1
    <3> QED BY <2>1, <3>1 DEF FilesChain, EndOf
  <2>2. CASE f = n + 1
    <3>1. files'[f].meta = m
      BY <1>4, <1>6, <2>2
    <3>2. \A i \in 2..blocks_in_sst : m[i].blk = m[i - 1].blk + 1
      <4> SUFFICES ASSUME NEW i \in 2..blocks_in_sst PROVE m[i].blk = m[i - 1].blk + 1
        OBVIOUS
      <4>1. i \in 1..blocks_in_sst /\ i - 1 \in 1..blocks_in_sst
        BY <1>1
      <4>2. m[i].blk = FirstPair + i - 1 /\ m[i - 1].blk = FirstPair + (i - 1) - 1
        BY <1>3, <4>1
      <4> QED BY <1>1, <4>2
    <3>3. m[1].blk = FirstPair
      BY <1>1, <1>3
    <3>4. f = 1 => n = 0
      BY <1>5, <2>2
    <3>5. f > 1 => n >= 1 /\ f - 1 = n /\ files'[f - 1] = files[n]
      BY <1>5, <1>6, <2>2
    <3>6. f = 1 => m[1].blk = 1
      BY <1>11, <3>3, <3>4
    <3>7. f > 1 => m[1].blk = files'[f - 1].meta[Len(files'[f - 1].meta)].blk + 1
      BY <1>10, <3>3, <3>5 DEF EndOf
    <3> QED BY <1>2, <3>1, <3>2, <3>6, <3>7
  <2>3. f \in 1..n \/ f = n + 1
    BY <1>5
  <2> QED BY <2>1, <2>2, <2>3, Zenon
<1>13. FilesChain'
  BY <1>6, <1>12 DEF FilesChain, EndOf
<1> QED BY <1>7, <1>8, <1>9, <1>13

LEMMA PairStep ==
    ASSUME FsmType, FsmType', PairInv, NEW cmd, NEW in, NBClock(cmd, in),
           enc_size \in Nat
    PROVE  PairInv'
<1> USE DEF StatusDefaults, NoPrefetch, fileVars, runVars, outVars, descVars
<1>0. /\ blocks_in_sst \in Nat /\ taken \in Nat /\ current \in Nat /\ next_desc \in Nat
      /\ pairs \in Nat /\ FirstPair \in Nat /\ FirstPair > 0 /\ NextPair \in Nat
  <2>1. /\ blocks_in_sst \in Nat /\ taken \in Nat /\ current \in Nat /\ next_desc \in Nat
        /\ pairs \in Nat
    BY NBlockAssumption DEF FsmType
  <2>2. FirstPair \in Nat /\ FirstPair > 0
    <3>1. FilesChain
      BY DEF PairInv
    <3>2. FirstPair \in Nat \ {0}
      BY ONLY FsmType, <3>1, FirstPairNat
    <3> QED BY ONLY <3>2
  <2>3. NextPair \in Nat
    BY ONLY <2>1, <2>2 DEF NextPair
  <2> QED BY ONLY <2>1, <2>2, <2>3
<1>00. FilesChain /\ MetaChain /\ taken <= pairs
  BY DEF PairInv
<1>a. ASSUME files' = files
      PROVE  FilesChain' /\ FirstPair' = FirstPair /\ EndOf(Len(files))' = EndOf(Len(files))
  BY <1>00, <1>a DEF FilesChain, FirstPair, EndOf
<1>b. ASSUME files' = <<>>
      PROVE  FilesChain' /\ FirstPair' = 1
  BY <1>b DEF FilesChain, FirstPair
<1>c. ASSUME files' = files, meta' = meta, blocks_in_sst' = blocks_in_sst,
             state \notin {"IDLE", "SPLIT_RESET"}
      PROVE  MetaChain'
  <2>1. FirstPair' = FirstPair
    BY <1>a, <1>c
  <2>2. \A i \in 1..blocks_in_sst : meta[i].blk = FirstPair + i - 1
    BY <1>00, <1>c DEF MetaChain
  <2> QED BY <1>c, <2>1, <2>2 DEF MetaChain
<1>1. CASE cmd = "clear" /\ NBClear
  <2>1. ~done' /\ state' = "IDLE" /\ files' = <<>> /\ taken' = taken /\ pairs' = pairs
    BY <1>1, Zenon DEF NBClear
  <2> QED BY <1>b, <1>00, <2>1 DEF PairInv, MetaChain, InChain, Recorded
<1>2. CASE NBIdle(cmd)
  <2>1. ~done'
    BY <1>2, Zenon DEF NBIdle
  <2>2. CASE cmd = "start" /\ ~busy
    <3>1. /\ state' = "POP" /\ files' = <<>> /\ taken' = 0 /\ pairs' \in Pairs
          /\ blocks_in_sst' = 0
      BY <1>2, <2>2 DEF NBIdle
    <3>2. ~desc_prefetched'
      BY <1>2, <2>2, Zenon DEF NBIdle
    <3>3. FilesChain' /\ NextPair' = 1
      BY <1>b, <3>1 DEF NextPair
    <3>4. Loaded(NextPair - 1)'
      BY <3>1, <3>2, <3>3 DEF Loaded
    <3>5. MetaChain'
      BY <3>1 DEF MetaChain
    <3> QED BY NBlockAssumption, <2>1, <3>1, <3>3, <3>4, <3>5 DEF PairInv, InChain, Recorded
  <2>3. CASE ~(cmd = "start" /\ ~busy)
    <3>1. state = "IDLE" /\ state' = "IDLE" /\ files' = files /\ taken' = taken /\ pairs' = pairs
      BY <1>2, <2>3 DEF NBIdle
    <3> QED BY <1>a, <1>00, <2>1, <3>1 DEF PairInv, MetaChain, InChain, Recorded
  <2> QED BY <2>2, <2>3
<1>3. CASE NBPop(in)
  <2>1. /\ state = "POP" /\ files' = files /\ meta' = meta /\ blocks_in_sst' = blocks_in_sst
        /\ pairs' = pairs /\ state' \in {"POP", "PIPE_RESTART", "CLEAR"}
    BY <1>3 DEF NBPop
  <2>2. ~done'
    BY <1>3, Zenon DEF NBPop
  <2>3. FilesChain' /\ MetaChain' /\ NextPair' = NextPair
    BY <1>a, <1>c, <2>1 DEF NextPair
  <2>4. Loaded(NextPair - 1)
    BY <2>1 DEF PairInv, InChain
  <2>5. CASE desc_prefetched
    <3>1. current' = next_desc /\ taken' = taken /\ next_desc' = next_desc
          /\ state' \in {"PIPE_RESTART", "CLEAR"}
      BY <1>3, <2>5 DEF NBPop, DescHandshake, desc_ready
    <3>2. ~desc_prefetched' /\ (desc_is_last' <=> next_desc = pairs)
      BY <1>3, <2>1, <2>5, Zenon DEF NBPop, DescHandshake, desc_ready
    <3>3. taken = NextPair /\ next_desc = NextPair
      BY <1>0, <2>4, <2>5 DEF Loaded
    <3>4. Loaded(NextPair)'
      BY <2>3, <3>1, <3>2, <3>3 DEF Loaded
    <3> QED BY <1>00, <2>1, <2>2, <2>3, <3>1, <3>2, <3>3, <3>4 DEF PairInv, InChain, Recorded
  <2>6. CASE ~desc_prefetched /\ DescHandshake(in)
    <3>1. current' = taken + 1 /\ taken' = taken + 1 /\ desc_prefetched' = desc_prefetched
          /\ state' \in {"PIPE_RESTART", "CLEAR"} /\ taken < pairs
      BY <1>3, <2>6 DEF NBPop, DescHandshake
    <3>2. desc_is_last' <=> taken + 1 = pairs
      BY <1>3, <2>6, Zenon DEF NBPop
    <3>3. taken = NextPair - 1
      BY <2>4, <2>6 DEF Loaded
    <3>4. Loaded(NextPair)' /\ taken' <= pairs
      BY <1>0, <2>3, <2>6, <3>1, <3>3 DEF Loaded
    <3> QED BY <1>0, <2>1, <2>2, <2>3, <3>1, <3>2, <3>3, <3>4 DEF PairInv, InChain, Recorded
  <2>7. CASE ~desc_prefetched /\ ~DescHandshake(in)
    <3>1. taken' = taken /\ desc_prefetched' = desc_prefetched /\ next_desc' = next_desc
          /\ state' = "POP"
      BY <1>3, <2>7 DEF NBPop
    <3>2. Loaded(NextPair - 1)'
      BY <2>3, <2>4, <3>1 DEF Loaded
    <3> QED BY <1>00, <2>1, <2>2, <2>3, <3>1, <3>2 DEF PairInv, InChain, Recorded
  <2> QED BY <2>5, <2>6, <2>7
<1>4. CASE NBClearState \/ NBStart \/ NBPipeRestart
  <2>1. /\ state \in InChain /\ state' \in InChain
        /\ files' = files /\ meta' = meta /\ blocks_in_sst' = blocks_in_sst
        /\ pairs' = pairs /\ taken' = taken /\ desc_prefetched' = desc_prefetched
        /\ next_desc' = next_desc /\ current' = current /\ desc_is_last' = desc_is_last
    BY <1>4 DEF NBClearState, NBStart, NBPipeRestart, InChain
  <2>2. ~done'
    BY <1>4, Zenon DEF NBClearState, NBStart, NBPipeRestart
  <2>3. FilesChain' /\ MetaChain' /\ NextPair' = NextPair
    BY <1>a, <1>c, <2>1 DEF NextPair, InChain
  <2>4. Loaded(NextPair)'
    BY <2>1, <2>3 DEF PairInv, Loaded
  <2> QED BY <1>00, <2>1, <2>2, <2>3, <2>4 DEF PairInv, InChain, Recorded
<1>p. ASSUME Prefetch(in), state = "WAIT"
      PROVE  /\ taken' = IF desc_prefetched' THEN NextPair + 1 ELSE NextPair
             /\ desc_prefetched' => next_desc' = NextPair + 1
             /\ taken' <= pairs
  <2>1. Loaded(NextPair)
    BY <1>p DEF PairInv, InChain
  <2>2. CASE DescHandshake(in)
    <3>1. desc_prefetched'
      BY <1>p, <2>2, Zenon DEF Prefetch
    <3>2. ~desc_prefetched /\ taken < pairs /\ taken' = taken + 1 /\ next_desc' = taken + 1
      BY <1>p, <2>2 DEF Prefetch, DescHandshake, desc_ready
    <3> QED BY <1>0, <2>1, <3>1, <3>2 DEF Loaded
  <2>3. CASE ~DescHandshake(in)
    BY <1>00, <1>p, <2>1, <2>3 DEF Prefetch, Loaded
  <2> QED BY <2>2, <2>3
<1>5. CASE NBWaitError(in) \/ NBWaitOn(in)
  <2>1. /\ state = "WAIT" /\ state' \in {"WAIT", "IDLE"}
        /\ files' = files /\ meta' = meta /\ blocks_in_sst' = blocks_in_sst
        /\ pairs' = pairs /\ current' = current /\ desc_is_last' = desc_is_last
        /\ Prefetch(in)
    BY <1>5 DEF NBWaitError, NBWaitOn, InnerFails
  <2>2. ~done'
    BY <1>5, Zenon DEF NBWaitError, NBWaitOn, InnerFails
  <2>3. FilesChain' /\ MetaChain' /\ NextPair' = NextPair
    BY <1>a, <1>c, <2>1 DEF NextPair
  <2>4. Loaded(NextPair)' /\ taken' <= pairs
    BY <1>p, <2>1, <2>3 DEF Loaded
  <2> QED BY <2>1, <2>2, <2>3, <2>4 DEF PairInv, InChain, Recorded
<1>r. ASSUME RecordBlock, state = "WAIT", files' = files,
             state' \notin {"IDLE", "SPLIT_RESET"}
      PROVE  FilesChain' /\ MetaChain' /\ NextPair' = NextPair + 1 /\ blocks_in_sst' >= 1
  <2>1. /\ FilesChain' /\ FirstPair' = FirstPair
        /\ blocks_in_sst' = blocks_in_sst + 1
        /\ \A i \in 1..blocks_in_sst : meta'[i] = meta[i]
        /\ meta'[blocks_in_sst + 1] = [blk |-> current, offset |-> running_offset, beats |-> enc_size]
    BY <1>a, <1>r, RecordEffect
  <2>2. current = FirstPair + blocks_in_sst
    BY <1>r DEF PairInv, InChain, NextPair
  <2>3. \A i \in 1..blocks_in_sst : meta[i].blk = FirstPair + i - 1
    BY <1>00, <1>r DEF MetaChain
  <2>4. ASSUME NEW i \in 1..blocks_in_sst + 1 PROVE meta'[i].blk = FirstPair + i - 1
    <3>1. CASE i \in 1..blocks_in_sst
      BY <2>1, <2>3, <3>1
    <3>2. CASE i = blocks_in_sst + 1
      BY <1>0, <2>1, <2>2, <3>2
    <3> QED BY <1>0, <3>1, <3>2
  <2>5. MetaChain'
    BY <2>1, <2>4 DEF MetaChain
  <2> QED BY <1>0, <1>r, <2>1, <2>5 DEF NextPair
<1>6. CASE NBEncodedLast(in)
  <2>1. /\ state = "WAIT" /\ RecordBlock /\ files' = files /\ pairs' = pairs
        /\ current' = current /\ desc_is_last' = desc_is_last /\ Prefetch(in)
        /\ state' = IF desc_is_last THEN "WAIT_LAST" ELSE "WAIT_SPLIT"
    BY <1>6 DEF NBEncodedLast
  <2>2. ~done'
    BY <1>6, Zenon DEF NBEncodedLast
  <2>3. FilesChain' /\ MetaChain' /\ NextPair' = NextPair + 1 /\ blocks_in_sst' >= 1
    BY <1>r, <2>1
  <2>4. Loaded(NextPair - 1)' /\ taken' <= pairs
    BY <1>0, <1>p, <2>1, <2>3 DEF Loaded
  <2>5. current = NextPair /\ (desc_is_last <=> current = pairs)
    BY <2>1 DEF PairInv, InChain
  <2> QED BY <1>0, <2>1, <2>2, <2>3, <2>4, <2>5 DEF PairInv, InChain, Recorded
<1>7. CASE NBEncodedMore(in)
  <2>1. /\ state = "WAIT" /\ RecordBlock /\ files' = files /\ pairs' = pairs
        /\ state' \in {"POP", "PIPE_RESTART"}
    BY <1>7 DEF NBEncodedMore
  <2>2. ~done'
    BY <1>7, Zenon DEF NBEncodedMore
  <2>3. FilesChain' /\ MetaChain' /\ NextPair' = NextPair + 1 /\ blocks_in_sst' >= 1
    BY <1>r, <2>1
  <2>4. Loaded(NextPair)
    BY <2>1 DEF PairInv, InChain
  <2>5. CASE desc_prefetched
    <3>1. current' = next_desc /\ next_desc' = next_desc /\ taken' = taken
          /\ state' = "PIPE_RESTART"
      BY <1>7, <2>5 DEF NBEncodedMore
    <3>2. ~desc_prefetched' /\ (desc_is_last' <=> next_desc = pairs)
      BY <1>7, <2>5, Zenon DEF NBEncodedMore
    <3>3. Loaded(NextPair)' /\ current' = NextPair'
      BY <1>0, <2>3, <2>4, <2>5, <3>1, <3>2 DEF Loaded
    <3> QED BY <1>00, <2>1, <2>2, <2>3, <3>1, <3>2, <3>3 DEF PairInv, InChain, Recorded
  <2>6. CASE ~desc_prefetched
    <3>1. state' = "POP" /\ Prefetch(in)
      BY <1>7, <2>6 DEF NBEncodedMore
    <3>2. Loaded(NextPair - 1)' /\ taken' <= pairs
      BY <1>0, <1>p, <2>1, <2>3, <3>1 DEF Loaded
    <3> QED BY <2>1, <2>2, <2>3, <3>1, <3>2 DEF PairInv, InChain, Recorded
  <2> QED BY <2>5, <2>6
<1>8. CASE NBWaitWrite
  <2>1. /\ state \in {"WAIT_LAST", "WAIT_SPLIT"}
        /\ state' \in {state, "IDLE", "ASSEMBLE", "SPLIT_ASM"}
        /\ state' = "ASSEMBLE" => state = "WAIT_LAST"
        /\ files' = files /\ meta' = meta /\ blocks_in_sst' = blocks_in_sst
        /\ pairs' = pairs /\ taken' = taken /\ desc_prefetched' = desc_prefetched
        /\ next_desc' = next_desc /\ current' = current /\ desc_is_last' = desc_is_last
    BY <1>8 DEF NBWaitWrite, InnerFails
  <2>2. ~done'
    BY <1>8, Zenon DEF NBWaitWrite, InnerFails
  <2>3. FilesChain' /\ MetaChain' /\ NextPair' = NextPair
    BY <1>a, <1>c, <2>1 DEF NextPair
  <2>4. Loaded(NextPair - 1)'
    BY <2>1, <2>3 DEF PairInv, Loaded, InChain
  <2> QED BY <1>00, <2>1, <2>2, <2>3, <2>4 DEF PairInv, InChain, Recorded
<1>9. CASE NBAssemble
  <2>1. /\ state \in {"ASSEMBLE", "SPLIT_ASM"}
        /\ meta' = meta /\ blocks_in_sst' = blocks_in_sst
        /\ pairs' = pairs /\ taken' = taken /\ desc_prefetched' = desc_prefetched
        /\ next_desc' = next_desc /\ current' = current /\ desc_is_last' = desc_is_last
    BY <1>9 DEF NBAssemble
  <2>2. /\ blocks_in_sst >= 1 /\ current = NextPair - 1
        /\ Loaded(NextPair - 1) /\ NextPair = FirstPair + blocks_in_sst
        /\ state = "ASSEMBLE" => current = pairs
    BY <2>1 DEF PairInv, InChain, Recorded, NextPair
  <2>3. CASE asm = "DONE"
    <3>1. /\ FilesChain' /\ files' /= <<>>
          /\ EndOf(Len(files))' = NextPair - 1
          /\ FirstPair' = NextPair
      BY <1>0, <1>00, <1>9, <2>1, <2>2, <2>3, FileAppended DEF NBAssemble
    <3>2. state' = IF state = "ASSEMBLE" THEN "IDLE" ELSE "SPLIT_RESET"
      BY <1>9, <2>3 DEF NBAssemble
    <3>3. state = "SPLIT_ASM" => ~done'
      BY <1>9, <2>3, Zenon DEF NBAssemble
    <3>4. MetaChain'
      BY <2>1, <3>2 DEF MetaChain
    <3>5. state' = "SPLIT_RESET" => Loaded(NextPair - 1)'
      BY <2>1, <2>2, <3>1 DEF Loaded, NextPair
    <3> QED BY <1>00, <2>1, <2>2, <3>1, <3>2, <3>3, <3>4, <3>5 DEF PairInv, InChain, Recorded
  <2>4. CASE asm /= "DONE"
    <3>1. state' \in {state, "IDLE"} /\ files' = files
      BY <1>9, <2>4 DEF NBAssemble
    <3>2. ~done'
      BY <1>9, <2>4, Zenon DEF NBAssemble
    <3>3. FilesChain' /\ MetaChain' /\ NextPair' = NextPair
      BY <1>a, <1>c, <2>1, <3>1 DEF NextPair
    <3>4. Loaded(NextPair - 1)'
      BY <2>1, <2>2, <3>3 DEF Loaded
    <3> QED BY <1>00, <2>1, <3>1, <3>2, <3>3, <3>4 DEF PairInv, InChain, Recorded
  <2> QED BY <2>3, <2>4
<1>10. CASE NBSplitReset
  <2>1. /\ state = "SPLIT_RESET" /\ state' = "POP" /\ blocks_in_sst' = 0 /\ files' = files
        /\ pairs' = pairs /\ taken' = taken /\ desc_prefetched' = desc_prefetched
        /\ next_desc' = next_desc
    BY <1>10 DEF NBSplitReset
  <2>2. ~done'
    BY <1>10, Zenon DEF NBSplitReset
  <2>3. FilesChain' /\ NextPair' = NextPair /\ MetaChain'
    BY <1>0, <1>a, <2>1 DEF NextPair, MetaChain
  <2>4. Loaded(NextPair - 1)'
    BY <2>1, <2>3 DEF PairInv, Loaded, InChain
  <2> QED BY <1>00, <2>1, <2>2, <2>3, <2>4 DEF PairInv, InChain, Recorded
<1> QED BY <1>1, <1>2, <1>3, <1>4, <1>5, <1>6, <1>7, <1>8, <1>9, <1>10 DEF NBClock

-----------------------------------------------------------------------------
(* Room in the index and in the destination buffer.                        *)

LEMMA BoundFacts ==
    ASSUME OutputFits
    PROVE  /\ MaxBlock \in Nat /\ Slot \in Nat /\ TailBeats \in Nat
           /\ Slot = MaxBlock + TailBeats
           /\ \A x \in BlockBeats : x \in Nat /\ x > 0 /\ x <= MaxBlock
           /\ \A p \in Pairs : p \in Nat /\ p * Slot <= MemBeats
<1>1. IsBound(MaxBlock)
  BY DEF OutputFits, MaxBlock
<1> QED BY <1>1, NBlockAssumption DEF IsBound, Slot

LEMMA NextSlot ==
    ASSUME NEW n \in Nat, NEW k \in Nat
    PROVE  n * k \in Nat /\ (n + 1) * k = n * k + k
OBVIOUS

LEMMA FewerSlots ==
    ASSUME NEW n \in Nat, NEW p \in Nat, NEW k \in Nat, n <= p
    PROVE  n * k <= p * k
<1>1. p * k = n * k + (p - n) * k
  OBVIOUS
<1>2. p - n \in Nat
  OBVIOUS
<1>3. (p - n) * k \in Nat /\ n * k \in Nat
  BY <1>2
<1> QED BY <1>1, <1>3

\* The slots of the recorded pairs, and of the pair in the chain, fit.
LEMMA SlotsFit ==
    ASSUME OutputFits, FsmType, PairInv
    PROVE  /\ state /= "IDLE" => /\ NextPair - 1 \in Nat
                                 /\ (NextPair - 1) * Slot \in Nat
                                 /\ (NextPair - 1) * Slot <= MemBeats
           /\ state \in InChain => /\ NextPair * Slot = (NextPair - 1) * Slot + Slot
                                   /\ NextPair * Slot <= MemBeats
<1>1. FirstPair \in Nat \ {0} /\ NextPair \in Nat \ {0} /\ NextPair - 1 \in Nat
  BY FirstPairNat DEF PairInv, NextPair, FsmType
<1>2. pairs \in Nat /\ pairs * Slot <= MemBeats /\ Slot \in Nat /\ MemBeats \in Nat
  BY BoundFacts, NBlockAssumption DEF FsmType
<1>3. taken \in Nat /\ taken <= pairs
  BY DEF FsmType, PairInv
<1>4. state \in InChain => NextPair <= pairs
  BY <1>1, <1>2, <1>3 DEF PairInv, Loaded
<1>5. state \notin InChain \cup {"IDLE"} => NextPair - 1 <= pairs
  BY <1>1, <1>2, <1>3 DEF PairInv, Loaded
<1>6. state /= "IDLE" => NextPair - 1 <= pairs
  BY <1>1, <1>2, <1>4, <1>5
<1>7. state /= "IDLE" => (NextPair - 1) * Slot <= pairs * Slot
  BY <1>1, <1>2, <1>6, FewerSlots
<1>8. state \in InChain => NextPair * Slot <= pairs * Slot
  BY <1>1, <1>2, <1>4, FewerSlots
<1>9. (NextPair - 1) * Slot \in Nat /\ NextPair * Slot \in Nat /\ pairs * Slot \in Nat
  BY <1>1, <1>2, NextSlot
<1>10. ((NextPair - 1) + 1) * Slot = (NextPair - 1) * Slot + Slot
  BY <1>1, <1>2, NextSlot
<1>11. (NextPair - 1) + 1 = NextPair
  BY <1>1
<1>12. NextPair * Slot = (NextPair - 1) * Slot + Slot
  BY <1>10, <1>11
<1> QED
  <2> DEFINE x == (NextPair - 1) * Slot  y == NextPair * Slot  z == pairs * Slot
  <2>1. x \in Nat /\ y \in Nat /\ z \in Nat /\ z <= MemBeats
        /\ (state /= "IDLE" => x <= z) /\ (state \in InChain => y <= z)
    BY <1>2, <1>7, <1>8, <1>9
  <2>2. y = x + Slot
    BY <1>12
  <2> HIDE DEF x, y, z
  <2>3. (state /= "IDLE" => x <= MemBeats) /\ (state \in InChain => y <= MemBeats)
    BY <1>2, <2>1
  <2> QED BY <1>1, <2>1, <2>2, <2>3 DEF x, y

LEMMA RoomStep ==
    ASSUME OutputFits, FsmType, FsmType', PairInv, PairInv', PulseInv, RoomInv,
           NEW cmd, NEW in, NBClock(cmd, in),
           state = "WAIT" /\ enc_done /\ ~inner_error => enc_size \in BlockBeats,
           enc_size \in Nat
    PROVE  RoomInv'
<1> USE DEF fileVars, runVars, outVars, descVars
<1> DEFINE x == (NextPair - 1) * Slot
<1>0. /\ blocks_in_sst \in Nat /\ running_offset \in Nat /\ sst_base_offset \in Nat
      /\ NextPair \in Nat /\ FirstPair \in Nat /\ FirstPair > 0
      /\ MaxBlockPairs \in Nat /\ MaxBlockPairs > 0 /\ MemBeats \in Nat
  <2>1. /\ blocks_in_sst \in Nat /\ running_offset \in Nat /\ sst_base_offset \in Nat
        /\ MaxBlockPairs \in Nat /\ MaxBlockPairs > 0 /\ MemBeats \in Nat
    BY NBlockAssumption DEF FsmType
  <2>2. FirstPair \in Nat /\ FirstPair > 0
    <3>1. FilesChain
      BY DEF PairInv
    <3>2. FirstPair \in Nat \ {0}
      BY ONLY FsmType, <3>1, FirstPairNat
    <3> QED BY ONLY <3>2
  <2>3. NextPair \in Nat
    BY ONLY <2>1, <2>2 DEF NextPair
  <2> QED BY ONLY <2>1, <2>2, <2>3
<1>1. /\ MaxBlock \in Nat /\ Slot \in Nat /\ TailBeats \in Nat /\ Slot = MaxBlock + TailBeats
      /\ \A b \in BlockBeats : b \in Nat /\ b <= MaxBlock
  BY BoundFacts
<1>2. state /= "IDLE" => x \in Nat /\ x <= MemBeats
  BY SlotsFit
<1>3. (state /= "IDLE" => (NextPair - 1) * Slot \in Nat /\ (NextPair - 1) * Slot <= MemBeats)'
  <2>1. OutputFits' <=> OutputFits
    BY DEF OutputFits, IsBound
  <2> QED BY <2>1, SlotsFit, PTL
<1>4. RoomInv
  OBVIOUS
<1> HIDE DEF x
<1>5. ASSUME files' = files, blocks_in_sst' = blocks_in_sst,
             running_offset' = running_offset, sst_base_offset' = sst_base_offset,
             state \notin {"IDLE", "SPLIT_RESET"}, state' /= "SPLIT_RESET",
             state' \in {"CLEAR", "START", "POP", "WAIT", "PIPE_RESTART"} =>
                state \in {"CLEAR", "START", "POP", "WAIT", "PIPE_RESTART"}
      PROVE  RoomInv'
  <2>1. NextPair' = NextPair
    BY <1>5 DEF NextPair, FirstPair, EndOf
  <2>2. Used' = Used
    BY <1>5 DEF Used
  <2> QED BY <1>5, <2>1, <2>2 DEF RoomInv
<1>6. ASSUME blocks_in_sst' = 0, running_offset' = 0, sst_base_offset' = 0,
             state' \in {"IDLE", "POP"}
      PROVE  RoomInv'
  <2>1. Used' = 0
    BY <1>6 DEF Used
  <2> DEFINE y == ((NextPair - 1) * Slot)'
  <2>2. state' = "POP" => y \in Nat
    BY <1>3
  <2> HIDE DEF y
  <2>3. state' = "POP" => 0 <= y
    BY <2>2
  <2> QED BY <1>0, <1>6, <2>1, <2>3 DEF RoomInv, y
<1>7. CASE cmd = "clear" /\ NBClear
  BY <1>6, <1>7 DEF NBClear
<1>8. CASE NBIdle(cmd)
  <2>1. CASE cmd = "start" /\ ~busy
    BY <1>6, <1>8, <2>1 DEF NBIdle
  <2>2. CASE ~(cmd = "start" /\ ~busy)
    <3>1. /\ state' = "IDLE" /\ running_offset' = running_offset
          /\ sst_base_offset' = sst_base_offset /\ blocks_in_sst' = blocks_in_sst
      BY <1>8, <2>2 DEF NBIdle
    <3> QED BY <3>1 DEF RoomInv
  <2> QED BY <2>1, <2>2
<1>9. CASE NBPop(in)
  BY <1>5, <1>9 DEF NBPop
<1>10. CASE NBClearState \/ NBStart \/ NBPipeRestart
  BY <1>5, <1>10 DEF NBClearState, NBStart, NBPipeRestart
<1>11. CASE NBWaitError(in) \/ NBWaitOn(in)
  BY <1>5, <1>11 DEF NBWaitError, NBWaitOn, InnerFails
<1>12. CASE NBWaitWrite
  BY <1>5, <1>12 DEF NBWaitWrite, InnerFails
<1>13. CASE NBEncodedLast(in) \/ NBEncodedMore(in)
  <2>1. /\ state = "WAIT" /\ enc_done /\ ~inner_error /\ files' = files
        /\ sst_base_offset' = sst_base_offset
        /\ running_offset' = running_offset + enc_size
        /\ blocks_in_sst' = blocks_in_sst + 1
        /\ state' \in {"WAIT_LAST", "WAIT_SPLIT", "POP", "PIPE_RESTART"}
    BY <1>13 DEF NBEncodedLast, NBEncodedMore, RecordBlock
  <2>2. enc_size \in Nat /\ enc_size <= MaxBlock
    BY <1>1, <2>1
  <2>a. FirstPair' = FirstPair
    BY <2>1 DEF FirstPair, EndOf
  <2>3. NextPair' = NextPair + 1
    BY <1>0, <2>1, <2>a DEF NextPair
  <2>4. Used <= x /\ x \in Nat
    BY <1>2, <1>4, <2>1 DEF RoomInv, x
  <2>5. NextPair * Slot = x + Slot /\ NextPair * Slot <= MemBeats
    BY <2>1, SlotsFit DEF InChain, x
  <2>6. Used' = Used + enc_size \/ Used' = Used + enc_size + TailBeats
    BY <1>0, <1>1, <2>1, <2>2 DEF Used
  <2>7. Used \in Nat
    BY <1>0, <1>1 DEF Used
  <2> DEFINE y == NextPair * Slot
  <2>8. y \in Nat /\ y = x + Slot /\ y <= MemBeats
    BY <1>0, <1>1, <2>5, NextSlot
  <2> HIDE DEF y
  <2>9. Used' <= y
    BY <1>1, <2>2, <2>4, <2>6, <2>7, <2>8
  <2>10. (NextPair' - 1) * Slot = y
    BY <1>0, <2>3 DEF y
  <2>11. Used' >= running_offset' /\ Used' \in Nat
    BY <1>0, <1>1, <2>1, <2>2 DEF Used
  <2>12. running_offset' <= MemBeats
    BY <1>0, <2>1, <2>2, <2>8, <2>9, <2>11
  <2>13. blocks_in_sst < MaxBlockPairs
    BY <1>4, <2>1 DEF RoomInv
  <2>14. CASE NBEncodedLast(in)
    <3>1. state' \in {"WAIT_LAST", "WAIT_SPLIT"}
      BY <2>14 DEF NBEncodedLast
    <3>2. blocks_in_sst' <= MaxBlockPairs
      BY <1>0, <2>1, <2>13
    <3> QED BY <1>4, <2>1, <2>9, <2>10, <2>12, <3>1, <3>2 DEF RoomInv
  <2>15. CASE NBEncodedMore(in)
    <3>1. state' \in {"POP", "PIPE_RESTART"} /\ ~(blocks_in_sst + 1 >= MaxBlockPairs)
      BY <2>15 DEF NBEncodedMore, SplitHere
    <3>2. blocks_in_sst' < MaxBlockPairs /\ blocks_in_sst' <= MaxBlockPairs
      BY <1>0, <2>1, <3>1
    <3> QED BY <1>4, <2>1, <2>9, <2>10, <2>12, <3>1, <3>2 DEF RoomInv
  <2> QED BY <1>13, <2>14, <2>15
<1>14. CASE NBAssemble
  <2>1. /\ state \in {"ASSEMBLE", "SPLIT_ASM"}
        /\ running_offset' = running_offset /\ blocks_in_sst' = blocks_in_sst
    BY <1>14 DEF NBAssemble
  <2>2. CASE asm = "DONE" /\ state = "SPLIT_ASM"
    <3>1. /\ state' = "SPLIT_RESET"
          /\ sst_base_offset' = sst_base_offset + running_offset + TailBeats
          /\ taken' = taken /\ desc_prefetched' = desc_prefetched
      BY <1>14, <2>2 DEF NBAssemble, NoPrefetch
    <3>2. blocks_in_sst >= 1 /\ Loaded(NextPair - 1)
      BY <2>1 DEF PairInv, Recorded, InChain
    <3>3. Loaded(NextPair - 1)'
      BY <3>1 DEF PairInv, InChain
    <3>4. NextPair' \in Nat
      <4>1. (FirstPair \in Nat \ {0})'
        BY FirstPairNat, PTL DEF PairInv
      <4> QED BY <3>1, <4>1 DEF NextPair
    <3>5. NextPair' = NextPair
      <4> DEFINE a == NextPair  b == NextPair'  t == taken
      <4>1. a \in Nat /\ b \in Nat /\ t \in Nat
        BY <1>0, <3>4 DEF FsmType
      <4>2. t = (IF desc_prefetched THEN (a - 1) + 1 ELSE a - 1)
        BY <3>2 DEF Loaded
      <4>3. t = (IF desc_prefetched THEN (b - 1) + 1 ELSE b - 1)
        BY <3>1, <3>3 DEF Loaded
      <4> HIDE DEF a, b, t
      <4>4. a = b
        BY <4>1, <4>2, <4>3
      <4> QED BY <4>4 DEF a, b
    <3>6. sst_base_offset' = Used
      BY <1>0, <3>1, <3>2 DEF Used
    <3>7. Used <= x /\ x \in Nat /\ x <= MemBeats /\ Used \in Nat
      BY <1>0, <1>1, <1>2, <1>4, <2>1 DEF RoomInv, x, Used
    <3>8. sst_base_offset' <= (NextPair' - 1) * Slot
      BY <3>5, <3>6, <3>7 DEF x
    <3>9. sst_base_offset' <= MemBeats
      BY <1>0, <3>6, <3>7
    <3> QED BY <1>4, <2>1, <3>1, <3>8, <3>9 DEF RoomInv
  <2>3. CASE asm = "DONE" /\ state = "ASSEMBLE"
    <3>1. state' = "IDLE" /\ sst_base_offset' = sst_base_offset
      BY <1>14, <2>3 DEF NBAssemble
    <3> QED BY <1>4, <2>1, <3>1 DEF RoomInv
  <2>4. CASE asm /= "DONE"
    BY <1>5, <1>14, <2>4 DEF NBAssemble
  <2> QED BY <2>1, <2>2, <2>3, <2>4
<1>15. CASE NBSplitReset
  <2>1. /\ state = "SPLIT_RESET" /\ state' = "POP" /\ blocks_in_sst' = 0
        /\ running_offset' = 0 /\ sst_base_offset' = sst_base_offset /\ files' = files
    BY <1>15 DEF NBSplitReset
  <2>2. NextPair' = NextPair
    BY <1>0, <2>1 DEF NextPair, FirstPair, EndOf
  <2>3. Used' = sst_base_offset
    BY <1>0, <2>1 DEF Used
  <2> QED BY <1>0, <1>4, <2>1, <2>2, <2>3 DEF RoomInv
<1> QED BY <1>7, <1>8, <1>9, <1>10, <1>11, <1>12, <1>13, <1>14, <1>15 DEF NBClock

-----------------------------------------------------------------------------
(* The encoder and the output pipe.                                        *)

LEMMA EncoderTypeStep ==
    ASSUME FsmType, PathType, runs' \in Nat, runs <= runs', NEW in, EncoderClock(in)
    PROVE  /\ enc' \in {"IDLE", "RUN"}
           /\ enc_size' \in Nat /\ enc_left' \in 0..enc_size'
           /\ enc' = "RUN" => enc_left' >= 1 /\ enc_size' \in BlockBeats
           /\ enc_of' \in Nat \X Nat /\ enc_of'[1] <= runs'
<1>0. runs \in Nat /\ current \in Nat /\ enc_size \in Nat /\ enc_left \in Nat
      /\ enc_left <= enc_size /\ enc_of \in Nat \X Nat /\ enc_of[1] \in Nat
  BY DEF FsmType, PathType
<1>1. CASE EncoderReset \/ EncoderWait \/ EncoderFault
  BY <1>0, <1>1 DEF EncoderReset, EncoderWait, EncoderFault, PathType
<1>2. CASE EncoderStart
  <2>1. enc_size' \in BlockBeats /\ enc_left' = enc_size' /\ enc' = "RUN"
        /\ enc_of' = <<runs, current>>
    BY <1>2 DEF EncoderStart
  <2>2. enc_size' \in Nat /\ enc_size' >= 1
    BY <2>1, NBlockAssumption
  <2> QED BY <1>0, <2>1, <2>2
<1>3. CASE EncoderEmit
  <2>1. enc = "RUN" /\ enc_left' = enc_left - 1 /\ enc_size' = enc_size /\ enc_of' = enc_of
        /\ enc' = IF enc_left = 1 THEN "IDLE" ELSE "RUN"
    BY <1>3 DEF EncoderEmit, CanEmit
  <2>2. enc_left >= 1 /\ enc_size \in BlockBeats
    BY <2>1 DEF PathType
  <2> QED BY <1>0, <2>1, <2>2 DEF PathType
<1> QED BY <1>1, <1>2, <1>3 DEF EncoderClock

\* A beat of the encoder.
LEMMA BeatType ==
    ASSUME FsmType, PathType
    PROVE  /\ Beat(enc_size - enc_left + 1, enc_size) \in BeatRec
           /\ Beat(enc_size - enc_left + 1, enc_size).run = enc_of[1]
BY DEF Beat, BeatRec, PathType

LEMMA Singleton ==
    ASSUME NEW S, NEW x \in S
    PROVE  <<x>> \in Seq(S) /\ Len(<<x>>) = 1 /\ <<x>>[1] = x
OBVIOUS

\* One clock of the pipe: at its head a beat may leave, at its end one may come.
LEMMA PipeEffect ==
    ASSUME FsmType, PathType, ~InnerClear, NEW inEnc, NEW inPipe, NEW axi,
           PipeClock(inEnc, inPipe, axi)
    PROVE  LET b == Beat(enc_size - enc_left + 1, enc_size)
               l == Len(pipe)
           IN  /\ pipe' \in Seq(BeatRec) /\ write_beat' \in Seq(BeatRec)
               /\ Len(pipe') <= PipeBeats /\ Len(write_beat') <= 1
               /\ Emitting(inEnc) /\ Arrives(inPipe) =>
                    /\ Len(pipe') = l
                    /\ \A k \in 1..l - 1 : pipe'[k] = pipe[k + 1]
                    /\ pipe'[l] = b
               /\ Emitting(inEnc) /\ ~Arrives(inPipe) =>
                    /\ Len(pipe') = l + 1
                    /\ \A k \in 1..l : pipe'[k] = pipe[k]
                    /\ pipe'[l + 1] = b
               /\ ~Emitting(inEnc) /\ Arrives(inPipe) =>
                    /\ Len(pipe') = l - 1
                    /\ \A k \in 1..l - 1 : pipe'[k] = pipe[k + 1]
               /\ ~Emitting(inEnc) /\ ~Arrives(inPipe) => pipe' = pipe
               /\ Arrives(inPipe) => l >= 1 /\ write_beat = <<>> /\ write_beat' = <<pipe[1]>>
               /\ TakeBeat(axi) => write_beat /= <<>> /\ ~Arrives(inPipe) /\ write_beat' = <<>>
               /\ ~TakeBeat(axi) /\ ~Arrives(inPipe) => write_beat' = write_beat
<1> DEFINE b == Beat(enc_size - enc_left + 1, enc_size)
           l == Len(pipe)
           rest == IF Arrives(inPipe) THEN Tail(pipe) ELSE pipe
<1>0. /\ pipe \in Seq(BeatRec) /\ write_beat \in Seq(BeatRec) /\ l \in Nat /\ l <= PipeBeats
      /\ Len(write_beat) <= 1 /\ PipeBeats \in Nat
  BY NBlockAssumption DEF PathType
<1>1. b \in BeatRec
  BY BeatType
<1>2. pipe' = IF Emitting(inEnc) THEN Append(rest, b) ELSE rest
  BY DEF PipeClock
<1>3. write_beat' = IF Arrives(inPipe) THEN <<Head(pipe)>>
                    ELSE IF TakeBeat(axi) THEN <<>> ELSE write_beat
  BY DEF PipeClock
<1>4. Arrives(inPipe) => write_beat = <<>> /\ pipe /= <<>>
  BY DEF Arrives
<1>5. TakeBeat(axi) => write_beat /= <<>>
  BY DEF TakeBeat
<1>6. Emitting(inEnc) => l < PipeBeats
  BY DEF Emitting, CanEmit
<1> HIDE DEF b
<1>7. Arrives(inPipe) => l >= 1 /\ Head(pipe) = pipe[1] /\ pipe[1] \in BeatRec
  BY <1>0, <1>4
<1>8. /\ rest \in Seq(BeatRec)
      /\ Arrives(inPipe) => Len(rest) = l - 1 /\ \A k \in 1..l - 1 : rest[k] = pipe[k + 1]
      /\ ~Arrives(inPipe) => rest = pipe
  BY <1>0, <1>4
<1> HIDE DEF rest
<1>9. Emitting(inEnc) => /\ pipe' \in Seq(BeatRec) /\ Len(pipe') = Len(rest) + 1
                         /\ \A k \in 1..Len(rest) : pipe'[k] = rest[k]
                         /\ pipe'[Len(rest) + 1] = b
  BY <1>1, <1>2, <1>8
<1>10. ~Emitting(inEnc) => pipe' = rest
  BY <1>2
<1>11. Emitting(inEnc) /\ Arrives(inPipe) =>
                    /\ Len(pipe') = l
                    /\ \A k \in 1..l - 1 : pipe'[k] = pipe[k + 1]
                    /\ pipe'[l] = b
  BY <1>0, <1>7, <1>8, <1>9
<1>12. Emitting(inEnc) /\ ~Arrives(inPipe) =>
                    /\ Len(pipe') = l + 1
                    /\ \A k \in 1..l : pipe'[k] = pipe[k]
                    /\ pipe'[l + 1] = b
  BY <1>8, <1>9
<1>13. /\ ~Emitting(inEnc) /\ Arrives(inPipe) =>
                    /\ Len(pipe') = l - 1
                    /\ \A k \in 1..l - 1 : pipe'[k] = pipe[k + 1]
       /\ ~Emitting(inEnc) /\ ~Arrives(inPipe) => pipe' = pipe
  BY <1>8, <1>10
<1>14. pipe' \in Seq(BeatRec) /\ Len(pipe') <= PipeBeats
  BY <1>0, <1>6, <1>8, <1>9, <1>10, <1>11, <1>12, <1>13
<1>15. Arrives(inPipe) => write_beat' = <<pipe[1]>>
  BY <1>3, <1>7
<1>16. write_beat' \in Seq(BeatRec) /\ Len(write_beat') <= 1
  <2>1. CASE Arrives(inPipe)
    <3> DEFINE q == pipe[1]
    <3>1. q \in BeatRec /\ write_beat' = <<q>>
      BY <1>7, <1>15, <2>1
    <3> HIDE DEF q
    <3> QED BY <3>1, Singleton
  <2>2. CASE ~Arrives(inPipe)
    BY <1>0, <1>3, <2>2
  <2> QED BY <2>1, <2>2
<1> QED BY <1>3, <1>4, <1>5, <1>7, <1>11, <1>12, <1>13, <1>14, <1>15, <1>16 DEF b

\* The pipe keeps a stream s in order: t is the beat at its head.
LEMMA CarriesOn ==
    ASSUME FsmType, PathType, ~InnerClear, NEW inEnc, NEW inPipe, NEW axi,
           PipeClock(inEnc, inPipe, axi),
           NEW s, NEW t \in Nat, Carries(s, t, pipe, write_beat),
           Emitting(inEnc) =>
              Beat(enc_size - enc_left + 1, enc_size) = s[t + Len(write_beat) + Len(pipe)],
           NEW u \in Nat, u = IF TakeBeat(axi) THEN t + 1 ELSE t
    PROVE  /\ Carries(s, u, pipe', write_beat')
           /\ u + Len(write_beat') + Len(pipe') =
                t + Len(write_beat) + Len(pipe) + (IF Emitting(inEnc) THEN 1 ELSE 0)
           /\ Len(write_beat) \in Nat /\ Len(pipe) \in Nat
           /\ Len(write_beat') \in Nat /\ Len(pipe') \in Nat
           /\ TakeBeat(axi) => Len(write_beat) = 1 /\ Head(write_beat) = s[t]
<1> DEFINE b == Beat(enc_size - enc_left + 1, enc_size)
           l == Len(pipe)
           w == Len(write_beat)
<1>a. pipe \in Seq(BeatRec) /\ write_beat \in Seq(BeatRec) /\ w <= 1
  BY DEF PathType
<1>b. w \in Nat /\ l \in Nat /\ (write_beat = <<>> <=> w = 0)
      /\ (write_beat /= <<>> => Head(write_beat) = write_beat[1])
  BY <1>a
<1> HIDE DEF b, l, w
<1>0. l \in Nat /\ w \in {0, 1} /\ w \in Nat /\ (write_beat = <<>> <=> w = 0)
  BY <1>a, <1>b
<1>1. /\ pipe' \in Seq(BeatRec) /\ write_beat' \in Seq(BeatRec)
      /\ Len(pipe') <= PipeBeats /\ Len(write_beat') <= 1
      /\ Emitting(inEnc) /\ Arrives(inPipe) =>
           /\ Len(pipe') = l
           /\ \A k \in 1..l - 1 : pipe'[k] = pipe[k + 1]
           /\ pipe'[l] = b
      /\ Emitting(inEnc) /\ ~Arrives(inPipe) =>
           /\ Len(pipe') = l + 1
           /\ \A k \in 1..l : pipe'[k] = pipe[k]
           /\ pipe'[l + 1] = b
      /\ ~Emitting(inEnc) /\ Arrives(inPipe) =>
           /\ Len(pipe') = l - 1
           /\ \A k \in 1..l - 1 : pipe'[k] = pipe[k + 1]
      /\ ~Emitting(inEnc) /\ ~Arrives(inPipe) => pipe' = pipe
      /\ Arrives(inPipe) => l >= 1 /\ write_beat = <<>> /\ write_beat' = <<pipe[1]>>
      /\ TakeBeat(axi) => write_beat /= <<>> /\ ~Arrives(inPipe) /\ write_beat' = <<>>
      /\ ~TakeBeat(axi) /\ ~Arrives(inPipe) => write_beat' = write_beat
  BY PipeEffect DEF b, l
<1>2. /\ \A k \in 1..w : write_beat[k] = s[t]
      /\ \A k \in 1..l : pipe[k] = s[t + w + k - 1]
  BY DEF Carries, l, w
<1>3. Emitting(inEnc) => b = s[t + w + l]
  BY DEF b, l, w
<1>4. u = IF TakeBeat(axi) THEN t + 1 ELSE t
  OBVIOUS
<1>5. TakeBeat(axi) => w = 1 /\ Head(write_beat) = s[t]
  <2>1. TakeBeat(axi) => w = 1 /\ Head(write_beat) = write_beat[1]
    BY <1>0, <1>1, <1>b
  <2> QED BY <1>2, <2>1
<1>6. CASE Arrives(inPipe)
  <2>1. w = 0 /\ u = t /\ l >= 1 /\ pipe[1] = s[t] /\ pipe[1] \in BeatRec
    BY <1>a, <1>0, <1>1, <1>2, <1>4, <1>6 DEF l
  <2>2. Len(write_beat') = 1 /\ write_beat'[1] = s[t]
    BY <1>1, <1>6, <2>1, Singleton
  <2>3. \A k \in 1..Len(write_beat') : write_beat'[k] = s[u]
    BY <2>1, <2>2
  <2>4. ASSUME NEW k \in 1..l - 1 PROVE pipe'[k] = s[u + 1 + k - 1]
    <3>1. k + 1 \in 1..l /\ t + w + (k + 1) - 1 = u + 1 + k - 1
      BY <1>0, <2>1
    <3>2. pipe'[k] = pipe[k + 1]
      BY <1>1, <1>6
    <3> QED BY <1>2, <3>1, <3>2
  <2>5. CASE Emitting(inEnc)
    <3>1. Len(pipe') = l /\ pipe'[l] = s[u + 1 + l - 1]
      <4>1. t + w + l = u + 1 + l - 1
        BY <1>0, <2>1
      <4> QED BY <1>1, <1>3, <1>6, <2>5, <4>1
    <3>2. \A k \in 1..l : k \in 1..l - 1 \/ k = l
      BY <1>0
    <3>3. \A k \in 1..Len(pipe') : pipe'[k] = s[u + Len(write_beat') + k - 1]
      BY <2>2, <2>4, <3>1, <3>2
    <3>4. u + Len(write_beat') + Len(pipe') = t + w + l + 1
      BY <1>0, <2>1, <2>2, <3>1
    <3> QED BY <1>0, <1>5, <2>1, <2>2, <2>3, <2>5, <3>1, <3>3, <3>4 DEF Carries, l, w
  <2>6. CASE ~Emitting(inEnc)
    <3>1. Len(pipe') = l - 1
      BY <1>1, <1>6, <2>6
    <3>2. \A k \in 1..Len(pipe') : pipe'[k] = s[u + Len(write_beat') + k - 1]
      BY <2>2, <2>4, <3>1
    <3>3. u + Len(write_beat') + Len(pipe') = t + w + l
      BY <1>0, <2>1, <2>2, <3>1
    <3>4. Len(pipe') \in Nat
      BY <1>0, <2>1, <3>1
    <3> QED BY <1>0, <1>5, <2>1, <2>2, <2>3, <2>6, <3>1, <3>2, <3>3, <3>4 DEF Carries, l, w
  <2> QED BY <2>5, <2>6
<1>7. CASE ~Arrives(inPipe)
  <2>1. Len(write_beat') \in Nat /\ u + Len(write_beat') = t + w
    <3>1. CASE TakeBeat(axi)
      <4>1. w = 1 /\ u = t + 1 /\ Len(write_beat') = 0
        BY <1>1, <1>4, <1>5, <3>1
      <4> QED BY <4>1
    <3>2. CASE ~TakeBeat(axi)
      BY <1>0, <1>1, <1>4, <1>7, <3>2 DEF w
    <3> QED BY <3>1, <3>2
  <2>2. \A k \in 1..Len(write_beat') : write_beat'[k] = s[u]
    <3>1. CASE TakeBeat(axi)
      <4>1. write_beat' = <<>>
        BY <1>1, <3>1
      <4> QED BY <4>1
    <3>2. CASE ~TakeBeat(axi)
      BY <1>1, <1>2, <1>4, <1>7, <3>2 DEF w
    <3> QED BY <3>1, <3>2
  <2>3. \A k \in 1..l : u + Len(write_beat') + k - 1 = t + w + k - 1
    BY <1>0, <2>1
  <2>4. CASE Emitting(inEnc)
    <3>1. Len(pipe') = l + 1 /\ pipe'[l + 1] = s[u + Len(write_beat') + (l + 1) - 1]
      <4>1. t + w + l = u + Len(write_beat') + (l + 1) - 1
        BY <1>0, <2>1
      <4> QED BY <1>1, <1>3, <1>7, <2>4, <4>1
    <3>2. \A k \in 1..l : pipe'[k] = s[u + Len(write_beat') + k - 1]
      BY <1>1, <1>2, <1>7, <2>3, <2>4
    <3>3. \A k \in 1..l + 1 : k \in 1..l \/ k = l + 1
      BY <1>0
    <3>4. \A k \in 1..Len(pipe') : pipe'[k] = s[u + Len(write_beat') + k - 1]
      BY <3>1, <3>2, <3>3
    <3>a. Len(pipe') = l + 1 /\ Len(pipe') \in Nat
      BY <1>0, <3>1
    <3>5. u + Len(write_beat') + Len(pipe') = t + w + l + 1
      <4> DEFINE a == Len(write_beat')  c == Len(pipe')
      <4>1. a \in Nat /\ c \in Nat /\ c = l + 1 /\ u + a = t + w
        BY <2>1, <3>a
      <4> HIDE DEF a, c
      <4>2. u + a + c = t + w + l + 1
        BY <1>0, <4>1
      <4> QED BY <4>2 DEF a, c
    <3> QED BY <1>0, <1>5, <2>1, <2>2, <2>4, <3>a, <3>4, <3>5 DEF Carries, l, w
  <2>5. CASE ~Emitting(inEnc)
    <3>1. Len(pipe') = l /\ \A k \in 1..l : pipe'[k] = s[u + Len(write_beat') + k - 1]
      BY <1>1, <1>2, <1>7, <2>3, <2>5 DEF l
    <3>2. u + Len(write_beat') + Len(pipe') = t + w + l
      BY <1>0, <2>1, <3>1
    <3> QED BY <1>0, <1>5, <2>1, <2>2, <2>5, <3>1, <3>2 DEF Carries, l, w
  <2> QED BY <2>4, <2>5
<1> QED BY <1>6, <1>7

-----------------------------------------------------------------------------
(* Types of the data path.                                                 *)

LEMMA WriterTypeStep ==
    ASSUME FsmType, PathType, NEW axi, WriterClock(axi)
    PROVE  /\ wr_state' \in {"IDLE", "AW", "W", "B"}
           /\ cur_addr' \in Nat /\ burst_index' \in Nat
<1>a. /\ cur_addr \in Nat /\ burst_index \in Nat /\ BurstBeats \in Nat
      /\ wr_state \in {"IDLE", "AW", "W", "B"}
  BY NBlockAssumption DEF PathType
<1>b. current_dst_base_addr \in Nat
  BY DEF FsmType, current_dst_base_addr
<1>0. /\ cur_addr \in Nat /\ burst_index \in Nat /\ BurstBeats \in Nat
      /\ current_dst_base_addr \in Nat /\ wr_state \in {"IDLE", "AW", "W", "B"}
  BY <1>a, <1>b
<1>1. CASE WriterReset
  BY <1>1 DEF WriterReset
<1>2. CASE WriterIdle
  BY <1>0, <1>2 DEF WriterIdle
<1>3. CASE WriterAW(axi)
  BY <1>0, <1>3 DEF WriterAW
<1>4. CASE WriterW(axi)
  BY <1>0, <1>4 DEF WriterW
<1>5. CASE WriterB(axi)
  BY <1>0, <1>5 DEF WriterB
<1> QED BY <1>1, <1>2, <1>3, <1>4, <1>5 DEF WriterClock

LEMMA AsmEffect ==
    ASSUME PathType, NEW axi, AsmClock(axi)
    PROVE  /\ asm' \in {"IDLE", "RUN", "DONE", "ERROR"}
           /\ InnerClear => asm' = "IDLE"
           /\ asm' = "RUN" => ~InnerClear /\ (asm_start \/ asm = "RUN")
           /\ ~asm_start /\ asm = "IDLE" => asm' = "IDLE"
<1>1. CASE InnerClear
  BY <1>1 DEF AsmClock, AsmWrites
<1>2. CASE ~InnerClear /\ asm_start
  BY <1>2 DEF AsmClock, AsmWrites
<1>3. CASE ~InnerClear /\ ~asm_start
  BY <1>3 DEF AsmClock, AsmWrites, PathType
<1> QED BY <1>1, <1>2, <1>3

\* Where the memory may change: at the write engine's address, or behind the
\* blocks of the file while the assembler runs.
LEMMA MemEffect ==
    ASSUME PathType, NEW cmd, NEW axi, MemClock(cmd, axi)
    PROVE  /\ mem' = [a \in 0..MemBeats - 1 |-> mem'[a]]
           /\ \A a \in 0..MemBeats - 1 :
                /\ StartAccepted(cmd) => mem'[a] = Old
                /\ /\ ~StartAccepted(cmd)
                   /\ ~(~InnerClear /\ TakeBeat(axi) /\ a = cur_addr + burst_index)
                   /\ ~(AsmWrites(axi) /\ a - current_dst_base_addr \in 0..TailBeats - 1)
                   => mem'[a] = mem[a]
                /\ ~StartAccepted(cmd) /\ ~InnerClear /\ TakeBeat(axi) /\ a = cur_addr + burst_index
                   => mem'[a] = BeatWritten
<1>1. DOMAIN mem = 0..MemBeats - 1
  BY DEF PathType
<1>2. mem' = [a \in 0..MemBeats - 1 |->
              IF StartAccepted(cmd) THEN Old
              ELSE IF ~InnerClear /\ TakeBeat(axi) /\ a = cur_addr + burst_index
              THEN BeatWritten
              ELSE IF AsmWrites(axi) /\ a - current_dst_base_addr \in 0..TailBeats - 1
              THEN <<0, a - current_dst_base_addr + 1>>
              ELSE mem[a]]
  BY <1>1 DEF MemClock
<1> QED BY <1>2

LEMMA PathTypeStep ==
    ASSUME FsmType, FsmType', PathType, runs <= runs',
           NEW cmd, NEW inDesc, NEW inEnc, NEW inPipe, NEW axi,
           Tick(cmd, inDesc, inEnc, inPipe, axi)
    PROVE  PathType'
<1>1. /\ enc' \in {"IDLE", "RUN"}
      /\ enc_size' \in Nat /\ enc_left' \in 0..enc_size'
      /\ enc' = "RUN" => enc_left' >= 1 /\ enc_size' \in BlockBeats
      /\ enc_of' \in Nat \X Nat /\ enc_of'[1] <= runs'
  <2>1. runs' \in Nat
    BY DEF FsmType
  <2> QED BY <2>1, EncoderTypeStep DEF Tick
<1>2. /\ pipe' \in Seq(BeatRec) /\ Len(pipe') <= PipeBeats
      /\ write_beat' \in Seq(BeatRec) /\ Len(write_beat') <= 1
  <2>1. CASE InnerClear
    <3>1. pipe' = <<>> /\ write_beat' = <<>>
      BY <2>1 DEF Tick, PipeClock
    <3>2. <<>> \in Seq(BeatRec) /\ Len(<<>>) = 0 /\ PipeBeats \in Nat
      BY NBlockAssumption
    <3> QED BY <3>1, <3>2
  <2>2. CASE ~InnerClear
    BY <2>2, PipeEffect DEF Tick
  <2> QED BY <2>1, <2>2
<1>3. wr_state' \in {"IDLE", "AW", "W", "B"} /\ cur_addr' \in Nat /\ burst_index' \in Nat
  BY WriterTypeStep DEF Tick
<1>4. asm' \in {"IDLE", "RUN", "DONE", "ERROR"}
  BY AsmEffect DEF Tick
<1>5. mem' = [a \in 0..MemBeats - 1 |-> mem'[a]]
  BY MemEffect DEF Tick
<1> QED BY <1>1, <1>2, <1>3, <1>4, <1>5 DEF PathType

-----------------------------------------------------------------------------
(* The start logic and the write engine.                                   *)

\* The start flags after a clock edge.
LEMMA StartEffect ==
    ASSUME StartClock
    PROVE  /\ InnerClear \/ inner_cmd = "start" => ~wr_start' /\ ~wr_started'
           /\ wr_start' => FirstBeat /\ ~wr_done /\ ~InnerClear /\ inner_cmd /= "start"
           /\ wr_start' => wr_started'
           /\ wr_started /\ ~wr_done /\ ~InnerClear /\ inner_cmd /= "start" => wr_started'
<1>1. CASE InnerClear
  BY <1>1, Zenon DEF StartClock, InnerClear
<1>2. CASE ~InnerClear /\ inner_cmd /= "start" /\ wr_done
  BY <1>2, Zenon DEF StartClock
<1>3. CASE ~InnerClear /\ inner_cmd /= "start" /\ ~wr_done
  <2>1. wr_start' = FirstBeat /\ wr_started' = (wr_started \/ FirstBeat)
    BY <1>3 DEF StartClock
  <2>2. wr_start' <=> FirstBeat
    BY <2>1, Zenon
  <2>3. wr_started' <=> wr_started \/ FirstBeat
    BY <2>1, Zenon
  <2> QED BY <1>3, <2>2, <2>3
<1>4. CASE inner_cmd = "start"
  BY <1>4, Zenon DEF StartClock, InnerClear
<1> QED BY <1>1, <1>2, <1>3, <1>4

\* wr_done is a pulse of one clock, raised when the write engine gets idle.
LEMMA WriterFlags ==
    ASSUME NEW axi, WriterClock(axi)
    PROVE  /\ wr_done' => wr_state = "B" /\ wr_state' = "IDLE" /\ stream_last_seen /\ ~InnerClear
           /\ InnerClear => ~wr_error'
           /\ wr_error /\ ~InnerClear /\ ~(wr_state = "IDLE" /\ wr_start) => wr_error'
           /\ wr_state = "B" /\ ~InnerClear /\ ~assemble_mode /\ axi = "fault" => wr_error'
<1>1. CASE WriterReset
  BY <1>1, Zenon DEF WriterReset
<1>2. CASE WriterIdle
  <2>1. ~wr_done'
    BY <1>2, Zenon DEF WriterIdle
  <2>2. wr_state = "IDLE" /\ ~InnerClear /\ (wr_start \/ wr_error' = wr_error)
    BY <1>2 DEF WriterIdle
  <2> QED BY <2>1, <2>2
<1>3. CASE WriterAW(axi)
  BY <1>3, Zenon DEF WriterAW
<1>4. CASE WriterW(axi)
  BY <1>4, Zenon DEF WriterW
<1>5. CASE WriterB(axi)
  <2>1. CASE axi = "wait" \/ assemble_mode
    <3>1. ~wr_done'
      BY <1>5, <2>1, Zenon DEF WriterB
    <3>2. wr_state = "B" /\ ~InnerClear /\ wr_error' = wr_error
      BY <1>5, <2>1 DEF WriterB
    <3> QED BY <2>1, <3>1, <3>2
  <2>2. CASE ~(axi = "wait" \/ assemble_mode)
    <3>1. wr_error' <=> (wr_error \/ axi = "fault")
      BY <1>5, <2>2, Zenon DEF WriterB
    <3>2. wr_state = "B" /\ ~InnerClear /\ wr_done' = stream_last_seen
          /\ (stream_last_seen => wr_state' = "IDLE")
      BY <1>5, <2>2 DEF WriterB
    <3> QED BY <3>1, <3>2
  <2> QED BY <2>1, <2>2
<1> QED BY <1>1, <1>2, <1>3, <1>4, <1>5 DEF WriterClock

LEMMA StartStep ==
    ASSUME FsmType, PathType, PulseInv, StartInv, SettledInv,
           NEW cmd, NEW inDesc, NEW inEnc, NEW inPipe, NEW axi,
           Tick(cmd, inDesc, inEnc, inPipe, axi)
    PROVE  StartInv'
<1>1. StartClock /\ WriterClock(axi) /\ PipeClock(inEnc, inPipe, axi) /\ NBClock(cmd, inDesc)
  BY DEF Tick
<1>2. /\ InnerClear \/ inner_cmd = "start" => ~wr_start' /\ ~wr_started'
      /\ wr_start' => FirstBeat /\ ~wr_done /\ ~InnerClear /\ inner_cmd /= "start"
      /\ wr_start' => wr_started'
      /\ wr_started /\ ~wr_done /\ ~InnerClear /\ inner_cmd /= "start" => wr_started'
  BY <1>1, StartEffect
<1>3. wr_done' => wr_state = "B" /\ wr_state' = "IDLE" /\ ~InnerClear
  BY <1>1, WriterFlags
<1>4. InnerClear => wr_state' = "IDLE"
  BY <1>1 DEF WriterClock, WriterReset, WriterIdle, WriterAW, WriterW, WriterB
<1>5. wr_state = "IDLE" /\ ~wr_start => wr_state' = "IDLE"
  BY <1>1 DEF WriterClock, WriterReset, WriterIdle, WriterAW, WriterW, WriterB
<1>6. inner_cmd = "start" => wr_state' = "IDLE"
  BY <1>5 DEF PulseInv, SettledInv, Quiet
<1>7. wr_start' => wr_state = "IDLE" /\ wr_state' = "IDLE" /\ ~wr_done' /\ write_beat' /= <<>>
  <2> SUFFICES ASSUME wr_start'
               PROVE  wr_state = "IDLE" /\ wr_state' = "IDLE" /\ ~wr_done' /\ write_beat' /= <<>>
    OBVIOUS
  <2>1. FirstBeat /\ ~InnerClear
    BY <1>2
  <2>2. ~wr_started /\ write_beat /= <<>>
    BY <2>1 DEF FirstBeat
  <2>3. wr_state = "IDLE" /\ ~wr_start
    BY <2>2 DEF StartInv
  <2>4. ~TakeBeat(axi) /\ ~Arrives(inPipe)
    BY <2>2, <2>3 DEF TakeBeat, Arrives
  <2>5. write_beat' = write_beat
    BY <1>1, <2>1, <2>4 DEF PipeClock
  <2> QED BY <1>3, <1>5, <2>2, <2>3, <2>5
<1>8. wr_state' /= "IDLE" => wr_started' /\ ~wr_done'
  <2> SUFFICES ASSUME wr_state' /= "IDLE"
               PROVE  wr_started' /\ ~wr_done'
    OBVIOUS
  <2>1. ~InnerClear /\ inner_cmd /= "start"
    BY <1>4, <1>6
  <2>2. wr_started /\ ~wr_done
    BY <1>5 DEF StartInv
  <2> QED BY <1>2, <1>3, <2>1, <2>2
<1>9. wr_state' /= "IDLE" => cur_addr' >= sst_base_offset'
  <2> SUFFICES ASSUME wr_state' /= "IDLE"
               PROVE  cur_addr' >= sst_base_offset'
    OBVIOUS
  <2>1. /\ cur_addr \in Nat /\ cur_addr' \in Nat /\ sst_base_offset \in Nat
        /\ running_offset \in Nat /\ BurstBeats \in Nat
    BY <1>1, WriterTypeStep, NBlockAssumption DEF PathType, FsmType
  <2>2. \/ wr_state /= "IDLE" /\ cur_addr' \in {cur_addr, cur_addr + BurstBeats}
        \/ cur_addr' = sst_base_offset + running_offset
    <3>1. ~InnerClear
      BY <1>4
    <3> QED BY <1>1, <3>1, <1>5 DEF WriterClock, WriterReset, WriterIdle, WriterAW, WriterW,
                            WriterB, current_dst_base_addr
  <2>3. cur_addr' >= sst_base_offset
    BY <2>1, <2>2 DEF StartInv
  <2>4. ~(wr_state = "IDLE" /\ ~wr_start)
    BY <1>5
  <2>5. state \notin {"ASSEMBLE", "SPLIT_ASM"}
    BY <2>4 DEF SettledInv, Settled, Quiet
  <2>6. sst_base_offset' \in {sst_base_offset, 0}
    BY <1>1, <2>5 DEF NBClock, NBClear, NBIdle, NBPop, NBClearState, NBStart, NBWaitError,
          NBWaitOn, NBEncodedLast, NBEncodedMore, NBWaitWrite, NBPipeRestart, NBAssemble,
          NBSplitReset, outVars
  <2> QED BY <2>1, <2>3, <2>6
<1> QED BY <1>2, <1>7, <1>8, <1>9 DEF StartInv

-----------------------------------------------------------------------------
(* The encoder.                                                            *)

LEMMA EncoderEffect ==
    ASSUME NEW in, EncoderClock(in)
    PROVE  /\ FrontReset =>
                /\ enc' = "IDLE" /\ ~enc_done' /\ ~front_error'
                /\ UNCHANGED <<enc_left, enc_size, enc_of>>
           /\ inner_cmd \in {"start", "front_start"} =>
                /\ enc' = "RUN" /\ ~enc_done' /\ front_error' = front_error
                /\ enc_size' \in BlockBeats /\ enc_left' = enc_size'
                /\ enc_of' = <<runs, current>>
           /\ Emitting(in) =>
                /\ enc = "RUN" /\ front_error' = front_error
                /\ enc_left' = enc_left - 1
                /\ enc' = IF enc_left = 1 THEN "IDLE" ELSE "RUN"
                /\ enc_done' <=> enc_left = 1
                /\ UNCHANGED <<enc_size, enc_of>>
           /\ inner_cmd = "none" /\ ~Emitting(in) =>
                /\ ~enc_done'
                /\ UNCHANGED <<enc_left, enc_size, enc_of>>
                /\ \/ enc' = enc /\ front_error' = front_error
                   \/ enc = "RUN" /\ enc' = "IDLE" /\ front_error'
<1>1. CASE EncoderReset
  <2>1. ~enc_done' /\ ~front_error'
    BY <1>1, Zenon DEF EncoderReset
  <2>2. inner_cmd \in {"clear", "front_clear"}
    BY <1>1 DEF EncoderReset, FrontReset
  <2> QED BY <1>1, <2>1, <2>2 DEF EncoderReset, Emitting
<1>2. CASE EncoderStart
  <2>1. ~enc_done'
    BY <1>2, Zenon DEF EncoderStart
  <2> QED BY <1>2, <2>1 DEF EncoderStart, Emitting, FrontReset
<1>3. CASE EncoderWait /\ ~(in = "go" /\ CanEmit)
  <2>1. ~enc_done'
    BY <1>3, Zenon DEF EncoderWait
  <2> QED BY <1>3, <2>1 DEF EncoderWait, Emitting, FrontReset
<1>4. CASE in = "go" /\ EncoderEmit
  <2>1. enc_done' <=> enc_left = 1
    BY <1>4, Zenon DEF EncoderEmit
  <2> QED BY <1>4, <2>1 DEF EncoderEmit, Emitting, FrontReset, CanEmit
<1>5. CASE in = "fault" /\ EncoderFault
  <2>1. ~enc_done' /\ front_error'
    BY <1>5, Zenon DEF EncoderFault
  <2> QED BY <1>5, <2>1 DEF EncoderFault, Emitting, FrontReset
<1> QED BY <1>1, <1>2, <1>3, <1>4, <1>5 DEF EncoderClock

\* What is quiet stays quiet unless the chain is started.
LEMMA QuietStep ==
    ASSUME FsmType, PathType, Quiet, inner_cmd \notin {"start", "front_start"},
           NEW cmd, NEW inDesc, NEW inEnc, NEW inPipe, NEW axi,
           Tick(cmd, inDesc, inEnc, inPipe, axi)
    PROVE  Quiet'
<1>1. /\ EncoderClock(inEnc) /\ PipeClock(inEnc, inPipe, axi) /\ StartClock
      /\ WriterClock(axi)
  BY DEF Tick
<1>2. inner_cmd \in {"none", "clear", "front_clear"}
  BY DEF FsmType, Commands
<1>3. ~Emitting(inEnc)
  BY DEF Quiet, Emitting, CanEmit
<1>4. enc' = "IDLE" /\ ~enc_done'
  BY <1>1, <1>2, <1>3, EncoderEffect DEF FrontReset, Quiet
<1>5. ~Arrives(inPipe) /\ ~TakeBeat(axi)
  BY DEF Quiet, Arrives, TakeBeat
<1>6. pipe' = <<>> /\ write_beat' = <<>>
  BY <1>1, <1>3, <1>5 DEF PipeClock, Quiet
<1>7. wr_state' = "IDLE"
  BY <1>1 DEF Quiet, WriterClock, WriterReset, WriterIdle, WriterAW, WriterW, WriterB
<1>8. ~FirstBeat
  BY DEF FirstBeat, Quiet
<1>9. ~wr_start'
  BY <1>1, <1>8, StartEffect
<1> QED BY <1>4, <1>6, <1>7, <1>9 DEF Quiet

\* A clear empties chain, pipe and write engine.
LEMMA ClearEffect ==
    ASSUME InnerClear, NEW cmd, NEW inDesc, NEW inEnc, NEW inPipe, NEW axi,
           Tick(cmd, inDesc, inEnc, inPipe, axi)
    PROVE  Quiet' /\ ~front_error' /\ ~wr_error' /\ asm' = "IDLE"
<1>1. enc' = "IDLE" /\ ~enc_done' /\ ~front_error'
  BY EncoderEffect DEF Tick, FrontReset, InnerClear
<1>2. pipe' = <<>> /\ write_beat' = <<>>
  BY DEF Tick, PipeClock
<1>3. wr_state' = "IDLE"
  BY DEF Tick, WriterClock, WriterReset, WriterIdle, WriterAW, WriterW, WriterB
<1>4. ~wr_start'
  BY StartEffect DEF Tick
<1>5. ~wr_error'
  BY WriterFlags DEF Tick
<1>6. asm' = "IDLE"
  BY DEF Tick, AsmClock, AsmWrites
<1> QED BY <1>1, <1>2, <1>3, <1>4, <1>5, <1>6 DEF Quiet

-----------------------------------------------------------------------------
(* The moves of the FSM between flowing and settled states.                *)

WaitsForWrite == state \in {"WAIT_LAST", "WAIT_SPLIT"}
WriteSeen == ~inner_error /\ (wr_done \/ wr_done_pending) /\ ~pipeline_wr_pending

LEMMA Moves ==
    ASSUME FsmType, FsmType', PairInv, PulseInv, NEW cmd, NEW in, NBClock(cmd, in)
    PROVE  /\ Flowing' => Flowing \/ (state = "START" /\ state' = "WAIT")
           /\ Settled' => Settled \/ (WaitsForWrite /\ WriteSeen)
           /\ asm_start' => WaitsForWrite /\ WriteSeen
           /\ Flowing' /\ state' /= "WAIT" =>
                state /= "WAIT" \/ (enc_done /\ ~inner_error)
           /\ Flowing' /\ state = "WAIT" => ~inner_error
           /\ WaitsForWrite /\ state' \in States \ {"IDLE"} => ~inner_error
           /\ Stale' => Stale \/ StartAccepted(cmd)
           /\ runs' = IF cmd /= "clear" /\ StartAccepted(cmd) THEN runs + 1 ELSE runs
<1> USE DEF Flowing, Settled, Stale, WaitsForWrite, WriteSeen
<1> USE DEF fileVars, runVars, outVars, descVars
<1>0. blocks_in_sst \in Nat
  BY DEF FsmType
<1>1. CASE cmd = "clear" /\ NBClear
  <2>1. ~asm_start'
    BY <1>1, Zenon DEF NBClear, NoAsmStart
  <2> QED BY <1>1, <2>1 DEF NBClear, StartAccepted
<1>2. CASE cmd /= "clear" /\ NBIdle(cmd)
  <2>1. ~asm_start'
    BY <1>2, Zenon DEF NBIdle, NoAsmStart
  <2>2. CASE cmd = "start" /\ ~busy
    BY <1>2, <2>1, <2>2 DEF NBIdle, StartAccepted
  <2>3. CASE ~(cmd = "start" /\ ~busy)
    BY <1>2, <2>1, <2>3 DEF NBIdle, StartAccepted
  <2> QED BY <2>2, <2>3
<1>3. CASE cmd /= "clear" /\ NBPop(in)
  <2>1. ~asm_start'
    BY <1>3, Zenon DEF NBPop, NoAsmStart
  <2>2. /\ state = "POP" /\ state' \in {"POP", IF pipeline_restart THEN "PIPE_RESTART" ELSE "CLEAR"}
        /\ blocks_in_sst' = blocks_in_sst /\ files' = files /\ runs' = runs
    BY <1>3 DEF NBPop
  <2>3. pipeline_restart <=> blocks_in_sst > 0
    BY <2>2 DEF PulseInv
  <2> QED BY <1>0, <2>1, <2>2, <2>3 DEF StartAccepted
<1>4. CASE cmd /= "clear" /\ (NBClearState \/ NBStart)
  <2>1. ~asm_start'
    BY <1>4, Zenon DEF NBClearState, NBStart, NoAsmStart
  <2> QED BY <1>4, <2>1 DEF NBClearState, NBStart, PulseInv, StartAccepted
<1>5. CASE cmd /= "clear" /\ NBPipeRestart
  <2>1. ~asm_start'
    BY <1>5, Zenon DEF NBPipeRestart, NoAsmStart
  <2> QED BY <1>5, <2>1 DEF NBPipeRestart, StartAccepted
<1>6. CASE cmd /= "clear" /\ NBSplitReset
  <2>1. ~asm_start'
    BY <1>6, Zenon DEF NBSplitReset, NoAsmStart
  <2> QED BY <1>6, <2>1 DEF NBSplitReset, StartAccepted, PairInv
<1>7. CASE cmd /= "clear" /\ NBAssemble
  <2>1. ~asm_start'
    BY <1>7, Zenon DEF NBAssemble, NoAsmStart
  <2>2. /\ state \in {"ASSEMBLE", "SPLIT_ASM"} /\ runs' = runs
        /\ state' \in {state, "IDLE", "SPLIT_RESET"}
    BY <1>7 DEF NBAssemble
  <2> QED BY <2>1, <2>2 DEF StartAccepted
<1>8. CASE cmd /= "clear" /\ (NBWaitError(in) \/ NBWaitOn(in))
  <2>1. ~asm_start'
    BY <1>8, Zenon DEF NBWaitError, NBWaitOn, NoAsmStart
  <2>2. /\ state = "WAIT" /\ runs' = runs
        /\ state' = "IDLE" \/ (state' = "WAIT" /\ ~inner_error)
    BY <1>8 DEF NBWaitError, NBWaitOn, InnerFails
  <2> QED BY <2>1, <2>2 DEF StartAccepted
<1>9. CASE cmd /= "clear" /\ (NBEncodedLast(in) \/ NBEncodedMore(in))
  <2>1. ~asm_start'
    BY <1>9, Zenon DEF NBEncodedLast, NBEncodedMore, NoAsmStart
  <2>2. /\ state = "WAIT" /\ runs' = runs /\ enc_done /\ ~inner_error
        /\ state' \in {"WAIT_LAST", "WAIT_SPLIT", "POP", "PIPE_RESTART"}
        /\ blocks_in_sst' = blocks_in_sst + 1
    BY <1>9 DEF NBEncodedLast, NBEncodedMore, RecordBlock
  <2> QED BY <1>0, <2>1, <2>2 DEF StartAccepted
<1>10. CASE cmd /= "clear" /\ NBWaitWrite
  <2>1. asm_start' => WriteSeen
    <3>1. CASE inner_error \/ ~(wr_done \/ wr_done_pending)
      <4>1. ~asm_start'
        BY <1>10, <3>1, Zenon DEF NBWaitWrite, NoAsmStart, InnerFails
      <4> QED BY <4>1
    <3>2. CASE ~(inner_error \/ ~(wr_done \/ wr_done_pending))
      <4>1. asm_start' = ~pipeline_wr_pending
        BY <1>10, <3>2 DEF NBWaitWrite, InnerFails
      <4>2. asm_start' <=> ~pipeline_wr_pending
        BY <4>1, Zenon
      <4> QED BY <3>2, <4>2
    <3> QED BY <3>1, <3>2
  <2>2. /\ WaitsForWrite /\ runs' = runs
        /\ state' = "IDLE" \/ (state' = state /\ ~inner_error)
             \/ (state' \in {"ASSEMBLE", "SPLIT_ASM"} /\ WriteSeen)
    BY <1>10 DEF NBWaitWrite, InnerFails
  <2> QED BY <2>1, <2>2 DEF StartAccepted
<1> QED BY <1>1, <1>2, <1>3, <1>4, <1>5, <1>6, <1>7, <1>8, <1>9, <1>10 DEF NBClock

\* The pulses into the chain.
LEMMA PulseMoves ==
    ASSUME NEW cmd, NEW in, NBClock(cmd, in)
    PROVE  /\ front_start_pending' =>
                state = "PIPE_RESTART" \/ (front_start_pending /\ inner_cmd' = "none")
           /\ inner_cmd' = "start" => state = "START"
           /\ inner_cmd' = "front_clear" => state = "PIPE_RESTART"
           /\ inner_cmd' = "front_start" => front_start_pending
<1> USE DEF PulseDefaults
<1>1. CASE cmd = "clear" /\ NBClear
  BY <1>1 DEF NBClear
<1>2. CASE NBPipeRestart
  BY <1>2 DEF NBPipeRestart
<1>3. CASE NBIdle(cmd) \/ NBPop(in) \/ NBClearState \/ NBStart \/ NBWaitError(in)
           \/ NBWaitOn(in) \/ NBEncodedLast(in) \/ NBEncodedMore(in) \/ NBWaitWrite
           \/ NBAssemble \/ NBSplitReset
  <2>1. ~front_start_pending'
    BY <1>3, Zenon DEF NBIdle, NBPop, NBClearState, NBStart, NBWaitError, NBWaitOn,
       NBEncodedLast, NBEncodedMore, NBWaitWrite, NBAssemble, NBSplitReset
  <2>2. /\ inner_cmd' = "start" => state = "START"
        /\ inner_cmd' /= "front_clear"
        /\ inner_cmd' = "front_start" => front_start_pending
    BY <1>3 DEF NBIdle, NBPop, NBClearState, NBStart, NBWaitError, NBWaitOn,
       NBEncodedLast, NBEncodedMore, NBWaitWrite, NBAssemble, NBSplitReset
  <2> QED BY <2>1, <2>2
<1> QED BY <1>1, <1>2, <1>3 DEF NBClock

\* When the FSM sees the last write of a file, nothing is left in the path.
LEMMA WriteSeenIsQuiet ==
    ASSUME FsmType, PathType, StartInv, SettledInv, FlowInv, WaitsForWrite, WriteSeen
    PROVE  Quiet
<1>1. Flowing /\ state /= "WAIT" /\ ~front_error
  BY DEF Flowing, WaitsForWrite, SettledInv
<1>2. /\ enc = "IDLE" /\ ~enc_done
      /\ Writing(Taken, running_offset, sst_base_offset)
      /\ ~pipeline_wr_pending /\ ~wr_done_pending
  BY <1>1 DEF FlowInv, WaitsForWrite, ChainOK, StreamOK, PendingOK
<1>3. wr_done
  BY <1>2 DEF WriteSeen
<1>4. wr_state = "IDLE" /\ ~wr_start
  BY <1>3 DEF StartInv
<1>5. Taken = running_offset
  BY <1>2, <1>4 DEF Writing
<1>6. Emitted = 0
  BY <1>1 DEF Emitted
<1>7. /\ pipe \in Seq(BeatRec) /\ write_beat \in Seq(BeatRec)
      /\ Len(pipe) \in Nat /\ Len(write_beat) \in Nat /\ running_offset \in Nat
  <2>1. pipe \in Seq(BeatRec) /\ write_beat \in Seq(BeatRec)
    BY DEF PathType
  <2>2. running_offset \in Nat
    BY DEF FsmType
  <2> QED BY ONLY <2>1, <2>2
<1>8. Len(pipe) = 0 /\ Len(write_beat) = 0
  BY <1>5, <1>6, <1>7 DEF Taken
<1> QED BY <1>2, <1>4, <1>7, <1>8 DEF Quiet

LEMMA SettledStep ==
    ASSUME FsmType, FsmType', PairInv, PulseInv, PathType, StartInv, SettledInv, FlowInv,
           NEW cmd, NEW inDesc, NEW inEnc, NEW inPipe, NEW axi,
           Tick(cmd, inDesc, inEnc, inPipe, axi)
    PROVE  SettledInv'
<1>0. /\ NBClock(cmd, inDesc) /\ EncoderClock(inEnc) /\ AsmClock(axi)
  BY DEF Tick
<1>1. /\ Flowing' => Flowing \/ (state = "START" /\ state' = "WAIT")
      /\ Settled' => Settled \/ (WaitsForWrite /\ WriteSeen)
      /\ asm_start' => WaitsForWrite /\ WriteSeen
      /\ Flowing' /\ state' /= "WAIT" => state /= "WAIT" \/ (enc_done /\ ~inner_error)
  BY <1>0, Moves
<1>2. /\ front_start_pending' =>
                state = "PIPE_RESTART" \/ (front_start_pending /\ inner_cmd' = "none")
      /\ inner_cmd' = "start" => state = "START"
      /\ inner_cmd' = "front_clear" => state = "PIPE_RESTART"
      /\ inner_cmd' = "front_start" => front_start_pending
  BY <1>0, PulseMoves
<1>3. WaitsForWrite /\ WriteSeen => Quiet
  BY WriteSeenIsQuiet
<1>4. ASSUME Quiet, inner_cmd \notin {"start", "front_start"} PROVE Quiet'
  BY <1>4, QuietStep
<1>5. Settled' => Quiet'
  <2>1. Settled => Quiet /\ inner_cmd \notin {"start", "front_start"}
    BY DEF SettledInv, Settled, PulseInv
  <2>2. WaitsForWrite => inner_cmd \notin {"start", "front_start"}
    BY DEF WaitsForWrite, PulseInv
  <2> QED BY <1>1, <1>3, <1>4, <2>1, <2>2
<1>6. /\ asm' = "RUN" => ~InnerClear /\ (asm_start \/ asm = "RUN")
      /\ InnerClear => asm' = "IDLE"
      /\ ~asm_start /\ asm = "IDLE" => asm' = "IDLE"
  BY <1>0, AsmEffect
<1>7. asm' = "RUN" \/ asm_start' =>
        Quiet' /\ ~front_start_pending' /\ inner_cmd' \in {"none", "clear"}
  <2> SUFFICES ASSUME asm' = "RUN" \/ asm_start'
               PROVE  Quiet' /\ ~front_start_pending' /\ inner_cmd' \in {"none", "clear"}
    OBVIOUS
  <2>1. /\ Quiet /\ ~front_start_pending /\ inner_cmd = "none"
        /\ state \notin {"START", "PIPE_RESTART"}
    <3>1. CASE asm' = "RUN"
      <4>1. /\ Quiet /\ ~front_start_pending /\ inner_cmd \in {"none", "clear"}
            /\ ~Flowing /\ ~InnerClear
        BY <1>6, <3>1 DEF SettledInv, PulseInv, Flowing
      <4> QED BY <4>1 DEF InnerClear, PulseInv, Flowing
    <3>2. CASE asm_start'
      <4>1. WaitsForWrite /\ Quiet
        BY <1>1, <1>3, <3>2
      <4>2. state \notin {"START", "PIPE_RESTART", "WAIT", "IDLE"}
        BY <4>1 DEF WaitsForWrite
      <4> QED BY <4>1, <4>2 DEF PulseInv, FsmType, Commands
    <3> QED BY <3>1, <3>2
  <2>2. Quiet'
    BY <1>4, <2>1
  <2>3. inner_cmd' \in Commands
    BY DEF FsmType
  <2> QED BY <1>2, <2>1, <2>2, <2>3 DEF Commands
<1>8. asm_start' \/ Flowing' => asm' = "IDLE"
  <2>1. asm_start' => Flowing
    BY <1>1 DEF WaitsForWrite, Flowing
  <2>2. Flowing => ~asm_start /\ asm = "IDLE"
    BY DEF SettledInv, PulseInv, Flowing
  <2>3. state = "START" => InnerClear
    BY DEF PulseInv, InnerClear
  <2> QED BY <1>1, <1>6, <2>1, <2>2, <2>3
<1>9. state' = "WAIT" /\ inner_cmd' = "start" => Quiet'
  <2>1. state = "START" => InnerClear
    BY DEF PulseInv, InnerClear
  <2> QED BY <1>2, <2>1, ClearEffect
<1>10. Flowing' /\ state' /= "WAIT" => ~front_error'
  <2> SUFFICES ASSUME Flowing', state' /= "WAIT" PROVE ~front_error'
    OBVIOUS
  <2>1. Flowing /\ (state /= "WAIT" \/ (enc_done /\ ~inner_error))
    BY <1>1
  <2>2. ~front_error
    BY <2>1 DEF SettledInv, inner_error
  <2>3. enc = "IDLE" /\ inner_cmd = "none"
    BY <2>1, <2>2 DEF FlowInv, ChainOK
  <2>4. ~Emitting(inEnc)
    BY <2>3 DEF Emitting, CanEmit
  <2> QED BY <1>0, <2>2, <2>3, <2>4, EncoderEffect
<1> QED BY <1>5, <1>7, <1>8, <1>9, <1>10 DEF SettledInv

LEMMA PendingMoves ==
    ASSUME NEW cmd, NEW in, NBClock(cmd, in), blocks_in_sst \in Nat, pipeline_wr_pending'
    PROVE  \/ pipeline_wr_pending /\ ~StartAccepted(cmd)
           \/ state' \in {"POP", "PIPE_RESTART"} /\ blocks_in_sst' > 0
<1>1. CASE cmd = "clear" /\ NBClear
  BY <1>1, Zenon DEF NBClear
<1>2. CASE NBIdle(cmd)
  <2>1. CASE cmd = "start" /\ ~busy
    BY <1>2, <2>1, Zenon DEF NBIdle
  <2>2. CASE ~(cmd = "start" /\ ~busy)
    <3>1. pipeline_wr_pending
      BY <1>2, <2>2, Zenon DEF NBIdle, PendingDefault
    <3> QED BY <2>2, <3>1 DEF StartAccepted
  <2> QED BY <2>1, <2>2
<1>3. CASE NBEncodedMore(in)
  <2>1. blocks_in_sst' > 0
    BY <1>3 DEF NBEncodedMore, RecordBlock
  <2> QED BY <1>3, <2>1 DEF NBEncodedMore
<1>4. CASE NBPop(in) \/ NBClearState \/ NBStart \/ NBWaitError(in) \/ NBWaitOn(in)
           \/ NBEncodedLast(in) \/ NBPipeRestart \/ NBAssemble \/ NBSplitReset
  <2>1. pipeline_wr_pending
    BY <1>4, Zenon DEF NBPop, NBClearState, NBStart, NBWaitError, NBWaitOn, NBEncodedLast,
       NBPipeRestart, NBAssemble, NBSplitReset, PendingDefault
  <2>2. state /= "IDLE"
    BY <1>4 DEF NBPop, NBClearState, NBStart, NBWaitError, NBWaitOn, NBEncodedLast,
       NBPipeRestart, NBAssemble, NBSplitReset
  <2> QED BY <2>1, <2>2 DEF StartAccepted
<1>5. CASE NBWaitWrite
  <2>1. pipeline_wr_pending
    BY <1>5, Zenon DEF NBWaitWrite, PendingDefault
  <2> QED BY <1>5, <2>1 DEF NBWaitWrite, StartAccepted
<1> QED BY <1>1, <1>2, <1>3, <1>4, <1>5 DEF NBClock

LEMMA NonePendingStep ==
    ASSUME FsmType, FsmType', PairInv, PulseInv, NonePending,
           NEW cmd, NEW in, NBClock(cmd, in)
    PROVE  NonePending'
<1> SUFFICES ASSUME Settled' \/ Stale', pipeline_wr_pending'
             PROVE  FALSE
  BY DEF NonePending
<1>1. /\ Settled' => Settled \/ (WaitsForWrite /\ WriteSeen)
      /\ Stale' => Stale \/ StartAccepted(cmd)
  BY Moves
<1>2. \/ pipeline_wr_pending /\ ~StartAccepted(cmd)
      \/ state' \in {"POP", "PIPE_RESTART"} /\ blocks_in_sst' > 0
  BY PendingMoves DEF FsmType
<1>3. blocks_in_sst' \in Nat
  BY DEF FsmType
<1>4. pipeline_wr_pending /\ ~StartAccepted(cmd)
  BY <1>2, <1>3 DEF Settled, Stale
<1> QED BY <1>1, <1>4 DEF NonePending, WriteSeen

-----------------------------------------------------------------------------
(* Beats of earlier runs.                                                  *)

BeatsUpTo(n, p, w) ==
    /\ \A k \in 1..Len(p) : p[k].run <= n
    /\ \A k \in 1..Len(w) : w[k].run <= n

LEMMA RunIsNat ==
    ASSUME NEW q \in Seq(BeatRec)
    PROVE  \A k \in 1..Len(q) : q[k].run \in Nat
<1>1. \A k \in 1..Len(q) : q[k] \in BeatRec
  OBVIOUS
<1> QED BY <1>1 DEF BeatRec

LEMMA BeatsStep ==
    ASSUME FsmType, PathType, NEW n \in Int, BeatsUpTo(n, pipe, write_beat), enc_of[1] <= n,
           NEW inEnc, NEW inPipe, NEW axi, PipeClock(inEnc, inPipe, axi)
    PROVE  BeatsUpTo(n, pipe', write_beat')
<1> DEFINE b == Beat(enc_size - enc_left + 1, enc_size)
           l == Len(pipe)
<1>1. CASE InnerClear
  <2>1. pipe' = <<>> /\ write_beat' = <<>>
    BY <1>1 DEF PipeClock
  <2> QED BY <2>1 DEF BeatsUpTo
<1>2. CASE ~InnerClear
  <2>0. pipe \in Seq(BeatRec) /\ l \in Nat /\ b.run <= n
    BY BeatType DEF PathType
  <2>1. /\ pipe' \in Seq(BeatRec) /\ write_beat' \in Seq(BeatRec)
        /\ Emitting(inEnc) /\ Arrives(inPipe) =>
             /\ Len(pipe') = l
             /\ \A k \in 1..l - 1 : pipe'[k] = pipe[k + 1]
             /\ pipe'[l] = b
        /\ Emitting(inEnc) /\ ~Arrives(inPipe) =>
             /\ Len(pipe') = l + 1
             /\ \A k \in 1..l : pipe'[k] = pipe[k]
             /\ pipe'[l + 1] = b
        /\ ~Emitting(inEnc) /\ Arrives(inPipe) =>
             /\ Len(pipe') = l - 1
             /\ \A k \in 1..l - 1 : pipe'[k] = pipe[k + 1]
        /\ ~Emitting(inEnc) /\ ~Arrives(inPipe) => pipe' = pipe
        /\ Arrives(inPipe) => l >= 1 /\ write_beat' = <<pipe[1]>>
        /\ TakeBeat(axi) => ~Arrives(inPipe) /\ write_beat' = <<>>
        /\ ~TakeBeat(axi) /\ ~Arrives(inPipe) => write_beat' = write_beat
    BY <1>2, PipeEffect
  <2>2. \A k \in 1..l : pipe[k].run <= n
    BY DEF BeatsUpTo
  <2> HIDE DEF b, l
  <2>3. \A k \in 1..Len(pipe') : pipe'[k] = b \/ \E j \in 1..l : pipe'[k] = pipe[j]
    <3>1. CASE Arrives(inPipe)
      <4>1. \A k \in 1..l - 1 : k + 1 \in 1..l
        BY <2>0
      <4>2. \A k \in 1..l : k \in 1..l - 1 \/ k = l
        BY <2>0
      <4> QED BY <2>1, <3>1, <4>1, <4>2
    <3>2. CASE ~Arrives(inPipe)
      <4>1. \A k \in 1..l + 1 : k \in 1..l \/ k = l + 1
        BY <2>0
      <4> QED BY <2>1, <3>2, <4>1 DEF l
    <3> QED BY <3>1, <3>2
  <2>4. \A k \in 1..Len(pipe') : pipe'[k].run <= n
    BY <2>0, <2>2, <2>3
  <2>5. \A k \in 1..Len(write_beat') : write_beat'[k].run <= n
    <3>1. CASE Arrives(inPipe)
      <4> DEFINE q == pipe[1]
      <4>1. write_beat' = <<q>> /\ q.run <= n
        BY <2>0, <2>1, <2>2, <3>1
      <4> HIDE DEF q
      <4> QED BY <4>1
    <3>2. CASE TakeBeat(axi)
      BY <2>1, <3>2
    <3>3. CASE ~TakeBeat(axi) /\ ~Arrives(inPipe)
      BY <2>1, <3>3 DEF BeatsUpTo
    <3> QED BY <3>1, <3>2, <3>3
  <2> QED BY <2>4, <2>5 DEF BeatsUpTo
<1> QED BY <1>1, <1>2

LEMMA StaleStep ==
    ASSUME FsmType, FsmType', PairInv, PulseInv, PathType, StaleInv, SettledInv, RunBeats,
           NEW cmd, NEW inDesc, NEW inEnc, NEW inPipe, NEW axi,
           Tick(cmd, inDesc, inEnc, inPipe, axi)
    PROVE  StaleInv' /\ RunBeats'
<1>0. /\ NBClock(cmd, inDesc) /\ EncoderClock(inEnc) /\ MemClock(cmd, axi)
      /\ PipeClock(inEnc, inPipe, axi) /\ RecordFailure(cmd, axi)
  BY DEF Tick
<1>1. /\ runs \in Nat /\ runs' \in Nat /\ enc_of[1] \in Nat /\ enc_of[1] <= runs
      /\ current \in Nat
  BY DEF FsmType, PathType
<1>2. /\ Stale' => Stale \/ StartAccepted(cmd)
      /\ runs' = IF cmd /= "clear" /\ StartAccepted(cmd) THEN runs + 1 ELSE runs
  BY <1>0, Moves
<1>3. BeatsUpTo(runs, pipe', write_beat')
  <2>1. BeatsUpTo(runs, pipe, write_beat)
    BY DEF RunBeats, BeatsUpTo
  <2> QED BY <1>0, <1>1, <2>1, BeatsStep
<1>4. runs <= runs'
  BY <1>1, <1>2
<1>a. pipe' \in Seq(BeatRec) /\ write_beat' \in Seq(BeatRec)
  <2>1. CASE InnerClear
    BY <1>0, <2>1 DEF PipeClock
  <2>2. CASE ~InnerClear
    BY <1>0, <2>2, PipeEffect
  <2> QED BY <2>1, <2>2
<1>b. /\ \A k \in 1..Len(pipe') : pipe'[k].run \in Nat
      /\ \A k \in 1..Len(write_beat') : write_beat'[k].run \in Nat
  BY <1>a, RunIsNat
<1>5. RunBeats'
  BY <1>1, <1>3, <1>4, <1>b DEF RunBeats, BeatsUpTo
<1>6. ASSUME StartAccepted(cmd) PROVE StaleInv'
  <2>1. runs' = runs + 1
    BY <1>2, <1>6 DEF StartAccepted
  <2>2. ~write_failed'
    BY <1>0, <1>6, Zenon DEF RecordFailure
  <2>3. enc_of' = enc_of \/ enc_of' = <<runs, current>>
    BY <1>0 DEF EncoderClock, EncoderReset, EncoderStart, EncoderWait, EncoderEmit, EncoderFault
  <2>4. enc_of'[1] \in Nat /\ enc_of'[1] <= runs
    BY <1>1, <2>3
  <2>5. \A a \in 0..MemBeats - 1 : mem'[a] = Old
    BY <1>0, <1>6, MemEffect
  <2>6. mem' = [a \in 0..MemBeats - 1 |-> mem'[a]]
    BY <1>0, MemEffect
  <2>7. \A a \in DOMAIN mem' : mem'[a] = Old
    BY <2>5, <2>6 DEF Old
  <2>8. enc_of'[1] < runs'
    BY <1>1, <2>1, <2>4
  <2>9. /\ \A k \in 1..Len(pipe') : pipe'[k].run < runs'
        /\ \A k \in 1..Len(write_beat') : write_beat'[k].run < runs'
    BY <1>1, <1>3, <1>b, <2>1 DEF BeatsUpTo
  <2> QED BY <2>2, <2>7, <2>8, <2>9 DEF StaleInv, Old
<1>7. ASSUME Stale, ~StartAccepted(cmd), Stale' PROVE StaleInv'
  <2>1. state \in {"POP", "CLEAR", "START"} /\ state' \in {"POP", "CLEAR", "START"}
    BY <1>7 DEF Stale
  <2>2. state /= "START"
    BY <1>0, <2>1 DEF NBClock, NBClear, NBIdle, NBPop, NBClearState, NBStart, NBWaitError,
         NBWaitOn, NBEncodedLast, NBEncodedMore, NBWaitWrite, NBPipeRestart, NBAssemble,
         NBSplitReset
  <2>3. inner_cmd = "none" /\ ~InnerClear /\ runs' = runs
    BY <1>2, <1>7, <2>1, <2>2 DEF PulseInv, FsmType, Commands, InnerClear
  <2>4. enc_of' = enc_of
    BY <1>0, <2>3 DEF EncoderClock, EncoderReset, EncoderStart, EncoderWait, EncoderEmit,
                      EncoderFault
  <2>5. /\ ~write_failed /\ enc_of[1] < runs
        /\ \A k \in 1..Len(pipe) : pipe[k].run < runs
        /\ \A k \in 1..Len(write_beat) : write_beat[k].run < runs
        /\ Quiet \/ \A a \in DOMAIN mem : mem[a] = Old
    BY <1>7 DEF StaleInv
  <2>6. BeatsUpTo(runs - 1, pipe', write_beat')
    <3>1. /\ \A k \in 1..Len(pipe) : pipe[k].run \in Nat
          /\ \A k \in 1..Len(write_beat) : write_beat[k].run \in Nat
      BY RunIsNat DEF PathType
    <3>2. BeatsUpTo(runs - 1, pipe, write_beat) /\ enc_of[1] <= runs - 1
      BY <1>1, <2>5, <3>1 DEF BeatsUpTo
    <3>3. runs - 1 \in Int
      BY <1>1
    <3> QED BY <1>0, <3>2, <3>3, BeatsStep
  <2>7. /\ \A k \in 1..Len(pipe') : pipe'[k].run < runs
        /\ \A k \in 1..Len(write_beat') : write_beat'[k].run < runs
    BY <1>1, <1>b, <2>6 DEF BeatsUpTo
  <2>8. CASE Quiet
    <3>1. Quiet'
      BY <2>3, <2>8, QuietStep
    <3>2. ~write_failed'
      <4>1. wr_state /= "B"
        BY <2>8 DEF Quiet
      <4> QED BY <1>0, <1>7, <2>5, <4>1, Zenon DEF RecordFailure
    <3> QED BY <2>3, <2>4, <2>5, <2>7, <3>1, <3>2 DEF StaleInv
  <2>9. CASE ~Quiet
    <3>1. \A a \in DOMAIN mem : mem[a] = Old
      BY <2>5, <2>9
    <3>2. ~AsmWrites(axi)
      BY <2>9 DEF SettledInv, AsmWrites
    <3>3. TakeBeat(axi) => BeatWritten = Old
      <4> SUFFICES ASSUME TakeBeat(axi) PROVE BeatWritten = Old
        OBVIOUS
      <4>1. write_beat /= <<>> /\ write_beat \in Seq(BeatRec)
        BY DEF TakeBeat, PathType
      <4>2. Len(write_beat) >= 1 /\ Head(write_beat) = write_beat[1]
            /\ write_beat[1] \in BeatRec /\ 1 \in 1..Len(write_beat)
        BY <4>1
      <4>3. Head(write_beat).run < runs /\ Head(write_beat).run \in Nat
        BY <2>5, <4>2 DEF BeatRec
      <4>4. Head(write_beat).run /= runs
        BY <1>1, <4>3
      <4> QED BY <4>4 DEF BeatWritten
    <3>4. DOMAIN mem = 0..MemBeats - 1
      BY DEF PathType
    <3>5. ASSUME NEW a \in 0..MemBeats - 1 PROVE mem'[a] = Old
      <4>1. CASE TakeBeat(axi) /\ a = cur_addr + burst_index
        BY <1>0, <1>7, <2>3, <3>3, <4>1, MemEffect
      <4>2. CASE ~(TakeBeat(axi) /\ a = cur_addr + burst_index)
        <5>1. mem'[a] = mem[a]
          BY <1>0, <1>7, <3>2, <4>2, MemEffect
        <5> QED BY <3>1, <3>4, <5>1
      <4> QED BY <4>1, <4>2
    <3>6. mem' = [a \in 0..MemBeats - 1 |-> mem'[a]]
      BY <1>0, MemEffect
    <3>7. \A a \in DOMAIN mem' : mem'[a] = Old
      BY <3>5, <3>6
    <3>8. ~OwnWrite
      BY <3>1 DEF OwnWrite
    <3>9. ~write_failed'
      BY <1>0, <1>7, <2>5, <3>8, Zenon DEF RecordFailure
    <3> QED BY <2>3, <2>4, <2>5, <2>7, <3>7, <3>9 DEF StaleInv
  <2> QED BY <2>8, <2>9
<1>8. ~Stale' => StaleInv'
  BY DEF StaleInv
<1> QED BY <1>2, <1>5, <1>6, <1>7, <1>8

-----------------------------------------------------------------------------
(* The write engine follows the stream.                                    *)

LEMMA BeatFields ==
    ASSUME NEW run, NEW blk, NEW i, NEW n
    PROVE  /\ BeatOf(run, blk, i, n).run = run
           /\ BeatOf(run, blk, i, n).blk = blk
           /\ BeatOf(run, blk, i, n).idx = i
           /\ BeatOf(run, blk, i, n).last <=> i = n
<1>1. BeatOf(run, blk, i, n).last = (i = n)
  BY DEF BeatOf
<1>2. BeatOf(run, blk, i, n).last <=> i = n
  BY <1>1, Zenon
<1> QED BY <1>2 DEF BeatOf

\* t: the beat the write engine is about to write, u: the one after this edge.
LEMMA WriterEffect ==
    ASSUME FsmType, PathType, ~InnerClear, NEW axi, WriterClock(axi),
           NEW t \in Nat, Writing(t, running_offset, sst_base_offset),
           NEW u \in Nat, u = IF TakeBeat(axi) THEN t + 1 ELSE t
    PROVE  /\ TakeBeat(axi) => cur_addr + burst_index = sst_base_offset + t
           /\ wr_state' = "IDLE" =>
                u = t /\ ~TakeBeat(axi)
                /\ (wr_state = "IDLE" \/ (wr_state = "B" /\ stream_last_seen))
           /\ wr_state' = "AW" => cur_addr' = sst_base_offset + u /\ ~stream_last_seen'
           /\ wr_state' = "W" => /\ cur_addr' + burst_index' = sst_base_offset + u
                                 /\ ~stream_last_seen' /\ burst_index' < BurstBeats
           /\ wr_state' = "B" /\ stream_last_seen' =>
                \/ wr_state = "B" /\ stream_last_seen /\ u = t
                \/ TakeBeat(axi) /\ Head(write_beat).last
           /\ wr_state' = "B" /\ ~stream_last_seen' =>
                cur_addr' + BurstBeats = sst_base_offset + u
           /\ TakeBeat(axi) /\ Head(write_beat).last => wr_state' = "B" /\ stream_last_seen'
           /\ wr_state = "B" /\ stream_last_seen =>
                \/ wr_state' = "B" /\ stream_last_seen'
                \/ wr_state' = "IDLE" /\ wr_done'
           /\ TakeBeat(axi) => wr_state = "W"
<1>0. /\ cur_addr \in Nat /\ burst_index \in Nat /\ sst_base_offset \in Nat
      /\ running_offset \in Nat
  BY DEF PathType, FsmType
<1>a. BurstBeats \in Nat /\ BurstBeats > 0
  BY NBlockAssumption
<1>1. u = IF TakeBeat(axi) THEN t + 1 ELSE t
  OBVIOUS
<1>2. TakeBeat(axi) => wr_state = "W"
  BY DEF TakeBeat
<1>3. TakeBeat(axi) => cur_addr + burst_index = sst_base_offset + t
  BY <1>2 DEF Writing
<1>4. CASE WriterIdle
  <2>1. wr_state = "IDLE" /\ u = t /\ t = running_offset /\ ~TakeBeat(axi)
    BY <1>1, <1>2, <1>4 DEF WriterIdle, Writing
  <2>2. CASE ~wr_start
    <3>1. wr_state' = "IDLE"
      BY <1>4, <2>1, <2>2 DEF WriterIdle
    <3>2. wr_state' /= "AW" /\ wr_state' /= "W" /\ wr_state' /= "B" /\ wr_state /= "B"
      BY <2>1, <3>1
    <3>3. wr_state' = "IDLE" =>
                u = t /\ ~TakeBeat(axi)
                /\ (wr_state = "IDLE" \/ (wr_state = "B" /\ stream_last_seen))
      BY <2>1
    <3>4. ~TakeBeat(axi)
      BY <2>1
    <3> QED BY <3>1, <3>2, <3>3, <3>4
  <2>3. CASE wr_start
    <3>1. wr_state' = "AW" /\ cur_addr' = sst_base_offset + u
      BY <1>4, <2>1, <2>3 DEF WriterIdle, current_dst_base_addr
    <3>2. ~stream_last_seen'
      BY <1>4, <2>3, Zenon DEF WriterIdle
    <3> QED BY <2>1, <3>1, <3>2
  <2> QED BY <2>2, <2>3
<1>5. CASE WriterAW(axi)
  <2>1. /\ wr_state = "AW" /\ u = t /\ ~TakeBeat(axi) /\ wr_state' \in {"AW", "W"}
        /\ burst_index' = 0 /\ cur_addr' = cur_addr /\ stream_last_seen' = stream_last_seen
        /\ cur_addr = sst_base_offset + t /\ ~stream_last_seen
    BY <1>1, <1>2, <1>5 DEF WriterAW, Writing
  <2>2. cur_addr' + burst_index' = sst_base_offset + u /\ burst_index' < BurstBeats
    BY <1>0, <1>a, <2>1
  <2> QED BY <2>1, <2>2
<1>6. CASE WriterW(axi)
  <2>1. /\ wr_state = "W" /\ cur_addr' = cur_addr
        /\ cur_addr + burst_index = sst_base_offset + t
        /\ ~stream_last_seen /\ burst_index < BurstBeats
    BY <1>6 DEF WriterW, Writing
  <2>2. CASE ~TakeBeat(axi)
    <3>1. wr_state' = "W" /\ burst_index' = burst_index /\ stream_last_seen' = stream_last_seen
      BY <1>6, <2>1, <2>2 DEF WriterW
    <3> QED BY <1>1, <2>1, <2>2, <3>1
  <2>3. CASE TakeBeat(axi)
    <3>1. /\ stream_last_seen' = Head(write_beat).last /\ burst_index' = burst_index + 1
          /\ wr_state' = IF Head(write_beat).last \/ burst_index + 1 = BurstBeats
                         THEN "B" ELSE "W"
      BY <1>6, <2>3 DEF WriterW
    <3>2. u = t + 1
      BY <1>1, <2>3
    <3>3. CASE Head(write_beat).last
      BY <2>1, <2>3, <3>1, <3>3
    <3>4. CASE ~Head(write_beat).last
      BY <1>0, <1>a, <2>1, <2>3, <3>1, <3>2, <3>4
    <3> QED BY <3>3, <3>4
  <2> QED BY <2>2, <2>3
<1>7. CASE WriterB(axi)
  <2>1. /\ wr_state = "B" /\ stream_last_seen' = stream_last_seen /\ u = t /\ ~TakeBeat(axi)
        /\ (~stream_last_seen => cur_addr + BurstBeats = sst_base_offset + t)
    BY <1>1, <1>2, <1>7 DEF WriterB, Writing
  <2>2. \/ wr_state' = "B" /\ cur_addr' = cur_addr
        \/ /\ cur_addr' = cur_addr + BurstBeats /\ wr_done' = stream_last_seen
           /\ wr_state' = IF stream_last_seen THEN "IDLE" ELSE "AW"
    BY <1>7, <2>1 DEF WriterB
  <2> QED BY <2>1, <2>2
<1>8. CASE WriterReset
  BY <1>8 DEF WriterReset
<1> QED BY <1>4, <1>5, <1>6, <1>7, <1>8 DEF WriterClock

-----------------------------------------------------------------------------
(* One clock edge between two flowing states.                              *)

LEMMA FlowMoves ==
    ASSUME FsmType, FsmType', PairInv, PulseInv, NEW cmd, NEW in, NBClock(cmd, in),
           Flowing, Flowing'
    PROVE  /\ sst_base_offset' = sst_base_offset /\ runs' = runs
           /\ state = "WAIT" /\ state' /= "WAIT" =>
                /\ enc_done /\ ~inner_error /\ RecordBlock
                /\ WaitsForWrite' =>
                     /\ pipeline_wr_pending' => pipeline_wr_pending
                     /\ wr_done_pending' = wr_done
           /\ state = "WAIT" /\ state' = "WAIT" =>
                /\ ~enc_done /\ ~inner_error /\ current' = current
                /\ front_start_pending => inner_cmd' = "front_start"
           /\ state /= "WAIT" /\ state' = "WAIT" =>
                inner_cmd' = "front_clear" /\ inner_cmd = "none"
           /\ ~(state = "WAIT" /\ state' /= "WAIT") =>
                /\ running_offset' = running_offset /\ blocks_in_sst' = blocks_in_sst
                /\ meta' = meta
                /\ pipeline_wr_pending' => pipeline_wr_pending /\ ~wr_done
                /\ WaitsForWrite' => WaitsForWrite
                /\ WaitsForWrite' /\ ~wr_done_pending => ~wr_done_pending'
<1> USE DEF fileVars, runVars, outVars, descVars, PulseDefaults, PendingDefault, WaitsForWrite
<1>0. state \in {"WAIT", "WAIT_LAST", "WAIT_SPLIT", "PIPE_RESTART", "POP"}
      /\ state' \in {"WAIT", "WAIT_LAST", "WAIT_SPLIT", "PIPE_RESTART", "POP"}
  BY DEF Flowing
<1>1. CASE NBPop(in)
  <2>1. state = "POP" /\ pipeline_wr_pending' = (pipeline_wr_pending /\ ~wr_done)
        /\ state' \in {"POP", "PIPE_RESTART"}
    BY <1>0, <1>1 DEF NBPop
  <2>2. pipeline_wr_pending' => pipeline_wr_pending /\ ~wr_done
    BY <2>1, Zenon
  <2> QED BY <1>1, <2>1, <2>2 DEF NBPop
<1>2. CASE NBPipeRestart
  <2>1. pipeline_wr_pending' = (pipeline_wr_pending /\ ~wr_done)
    BY <1>2 DEF NBPipeRestart
  <2>2. pipeline_wr_pending' => pipeline_wr_pending /\ ~wr_done
    BY <2>1, Zenon
  <2>3. state = "PIPE_RESTART" /\ inner_cmd = "none"
    BY <1>2 DEF NBPipeRestart, PulseInv, FsmType, Commands
  <2> QED BY <1>2, <2>2, <2>3 DEF NBPipeRestart
<1>3. CASE NBWaitOn(in)
  <2>1. pipeline_wr_pending' = (pipeline_wr_pending /\ ~wr_done)
    BY <1>3 DEF NBWaitOn
  <2>2. pipeline_wr_pending' => pipeline_wr_pending /\ ~wr_done
    BY <2>1, Zenon
  <2> QED BY <1>3, <2>2 DEF NBWaitOn
<1>4. CASE NBEncodedLast(in)
  <2>1. pipeline_wr_pending' = (pipeline_wr_pending /\ ~wr_done)
    BY <1>4 DEF NBEncodedLast
  <2>2. pipeline_wr_pending' => pipeline_wr_pending /\ ~wr_done
    BY <2>1, Zenon
  <2>3. state = "WAIT" /\ state' \in {"WAIT_LAST", "WAIT_SPLIT"}
    BY <1>4 DEF NBEncodedLast
  <2> QED BY <1>4, <2>2, <2>3 DEF NBEncodedLast
<1>5. CASE NBEncodedMore(in)
  <2>1. state = "WAIT" /\ state' \in {"POP", "PIPE_RESTART"}
    BY <1>5 DEF NBEncodedMore
  <2> QED BY <1>5, <2>1 DEF NBEncodedMore
<1>6. CASE NBWaitWrite
  <2>1. state \in {"WAIT_LAST", "WAIT_SPLIT"} /\ state' = state
    BY <1>0, <1>6 DEF NBWaitWrite, InnerFails
  <2>2. \/ pipeline_wr_pending' = (pipeline_wr_pending /\ ~wr_done) /\ wr_done_pending' = wr_done_pending
        \/ pipeline_wr_pending' = FALSE /\ wr_done_pending' = FALSE
    BY <1>6 DEF NBWaitWrite
  <2>3. pipeline_wr_pending' => pipeline_wr_pending /\ ~wr_done
    <3>1. CASE pipeline_wr_pending' = (pipeline_wr_pending /\ ~wr_done)
      BY <3>1, Zenon
    <3>2. CASE pipeline_wr_pending' = FALSE
      BY <3>2, Zenon
    <3> QED BY <2>2, <3>1, <3>2
  <2>4. ~wr_done_pending => ~wr_done_pending'
    <3>1. CASE wr_done_pending' = wr_done_pending
      BY <3>1
    <3>2. CASE wr_done_pending' = FALSE
      BY <3>2, Zenon
    <3> QED BY <2>2, <3>1, <3>2
  <2> QED BY <1>6, <2>1, <2>3, <2>4 DEF NBWaitWrite
<1>7. CASE NBWaitError(in) \/ NBIdle(cmd) \/ NBClearState \/ NBStart \/ NBAssemble \/ NBSplitReset
           \/ (cmd = "clear" /\ NBClear)
  BY <1>0, <1>7 DEF NBWaitError, InnerFails, NBIdle, NBClearState, NBStart, NBAssemble,
     NBSplitReset, NBClear
<1> QED BY <1>1, <1>2, <1>3, <1>4, <1>5, <1>6, <1>7 DEF NBClock

\* The encoder's side of an edge, and how many beats it has emitted then.
LEMMA ChainStep ==
    ASSUME FsmType, FsmType', PathType, PairInv, PulseInv, PulseInv', ChainOK,
           Flowing, Flowing', ~front_error',
           NEW cmd, NEW inDesc, NEW inEnc, NEW inPipe, NEW axi,
           Tick(cmd, inDesc, inEnc, inPipe, axi)
    PROVE  /\ ChainOK'
           /\ Emitted \in Nat /\ Emitted' \in Nat
           /\ Emitting(inEnc) =>
                /\ state = "WAIT" /\ enc = "RUN" /\ Emitted = enc_size - enc_left
                /\ enc_of = <<runs, current>>
           /\ state = "WAIT" /\ state' /= "WAIT" =>
                ~Emitting(inEnc) /\ Emitted = enc_size /\ Emitted' = 0
           /\ ~(state = "WAIT" /\ state' /= "WAIT") =>
                Emitted' = Emitted + (IF Emitting(inEnc) THEN 1 ELSE 0)
           /\ Emitted > 0 \/ Emitting(inEnc) => enc_size' = enc_size /\ state = "WAIT"
           /\ state = "WAIT" /\ state' = "WAIT" /\ Emitted > 0 => Emitted < enc_size
<1>0. NBClock(cmd, inDesc) /\ EncoderClock(inEnc) /\ PipeClock(inEnc, inPipe, axi)
  BY DEF Tick
<1>1. /\ runs' = runs
      /\ state = "WAIT" /\ state' /= "WAIT" => enc_done
      /\ state = "WAIT" /\ state' = "WAIT" =>
           /\ ~enc_done /\ current' = current
           /\ front_start_pending => inner_cmd' = "front_start"
      /\ state /= "WAIT" /\ state' = "WAIT" => inner_cmd' = "front_clear"
  BY <1>0, FlowMoves
<1>2. enc_size \in Nat /\ enc_left \in Nat /\ enc_left <= enc_size
      /\ (enc = "RUN" => enc_left >= 1) /\ enc \in {"IDLE", "RUN"}
  BY DEF PathType
<1>3. inner_cmd \in {"none", "start", "front_start", "front_clear"}
  BY DEF FsmType, Commands, PulseInv, Flowing
<1>4. /\ inner_cmd = "front_clear" => enc' = "IDLE" /\ ~enc_done'
      /\ inner_cmd \in {"start", "front_start"} =>
                /\ enc' = "RUN" /\ ~enc_done'
                /\ enc_size' \in BlockBeats /\ enc_left' = enc_size'
                /\ enc_of' = <<runs, current>>
      /\ Emitting(inEnc) =>
                /\ enc = "RUN" /\ enc_left' = enc_left - 1
                /\ enc' = IF enc_left = 1 THEN "IDLE" ELSE "RUN"
                /\ enc_done' <=> enc_left = 1
                /\ enc_size' = enc_size /\ enc_of' = enc_of
      /\ inner_cmd = "none" /\ ~Emitting(inEnc) =>
                /\ ~enc_done'
                /\ enc_left' = enc_left /\ enc_size' = enc_size /\ enc_of' = enc_of
                /\ enc' = enc
  BY <1>0, EncoderEffect DEF FrontReset
<1>5. Emitting(inEnc) => inner_cmd = "none" /\ enc = "RUN"
  BY DEF Emitting, CanEmit
<1>6. enc_size' \in BlockBeats => enc_size' \in Nat
  BY NBlockAssumption
<1>7. state' /= "WAIT" => inner_cmd' = "none"
  BY DEF FsmType, Commands, PulseInv, Flowing
<1>8. enc_done' => pipe' /= <<>>
  <2> SUFFICES ASSUME enc_done' PROVE pipe' /= <<>>
    OBVIOUS
  <2>1. Emitting(inEnc)
    BY <1>3, <1>4
  <2>2. ~InnerClear
    BY <1>3 DEF InnerClear
  <2>3. Len(pipe) \in Nat /\ pipe' \in Seq(BeatRec)
        /\ Len(pipe') \in {Len(pipe), Len(pipe) + 1}
        /\ (Len(pipe') = Len(pipe) => Len(pipe) >= 1)
    <3>1. Len(pipe) \in Nat
      BY DEF PathType
    <3>2. /\ pipe' \in Seq(BeatRec)
          /\ Arrives(inPipe) => Len(pipe') = Len(pipe) /\ Len(pipe) >= 1
          /\ ~Arrives(inPipe) => Len(pipe') = Len(pipe) + 1
      BY <1>0, <2>1, <2>2, PipeEffect
    <3> QED BY <3>1, <3>2
  <2>4. Len(pipe') >= 1
    BY <2>3
  <2> QED BY <2>4
<1>9. CASE state /= "WAIT"
  <2>1. /\ enc = "IDLE" /\ ~enc_done /\ inner_cmd = "none" /\ ~Emitting(inEnc)
        /\ enc' = "IDLE" /\ ~enc_done'
    BY <1>4, <1>5, <1>9 DEF ChainOK
  <2>2. Emitted = 0 /\ Emitted' = 0
    BY <1>9, <2>1 DEF Emitted
  <2>3. ChainOK'
    BY <1>1, <1>7, <1>9, <2>1 DEF ChainOK
  <2> QED BY <1>9, <2>1, <2>2, <2>3
<1>10. CASE state = "WAIT" /\ state' /= "WAIT"
  <2>1. /\ enc_done /\ enc = "IDLE" /\ enc_left = 0 /\ inner_cmd = "none"
        /\ ~Emitting(inEnc) /\ enc' = "IDLE" /\ ~enc_done' /\ enc_size' = enc_size
    BY <1>1, <1>4, <1>5, <1>10 DEF ChainOK
  <2>2. Emitted = enc_size /\ Emitted' = 0
    BY <1>2, <1>10, <2>1 DEF Emitted
  <2>3. ChainOK'
    BY <1>7, <1>10, <2>1 DEF ChainOK
  <2> QED BY <1>2, <1>10, <2>1, <2>2, <2>3
<1>11. CASE state = "WAIT" /\ state' = "WAIT"
  <2>0. ~enc_done /\ current' = current /\ runs' = runs
    BY <1>1, <1>11
  <2>1. CASE inner_cmd = "none"
    <3>1. enc = "RUN" /\ ~front_start_pending /\ enc_of = <<runs, current>>
          /\ enc_size \in BlockBeats
      BY <1>11, <2>0, <2>1 DEF ChainOK, PulseInv, PathType
    <3>2. inner_cmd' = "none"
      <4>1. inner_cmd' \notin {"start", "front_start", "front_clear"}
        BY <1>0, <1>11, <3>1, PulseMoves
      <4> QED BY <1>11, <4>1 DEF FsmType, Commands, PulseInv
    <3>3. Emitted = enc_size - enc_left
      BY <1>11, <3>1 DEF Emitted
    <3>4. CASE Emitting(inEnc)
      <4>1. /\ enc_left' = enc_left - 1 /\ enc_size' = enc_size /\ enc_of' = enc_of
            /\ enc' = "RUN" \/ enc_done'
            /\ enc_done' => enc_left = 1 /\ enc' = "IDLE"
        BY <1>4, <3>4
      <4>2. Emitted' = enc_size' - enc_left'
        <5>1. (enc = "RUN" \/ enc_done)'
          BY <4>1
        <5>2. (state = "WAIT")'
          BY <1>11
        <5> QED BY <5>1, <5>2 DEF Emitted
      <4>3. ChainOK'
        <5>1. enc_done' => enc_left' = 0
          BY <1>2, <4>1
        <5> QED BY <1>8, <1>11, <2>0, <3>1, <3>2, <4>1, <5>1 DEF ChainOK
      <4>4. /\ Emitted \in Nat /\ Emitted' \in Nat /\ Emitted' = Emitted + 1
            /\ Emitted < enc_size
        BY <1>2, <3>1, <3>3, <4>1, <4>2
      <4> QED BY <1>11, <3>1, <3>3, <3>4, <4>1, <4>3, <4>4
    <3>5. CASE ~Emitting(inEnc)
      <4>1. /\ enc_left' = enc_left /\ enc_size' = enc_size /\ enc_of' = enc_of
            /\ enc' = "RUN" /\ ~enc_done'
        BY <1>4, <2>1, <3>1, <3>5
      <4>2. Emitted' = enc_size - enc_left
        BY <1>11, <4>1 DEF Emitted
      <4>3. ChainOK'
        BY <1>11, <2>0, <3>1, <3>2, <4>1 DEF ChainOK
      <4>4. Emitted \in Nat /\ Emitted' = Emitted /\ Emitted < enc_size
        BY <1>2, <3>1, <3>3, <4>2
      <4>5. Emitted' = Emitted + (IF Emitting(inEnc) THEN 1 ELSE 0)
        BY <3>5, <4>4
      <4> QED BY <1>11, <3>5, <4>1, <4>3, <4>4, <4>5
    <3> QED BY <3>4, <3>5
  <2>2. CASE inner_cmd /= "none"
    <3>1. enc = "IDLE" /\ ~Emitting(inEnc)
      BY <1>5, <1>11, <2>2 DEF ChainOK
    <3>2. Emitted = 0
      BY <2>0, <3>1 DEF Emitted
    <3>3. CASE inner_cmd = "front_clear"
      <4>1. enc' = "IDLE" /\ ~enc_done' /\ inner_cmd' = "front_start"
        BY <1>1, <1>4, <1>11, <3>3 DEF PulseInv
      <4>2. Emitted' = 0
        BY <4>1 DEF Emitted
      <4>3. ChainOK'
        BY <1>11, <4>1 DEF ChainOK
      <4> QED BY <1>11, <3>1, <3>2, <4>2, <4>3
    <3>4. CASE inner_cmd \in {"start", "front_start"}
      <4>1. /\ enc' = "RUN" /\ ~enc_done' /\ enc_left' = enc_size' /\ enc_size' \in Nat
            /\ enc_of' = <<runs, current>>
        BY <1>4, <1>6, <3>4
      <4>2. Emitted' = 0
        <5>1. (state = "WAIT" /\ (enc = "RUN" \/ enc_done))'
          BY <1>11, <4>1
        <5>2. Emitted' = enc_size' - enc_left'
          BY <5>1 DEF Emitted
        <5>3. enc_left' = enc_size' /\ enc_size' \in Nat
          BY <4>1
        <5>4. \A n \in Nat : n - n = 0
          OBVIOUS
        <5>5. enc_size' - enc_left' = 0
          BY <5>3, <5>4
        <5> QED BY <5>2, <5>5
      <4>3. inner_cmd' = "none"
        <5>1. inner_cmd' \notin {"start", "front_start", "front_clear"}
          BY <1>0, <1>11, <3>4, PulseMoves DEF PulseInv
        <5> QED BY <1>11, <5>1 DEF FsmType, Commands, PulseInv
      <4>4. ChainOK'
        BY <1>11, <2>0, <4>1, <4>3 DEF ChainOK
      <4> QED BY <1>11, <3>1, <3>2, <4>2, <4>4
    <3> QED BY <1>3, <2>2, <3>3, <3>4
  <2> QED BY <2>1, <2>2
<1> QED BY <1>9, <1>10, <1>11

\* The beats the encoder has emitted, and so all that the engine takes, fit.
LEMMA BeatRoom ==
    ASSUME OutputFits, FsmType, PairInv, RoomInv, PathType, ChainOK, Flowing
    PROVE  Emitted \in Nat /\ sst_base_offset + running_offset + Emitted <= MemBeats
<1>0. /\ sst_base_offset \in Nat /\ running_offset \in Nat /\ blocks_in_sst \in Nat
      /\ enc_size \in Nat /\ enc_left \in Nat /\ enc_left <= enc_size
      /\ MemBeats \in Nat /\ TailBeats \in Nat
  BY NBlockAssumption DEF FsmType, PathType
<1>1. state \notin {"IDLE", "SPLIT_RESET"}
  BY DEF Flowing
<1> DEFINE x == (NextPair - 1) * Slot
           y == NextPair * Slot
<1>2. x \in Nat /\ x <= MemBeats /\ Used <= x /\ (state = "WAIT" => y = x + Slot /\ y <= MemBeats)
  BY <1>1, SlotsFit DEF RoomInv, InChain
<1> HIDE DEF x, y
<1>3. sst_base_offset + running_offset <= x
  BY <1>0, <1>2 DEF Used
<1>4. CASE state = "WAIT" /\ (enc = "RUN" \/ enc_done)
  <2>1. enc_size \in BlockBeats
    BY <1>4 DEF PathType, ChainOK
  <2>2. enc_size <= MaxBlock /\ MaxBlock \in Nat /\ Slot = MaxBlock + TailBeats
    BY <2>1, BoundFacts
  <2>3. Emitted = enc_size - enc_left
    BY <1>4 DEF Emitted
  <2>4. Emitted \in Nat /\ Emitted <= Slot
    BY <1>0, <2>2, <2>3
  <2> QED BY <1>0, <1>2, <1>3, <1>4, <2>2, <2>4
<1>5. CASE ~(state = "WAIT" /\ (enc = "RUN" \/ enc_done))
  <2>1. Emitted = 0
    BY <1>5 DEF Emitted
  <2> QED BY <1>0, <1>2, <1>3, <2>1
<1> QED BY <1>4, <1>5

LEMMA LastOffsetNat ==
    ASSUME FsmType, MetaInv, Flowing
    PROVE  /\ LastOffset \in Nat /\ LastOffset <= running_offset
           /\ blocks_in_sst > 0 =>
                /\ meta[blocks_in_sst].beats = running_offset - LastOffset
                /\ meta[blocks_in_sst].blk \in Nat
                /\ LastOffset = meta[blocks_in_sst].offset
           /\ blocks_in_sst = 0 => LastOffset = 0
<1>1. running_offset \in Nat /\ blocks_in_sst \in Nat
  BY DEF FsmType
<1>2. state \notin {"IDLE", "SPLIT_RESET"}
  BY DEF Flowing
<1>3. CASE blocks_in_sst = 0
  BY <1>1, <1>3 DEF LastOffset
<1>4. CASE blocks_in_sst > 0
  <2>1. meta[blocks_in_sst] \in Block
    BY <1>1, <1>4 DEF FsmType
  <2>2. /\ meta[blocks_in_sst].offset \in Nat /\ meta[blocks_in_sst].beats \in Nat
        /\ meta[blocks_in_sst].blk \in Nat
    BY <2>1 DEF Block
  <2>3. meta[blocks_in_sst].offset + meta[blocks_in_sst].beats = running_offset
    BY <1>2, <1>4 DEF MetaInv
  <2>4. LastOffset = meta[blocks_in_sst].offset
    BY <1>1, <1>4 DEF LastOffset
  <2> QED BY <1>1, <1>4, <2>2, <2>3, <2>4
<1> QED BY <1>1, <1>3, <1>4

\* The beat the encoder emits is the next one of the stream.
LEMMA EmittedBeat ==
    ASSUME FsmType, PathType, NEW e \in Nat, e = enc_size - enc_left,
           enc_of = <<runs, current>>
    PROVE  Beat(enc_size - enc_left + 1, enc_size) = Stream[running_offset + e]
<1>1. enc_size \in Nat /\ enc_left \in Nat /\ running_offset \in Nat
  BY DEF PathType, FsmType
<1>2. enc_size - enc_left + 1 = e + 1
  BY <1>1
<1>3. \A a \in Nat : ~(a < running_offset) =>
         Stream[a] = BeatOf(runs, current, a - running_offset + 1, enc_size)
  BY DEF Stream
<1>4. Stream[running_offset + e] = BeatOf(runs, current, e + 1, enc_size)
  <2> DEFINE a == running_offset + e
  <2>1. a \in Nat /\ ~(a < running_offset) /\ a - running_offset + 1 = e + 1
    BY <1>1
  <2> HIDE DEF a
  <2>2. Stream[a] = BeatOf(runs, current, a - running_offset + 1, enc_size)
    BY <1>3, <2>1
  <2>3. Stream[a] = BeatOf(runs, current, e + 1, enc_size)
    BY <2>1, <2>2
  <2> QED BY <2>3 DEF a
<1>5. Beat(enc_size - enc_left + 1, enc_size) = Beat(e + 1, enc_size)
  BY <1>2
<1>6. enc_of[1] = runs /\ enc_of[2] = current
  OBVIOUS
<1>7. Beat(e + 1, enc_size) = BeatOf(runs, current, e + 1, enc_size)
  BY <1>6 DEF Beat, BeatOf
<1> QED BY <1>4, <1>5, <1>7

\* Beats of the stream belong to this run.
LEMMA StreamBeat ==
    ASSUME FsmType, NEW a \in Nat
    PROVE  /\ Stream[a].run = runs
           /\ a < running_offset =>
                /\ Stream[a].blk = meta[blocks_in_sst].blk
                /\ Stream[a].idx = a - LastOffset + 1
                /\ Stream[a].last <=> a - LastOffset + 1 = meta[blocks_in_sst].beats
           /\ ~(a < running_offset) =>
                /\ Stream[a].last <=> a - running_offset + 1 = enc_size
<1>1. CASE a < running_offset
  <2>1. Stream[a] = BeatOf(runs, meta[blocks_in_sst].blk, a - LastOffset + 1, meta[blocks_in_sst].beats)
    BY <1>1 DEF Stream
  <2> QED BY <1>1, <2>1, BeatFields
<1>2. CASE ~(a < running_offset)
  <2>1. Stream[a] = BeatOf(runs, current, a - running_offset + 1, enc_size)
    BY <1>2 DEF Stream
  <2> QED BY <1>2, <2>1, BeatFields
<1> QED BY <1>1, <1>2

LEMMA Agree ==
    ASSUME NEW s, NEW z, NEW lo \in Nat, NEW low \in Nat, low <= lo, NEW hi \in Nat,
           \A a \in lo..hi - 1 : z[a] = s[a],
           NEW p \in Seq(BeatRec), NEW w \in Seq(BeatRec), NEW u \in Nat, u >= lo,
           u + Len(w) + Len(p) = hi, Carries(s, u, p, w),
           NEW m, NEW base, Stored(s, m, base, low, u)
    PROVE  Carries(z, u, p, w) /\ Stored(z, m, base, lo, u)
<1>1. Len(w) \in Nat /\ Len(p) \in Nat
  OBVIOUS
<1>2. \A k \in 1..Len(w) : u \in lo..hi - 1
  BY <1>1
<1>3. \A k \in 1..Len(p) : u + Len(w) + k - 1 \in lo..hi - 1
  BY <1>1
<1>4. Carries(z, u, p, w)
  BY <1>2, <1>3 DEF Carries
<1>5. \A a \in lo..u - 1 : a \in low..u - 1 /\ a \in lo..hi - 1
  BY <1>1
<1>6. Stored(z, m, base, lo, u)
  BY <1>5 DEF Stored
<1> QED BY <1>4, <1>6

\* An edge moves the stream on: what the engine takes is written behind what
\* it has written before.
LEMMA StreamAdvance ==
    ASSUME OutputFits, FsmType, FsmType', PairInv, RoomInv, PulseInv, PulseInv', PathType,
           SettledInv, MetaInv, ChainOK, StreamOK, Flowing, Flowing', ~front_error',
           NEW cmd, NEW inDesc, NEW inEnc, NEW inPipe, NEW axi,
           Tick(cmd, inDesc, inEnc, inPipe, axi),
           NEW u, u = IF TakeBeat(axi) THEN Taken + 1 ELSE Taken
    PROVE  /\ u \in Nat /\ Taken' = u
           /\ Carries(Stream, u, pipe', write_beat')
           /\ Stored(Stream, mem', sst_base_offset, LastOffset, u)
           /\ u + Len(write_beat') + Len(pipe') = running_offset' + Emitted'
           /\ Taken + Len(write_beat) + Len(pipe) = running_offset + Emitted
           /\ TakeBeat(axi) => Len(write_beat) = 1 /\ Head(write_beat) = Stream[Taken]
           /\ Len(write_beat) \in Nat /\ Len(pipe) \in Nat
<1> DEFINE t == Taken
           e == Emitted
           lw == Len(write_beat)
           lp == Len(pipe)
<1>0. /\ NBClock(cmd, inDesc) /\ PipeClock(inEnc, inPipe, axi) /\ WriterClock(axi)
      /\ MemClock(cmd, axi)
  BY DEF Tick
<1>1. ~InnerClear
  BY DEF InnerClear, PulseInv, Flowing
<1>2. /\ e \in Nat /\ Emitted' \in Nat
      /\ Emitting(inEnc) => e = enc_size - enc_left /\ enc_of = <<runs, current>>
      /\ state = "WAIT" /\ state' /= "WAIT" =>
           ~Emitting(inEnc) /\ e = enc_size /\ Emitted' = 0
      /\ ~(state = "WAIT" /\ state' /= "WAIT") =>
           Emitted' = e + (IF Emitting(inEnc) THEN 1 ELSE 0)
  BY ChainStep
<1>a. /\ running_offset \in Nat /\ sst_base_offset \in Nat /\ runs \in Nat
      /\ lw \in Nat /\ lp \in Nat /\ MemBeats \in Nat /\ enc_size \in Nat
  <2>1. write_beat \in Seq(BeatRec) /\ pipe \in Seq(BeatRec)
    BY DEF PathType
  <2>2. lw \in Nat /\ lp \in Nat
    BY <2>1
  <2>3. /\ running_offset \in Nat /\ sst_base_offset \in Nat /\ runs \in Nat
        /\ MemBeats \in Nat /\ enc_size \in Nat
    BY NBlockAssumption DEF FsmType, PathType
  <2> QED BY <2>2, <2>3
<1>b. /\ t \in Nat /\ Carries(Stream, t, pipe, write_beat)
      /\ Stored(Stream, mem, sst_base_offset, LastOffset, t)
      /\ Writing(t, running_offset, sst_base_offset)
  BY DEF StreamOK
<1>3. /\ running_offset \in Nat /\ sst_base_offset \in Nat /\ runs \in Nat
      /\ lw \in Nat /\ lp \in Nat /\ MemBeats \in Nat /\ enc_size \in Nat
      /\ t \in Nat /\ Carries(Stream, t, pipe, write_beat)
      /\ Stored(Stream, mem, sst_base_offset, LastOffset, t)
      /\ Writing(t, running_offset, sst_base_offset)
      /\ u = IF TakeBeat(axi) THEN t + 1 ELSE t
  <2> HIDE DEF lw, lp
  <2> QED BY <1>a, <1>b
<1>4. t + lw + lp = running_offset + e
  <2>1. t = running_offset + e - lp - lw
    BY DEF Taken
  <2> HIDE DEF t, e, lw, lp
  <2> QED BY <1>2, <1>3, <2>1
<1>5. u \in Nat
  <2> HIDE DEF t
  <2> QED BY <1>3
<1>6. Emitting(inEnc) => Beat(enc_size - enc_left + 1, enc_size) = Stream[t + lw + lp]
  <2>1. Emitting(inEnc) => Beat(enc_size - enc_left + 1, enc_size) = Stream[running_offset + e]
    BY <1>2, EmittedBeat
  <2> QED BY <1>4, <2>1
<1>7. /\ Carries(Stream, u, pipe', write_beat')
      /\ u + Len(write_beat') + Len(pipe') = t + lw + lp + (IF Emitting(inEnc) THEN 1 ELSE 0)
      /\ Len(write_beat') \in Nat /\ Len(pipe') \in Nat
      /\ TakeBeat(axi) => lw = 1 /\ Head(write_beat) = Stream[t]
  <2> HIDE DEF t
  <2>1. /\ t \in Nat /\ Carries(Stream, t, pipe, write_beat) /\ PipeClock(inEnc, inPipe, axi)
        /\ u = IF TakeBeat(axi) THEN t + 1 ELSE t
    BY ONLY <1>0, <1>3
  <2> QED BY ONLY FsmType, PathType, <1>1, <1>5, <1>6, <2>1, CarriesOn
<1>8. running_offset' + Emitted' = running_offset + e + (IF Emitting(inEnc) THEN 1 ELSE 0)
  <2> HIDE DEF e
  <2>1. CASE state = "WAIT" /\ state' /= "WAIT"
    <3>1. running_offset' = running_offset + enc_size
      BY <1>0, <2>1, FlowMoves DEF RecordBlock
    <3> QED BY <1>2, <1>3, <2>1, <3>1
  <2>2. CASE ~(state = "WAIT" /\ state' /= "WAIT")
    <3>1. running_offset' = running_offset
      BY <1>0, <2>2, FlowMoves
    <3>2. Emitted' = e + (IF Emitting(inEnc) THEN 1 ELSE 0)
      BY <1>2, <2>2
    <3>3. \A i \in Nat, j \in Nat, k \in {0, 1} : i + (j + k) = i + j + k
      OBVIOUS
    <3>4. (IF Emitting(inEnc) THEN 1 ELSE 0) \in {0, 1}
      OBVIOUS
    <3> QED BY <1>2, <1>3, <3>1, <3>2, <3>3, <3>4
  <2> QED BY <2>1, <2>2
<1>9. u + Len(write_beat') + Len(pipe') = running_offset' + Emitted'
  <2> HIDE DEF t, e, lw, lp
  <2> QED BY <1>2, <1>3, <1>4, <1>7, <1>8
<1>10. Taken' = u
  <2>1. Taken' = running_offset' + Emitted' - Len(pipe') - Len(write_beat')
    BY DEF Taken
  <2>2. running_offset' \in Nat
    BY DEF FsmType
  <2> DEFINE r == running_offset'  f == Emitted'  l == Len(pipe')  w == Len(write_beat')
  <2>3. r \in Nat /\ f \in Nat /\ l \in Nat /\ w \in Nat /\ u + w + l = r + f
    BY <1>2, <1>7, <1>9, <2>2
  <2> HIDE DEF r, f, l, w
  <2>4. r + f - l - w = u
    <3>1. \A i \in Nat, j \in Nat, k \in Nat : i + j + k - k - j = i
      OBVIOUS
    <3>2. u + w + l - l - w = u
      BY <1>5, <2>3, <3>1
    <3>3. r + f - l - w = u + w + l - l - w
      BY <2>3
    <3> QED BY <3>2, <3>3
  <2> QED BY <2>1, <2>4 DEF r, f, l, w
<1>11. Stored(Stream, mem', sst_base_offset, LastOffset, u)
  <2>0. LastOffset \in Nat
    BY LastOffsetNat
  <2>1. ~StartAccepted(cmd) /\ ~AsmWrites(axi)
    BY DEF StartAccepted, AsmWrites, Flowing, SettledInv
  <2>2. TakeBeat(axi) => cur_addr + burst_index = sst_base_offset + t
    BY <1>3, <1>0, <1>1, <1>5, WriterEffect
  <2>3. sst_base_offset + running_offset + e <= MemBeats
    BY BeatRoom
  <2>4. TakeBeat(axi) => BeatWritten = <<Stream[t].blk, Stream[t].idx>>
    <3> SUFFICES ASSUME TakeBeat(axi) PROVE BeatWritten = <<Stream[t].blk, Stream[t].idx>>
      OBVIOUS
    <3>1. Head(write_beat) = Stream[t]
      BY <1>7
    <3>2. Stream[t].run = runs
      BY <1>3, StreamBeat
    <3> QED BY <3>1, <3>2 DEF BeatWritten
  <2> HIDE DEF t, e, lw, lp
  <2> SUFFICES ASSUME NEW a \in LastOffset..u - 1
               PROVE  mem'[sst_base_offset + a] = <<Stream[a].blk, Stream[a].idx>>
    BY DEF Stored
  <2>5. a \in Nat /\ a < u
    BY <1>5, <2>0
  <2> DEFINE x == sst_base_offset + a
  <2>6. u <= running_offset + e
    BY <1>2, <1>3, <1>4, <1>7
  <2>7. x \in 0..MemBeats - 1
    BY <1>2, <1>3, <1>5, <2>3, <2>5, <2>6
  <2>8. CASE a < t
    <3>1. x /= sst_base_offset + t
      BY <1>3, <2>5, <2>8
    <3>2. mem'[x] = mem[x]
      <4> HIDE DEF x
      <4> QED BY <1>0, <2>1, <2>2, <2>7, <3>1, MemEffect
    <3>3. a \in LastOffset..t - 1
      BY <1>3, <1>5, <2>0, <2>8
    <3> QED BY <1>3, <3>2, <3>3 DEF Stored
  <2>9. CASE ~(a < t)
    <3>1. a = t /\ TakeBeat(axi)
      BY <1>3, <2>5, <2>9
    <3>2. x = cur_addr + burst_index
      BY <2>2, <3>1
    <3>3. mem'[x] = BeatWritten
      <4> HIDE DEF x
      <4> QED BY <1>0, <1>1, <2>1, <2>7, <3>1, <3>2, MemEffect
    <3> QED BY <2>4, <3>1, <3>3
  <2> QED BY <2>8, <2>9
<1> QED BY <1>3, <1>4, <1>5, <1>7, <1>9, <1>10, <1>11

\* Recording a block moves it from the chain's half of the stream to the
\* other; the engine is by then past the block recorded before.
LEMMA StreamAgree ==
    ASSUME OutputFits, LongBlocks, FsmType, FsmType', PairInv, RoomInv, PulseInv, PulseInv',
           PathType, SettledInv, MetaInv, ChainOK, StreamOK, Flowing, Flowing', ~front_error',
           NEW cmd, NEW inDesc, NEW inEnc, NEW inPipe, NEW axi,
           Tick(cmd, inDesc, inEnc, inPipe, axi),
           NEW u, u = IF TakeBeat(axi) THEN Taken + 1 ELSE Taken
    PROVE  /\ LastOffset' \in Nat /\ LastOffset <= LastOffset'
           /\ \A a \in LastOffset'..running_offset' + Emitted' - 1 : Stream'[a] = Stream[a]
           /\ u >= LastOffset' /\ (blocks_in_sst' > 0 => u > LastOffset')
           /\ state = "WAIT" /\ state' /= "WAIT" =>
                Taken > running_offset /\ u < running_offset'
<1> DEFINE t == Taken
           e == Emitted
           lw == Len(write_beat)
           lp == Len(pipe)
<1>0. NBClock(cmd, inDesc)
  BY DEF Tick
<1>1. /\ running_offset \in Nat /\ running_offset' \in Nat /\ blocks_in_sst \in Nat
      /\ runs \in Nat /\ enc_size \in Nat /\ PipeBeats \in Nat
  BY NBlockAssumption DEF FsmType, PathType
<1>2. lw <= 1 /\ lp <= PipeBeats
  BY DEF PathType
<1>3. LastOffset \in Nat /\ LastOffset <= running_offset
  BY LastOffsetNat
<1>4. /\ t \in Nat /\ (blocks_in_sst > 0 => t > LastOffset)
  BY DEF StreamOK
<1>5. /\ e \in Nat /\ Emitted' \in Nat
      /\ state = "WAIT" /\ state' /= "WAIT" => e = enc_size /\ Emitted' = 0
      /\ ~(state = "WAIT" /\ state' /= "WAIT") =>
           Emitted' = e + (IF Emitting(inEnc) THEN 1 ELSE 0)
      /\ e > 0 \/ Emitting(inEnc) => enc_size' = enc_size /\ state = "WAIT"
  BY ChainStep
<1>6. /\ u \in Nat /\ t + lw + lp = running_offset + e /\ lw \in Nat /\ lp \in Nat
      /\ (TakeBeat(axi) => lw = 1)
  BY StreamAdvance
<1>7. u = IF TakeBeat(axi) THEN t + 1 ELSE t
  OBVIOUS
<1>8. u >= t
  <2> HIDE DEF t
  <2> QED BY <1>4, <1>7
<1>9. /\ runs' = runs
      /\ state = "WAIT" /\ state' = "WAIT" => current' = current
      /\ state = "WAIT" /\ state' /= "WAIT" => RecordBlock /\ enc_done
      /\ ~(state = "WAIT" /\ state' /= "WAIT") =>
           running_offset' = running_offset /\ blocks_in_sst' = blocks_in_sst /\ meta' = meta
  BY <1>0, FlowMoves
<1>10. CASE state = "WAIT" /\ state' /= "WAIT"
  <2>1. /\ meta'[blocks_in_sst + 1] = [blk |-> current, offset |-> running_offset, beats |-> enc_size]
        /\ running_offset' = running_offset + enc_size
        /\ blocks_in_sst' = blocks_in_sst + 1
    BY <1>1, <1>9, <1>10, RecordEffect
  <2>2. /\ meta'[blocks_in_sst'].blk = current /\ meta'[blocks_in_sst'].offset = running_offset
        /\ meta'[blocks_in_sst'].beats = enc_size
    BY <2>1
  <2>3. blocks_in_sst' > 0 /\ blocks_in_sst' /= 0
    BY <1>1, <2>1
  <2>4. LastOffset' = running_offset
    BY <2>2, <2>3 DEF LastOffset
  <2>5. pipe /= <<>> /\ enc_size > PipeBeats + 1
    BY <1>9, <1>10 DEF ChainOK, LongBlocks
  <2>6. lp >= 1
    BY <2>5 DEF PathType
  <2>7. e = enc_size /\ Emitted' = 0
    BY <1>5, <1>10
  <2>8. t > running_offset /\ t + 1 <= running_offset + enc_size /\ u < running_offset + enc_size
    <3> HIDE DEF t, e, lw, lp
    <3> QED BY <1>1, <1>2, <1>4, <1>6, <1>7, <2>5, <2>6, <2>7
  <2>9. ASSUME NEW a \in running_offset..running_offset' - 1 PROVE Stream'[a] = Stream[a]
    <3>a. \A i \in Nat, j \in Nat : \A k \in i..j - 1 : k \in Nat /\ ~(k < i) /\ k < j
      OBVIOUS
    <3>1. a \in Nat /\ ~(a < running_offset) /\ a < running_offset'
      BY <1>1, <2>9, <3>a
    <3>2. Stream[a] = BeatOf(runs, current, a - running_offset + 1, enc_size)
      BY <3>1 DEF Stream
    <3>3. Stream'[a] = BeatOf(runs', meta'[blocks_in_sst'].blk, a - LastOffset' + 1,
                              meta'[blocks_in_sst'].beats)
      BY <3>1 DEF Stream, BeatOf
    <3> QED BY <1>9, <2>2, <2>4, <3>2, <3>3
  <2>10. running_offset' + Emitted' - 1 = running_offset' - 1
    BY <1>1, <2>7
  <2>11. \A a \in LastOffset'..running_offset' + Emitted' - 1 : Stream'[a] = Stream[a]
    BY ONLY <2>4, <2>9, <2>10
  <2> HIDE DEF t
  <2>12. /\ LastOffset' \in Nat /\ LastOffset <= LastOffset'
         /\ u >= LastOffset' /\ u > LastOffset' /\ t > running_offset /\ u < running_offset'
    BY ONLY <1>1, <1>3, <1>4, <1>6, <1>8, <2>1, <2>4, <2>8
  <2> QED BY ONLY <2>11, <2>12 DEF t
<1>11. CASE ~(state = "WAIT" /\ state' /= "WAIT")
  <2>1. running_offset' = running_offset /\ blocks_in_sst' = blocks_in_sst /\ meta' = meta
    BY <1>9, <1>11
  <2>2. LastOffset' = LastOffset
    BY <2>1 DEF LastOffset
  <2>3. blocks_in_sst = 0 => LastOffset = 0
    BY DEF LastOffset
  <2>4. u >= LastOffset' /\ (blocks_in_sst' > 0 => u > LastOffset')
    <3> HIDE DEF t
    <3> QED BY <1>1, <1>3, <1>4, <1>6, <1>8, <2>1, <2>2, <2>3
  <2>5. ASSUME NEW a \in LastOffset..running_offset + Emitted' - 1 PROVE Stream'[a] = Stream[a]
    <3>1. a \in Nat
      BY <1>1, <1>3, <1>5, <2>5
    <3>2. CASE a < running_offset
      <4>1. Stream[a] = BeatOf(runs, meta[blocks_in_sst].blk, a - LastOffset + 1, meta[blocks_in_sst].beats)
        BY <3>1, <3>2 DEF Stream
      <4>2. Stream'[a] = BeatOf(runs', meta'[blocks_in_sst'].blk, a - LastOffset' + 1,
                                meta'[blocks_in_sst'].beats)
        BY <2>1, <3>1, <3>2 DEF Stream, BeatOf
      <4> QED BY <1>9, <2>1, <2>2, <4>1, <4>2
    <3>3. CASE ~(a < running_offset)
      <4>a. \A i \in Nat, j \in Nat, k \in Nat :
               \A n \in k..i + j - 1 : n >= i => j > 0
        OBVIOUS
      <4>b. a >= running_offset
        BY <1>1, <3>1, <3>3
      <4>1. Emitted' > 0
        BY <1>1, <1>3, <1>5, <2>5, <4>a, <4>b
      <4>2. Emitted' = e + (IF Emitting(inEnc) THEN 1 ELSE 0)
        BY <1>5, <1>11
      <4>3. e > 0 \/ Emitting(inEnc)
        <5> HIDE DEF e
        <5> QED BY <1>5, <4>1, <4>2
      <4>4. enc_size' = enc_size /\ current' = current
        BY <1>5, <1>9, <1>11, <4>3
      <4>5. Stream[a] = BeatOf(runs, current, a - running_offset + 1, enc_size)
        BY <3>1, <3>3 DEF Stream
      <4>6. Stream'[a] = BeatOf(runs', current', a - running_offset' + 1, enc_size')
        BY <2>1, <3>1, <3>3 DEF Stream, BeatOf
      <4> QED BY <1>9, <2>1, <4>4, <4>5, <4>6
    <3> QED BY <3>2, <3>3
  <2> QED BY <1>1, <1>3, <1>11, <2>1, <2>2, <2>4, <2>5
<1> QED BY <1>10, <1>11

\* The engine takes a beat marked last exactly at the end of a recorded block.
LEMMA LastBeat ==
    ASSUME OutputFits, FsmType, FsmType', PairInv, RoomInv, PulseInv, PulseInv',
           PathType, SettledInv, MetaInv, ChainOK, StreamOK, Flowing, Flowing', ~front_error',
           NEW cmd, NEW inDesc, NEW inEnc, NEW inPipe, NEW axi,
           Tick(cmd, inDesc, inEnc, inPipe, axi), TakeBeat(axi)
    PROVE  /\ Head(write_beat).last /\ ~(state = "WAIT" /\ state' /= "WAIT") =>
                Taken + 1 = running_offset
           /\ Taken + 1 = running_offset => Head(write_beat).last
           /\ Head(write_beat).last => Taken + 1 <= running_offset \/ Taken + 1 = running_offset + enc_size
<1> DEFINE t == Taken
           e == Emitted
           lw == Len(write_beat)
           lp == Len(pipe)
<1>1. /\ running_offset \in Nat /\ blocks_in_sst \in Nat /\ enc_size \in Nat
  BY DEF FsmType, PathType
<1>2. t \in Nat
  BY DEF StreamOK
<1>3. /\ e \in Nat
      /\ e > 0 \/ Emitting(inEnc) => state = "WAIT"
      /\ state = "WAIT" /\ state' = "WAIT" /\ e > 0 => e < enc_size
  BY ChainStep
<1>4. /\ lw = 1 /\ Head(write_beat) = Stream[t]
      /\ t + lw + lp = running_offset + e /\ lp \in Nat
  BY StreamAdvance
<1>5. /\ t < running_offset =>
           (Stream[t].last <=> t - LastOffset + 1 = meta[blocks_in_sst].beats)
      /\ ~(t < running_offset) => (Stream[t].last <=> t - running_offset + 1 = enc_size)
  BY <1>2, StreamBeat
<1>6. LastOffset \in Nat /\ LastOffset <= running_offset
  BY LastOffsetNat
<1>7. t < running_offset => meta[blocks_in_sst].beats = running_offset - LastOffset
  <2>1. blocks_in_sst = 0 => running_offset = 0
    BY DEF PulseInv
  <2>2. t < running_offset => blocks_in_sst > 0
    <3> HIDE DEF t
    <3> QED BY <1>1, <1>2, <2>1
  <2> QED BY <2>2, LastOffsetNat
<1>8. t + 1 <= running_offset + e
  <2> HIDE DEF t, e, lw, lp
  <2> QED BY <1>1, <1>2, <1>3, <1>4
<1> DEFINE l == Stream[t].last
           b == meta[blocks_in_sst].beats
<1>9. Head(write_beat).last <=> l
  BY <1>4
<1> HIDE DEF t, e, lw, lp, l, b
<1>10. CASE t < running_offset
  <2>1. l <=> t - LastOffset + 1 = running_offset - LastOffset
    BY <1>5, <1>7, <1>10 DEF l, b
  <2>2. l <=> t + 1 = running_offset
    BY <1>1, <1>2, <1>6, <2>1
  <2> QED BY <1>1, <1>2, <1>9, <1>10, <2>2 DEF t
<1>11. CASE ~(t < running_offset)
  <2>1. l <=> t - running_offset + 1 = enc_size
    BY <1>5, <1>11 DEF l
  <2>2. l => t + 1 = running_offset + enc_size
    BY <1>1, <1>2, <2>1
  <2>3. e > 0
    BY <1>1, <1>2, <1>3, <1>8, <1>11
  <2>4. t + 1 /= running_offset
    BY <1>1, <1>2, <1>11
  <2>5. ~(state = "WAIT" /\ state' /= "WAIT") => ~l
    <3>1. ~(state = "WAIT" /\ state' /= "WAIT") => e < enc_size
      BY <1>3, <2>3
    <3>2. l => ~(e < enc_size)
      BY <1>1, <1>2, <1>3, <1>8, <2>2
    <3> QED BY <3>1, <3>2
  <2> QED BY <1>9, <2>2, <2>4, <2>5 DEF t
<1> QED BY <1>10, <1>11

LEMMA StreamStep ==
    ASSUME OutputFits, LongBlocks, FsmType, FsmType', PairInv, RoomInv, PulseInv, PulseInv',
           PathType, PathType', SettledInv, MetaInv, ChainOK, StreamOK,
           Flowing, Flowing', ~front_error',
           NEW cmd, NEW inDesc, NEW inEnc, NEW inPipe, NEW axi,
           Tick(cmd, inDesc, inEnc, inPipe, axi)
    PROVE  StreamOK'
<1> DEFINE t == Taken
           u == IF TakeBeat(axi) THEN t + 1 ELSE t
<1>0. NBClock(cmd, inDesc) /\ WriterClock(axi)
  BY DEF Tick
<1>1. /\ u \in Nat /\ Taken' = u
      /\ Carries(Stream, u, pipe', write_beat')
      /\ Stored(Stream, mem', sst_base_offset, LastOffset, u)
      /\ u + Len(write_beat') + Len(pipe') = running_offset' + Emitted'
  BY StreamAdvance
<1>2. /\ LastOffset' \in Nat /\ LastOffset <= LastOffset'
      /\ \A a \in LastOffset'..running_offset' + Emitted' - 1 : Stream'[a] = Stream[a]
      /\ u >= LastOffset' /\ (blocks_in_sst' > 0 => u > LastOffset')
      /\ state = "WAIT" /\ state' /= "WAIT" => t > running_offset /\ u < running_offset'
  BY StreamAgree
<1>3. t \in Nat /\ Writing(t, running_offset, sst_base_offset)
  BY DEF StreamOK
<1>4. /\ pipe' \in Seq(BeatRec) /\ write_beat' \in Seq(BeatRec) /\ LastOffset \in Nat
      /\ running_offset' \in Nat /\ running_offset \in Nat /\ Emitted' \in Nat /\ enc_size \in Nat
  BY LastOffsetNat, ChainStep DEF PathType, FsmType
<1>5. u = IF TakeBeat(axi) THEN t + 1 ELSE t
  OBVIOUS
<1> HIDE DEF u, t
<1> DEFINE hi == running_offset' + Emitted'
<1>6. hi \in Nat
  <2>1. \A i \in Nat, j \in Nat : i + j \in Nat
    OBVIOUS
  <2> QED BY <1>4, <2>1
<1>a. \A a \in LastOffset'..hi - 1 : Stream'[a] = Stream[a]
  <2>1. \A a \in LastOffset'..running_offset' + Emitted' - 1 : Stream'[a] = Stream[a]
    BY <1>2
  <2>2. running_offset' \in Nat /\ Emitted' \in Nat /\ LastOffset' \in Nat
    BY <1>2, <1>4
  <2>3. \A i \in Nat, j \in Nat : i + j - 1 = (i + j) - 1
    OBVIOUS
  <2>4. hi - 1 = running_offset' + Emitted' - 1
    BY <2>2, <2>3
  <2> QED BY <2>1, <2>4
<1> HIDE DEF hi
<1>7. /\ Carries(Stream', u, pipe', write_beat')
      /\ Stored(Stream', mem', sst_base_offset, LastOffset', u)
  <2>1. u + Len(write_beat') + Len(pipe') = hi
    BY <1>1 DEF hi
  <2> QED BY <1>1, <1>2, <1>4, <1>6, <1>a, <2>1, Agree
<1>8. sst_base_offset' = sst_base_offset
      /\ (~(state = "WAIT" /\ state' /= "WAIT") => running_offset' = running_offset)
      /\ (state = "WAIT" /\ state' /= "WAIT" => running_offset' = running_offset + enc_size)
  BY <1>0, FlowMoves DEF RecordBlock
<1>9. ~InnerClear
  BY DEF InnerClear, PulseInv, Flowing
<1>10. /\ wr_state' = "IDLE" =>
            u = t /\ (wr_state = "IDLE" \/ (wr_state = "B" /\ stream_last_seen))
       /\ wr_state' = "AW" => cur_addr' = sst_base_offset + u /\ ~stream_last_seen'
       /\ wr_state' = "W" => /\ cur_addr' + burst_index' = sst_base_offset + u
                             /\ ~stream_last_seen' /\ burst_index' < BurstBeats
       /\ wr_state' = "B" /\ stream_last_seen' =>
            \/ wr_state = "B" /\ stream_last_seen /\ u = t
            \/ TakeBeat(axi) /\ Head(write_beat).last
       /\ wr_state' = "B" /\ ~stream_last_seen' =>
            cur_addr' + BurstBeats = sst_base_offset + u
  BY <1>0, <1>1, <1>3, <1>5, <1>9, WriterEffect
<1>11. wr_state = "IDLE" \/ (wr_state = "B" /\ stream_last_seen) => t = running_offset
  BY <1>3 DEF Writing
<1>12. t = running_offset /\ u = t => u = running_offset'
  BY <1>2, <1>3, <1>4, <1>8
<1>13. TakeBeat(axi) /\ Head(write_beat).last => u = running_offset'
  <2> SUFFICES ASSUME TakeBeat(axi), Head(write_beat).last PROVE u = running_offset'
    OBVIOUS
  <2>1. /\ ~(state = "WAIT" /\ state' /= "WAIT") => t + 1 = running_offset
        /\ t + 1 <= running_offset \/ t + 1 = running_offset + enc_size
    BY LastBeat DEF t
  <2>2. u = t + 1
    BY <1>5
  <2>3. CASE state = "WAIT" /\ state' /= "WAIT"
    BY <1>2, <1>3, <1>4, <1>8, <2>1, <2>2, <2>3
  <2>4. CASE ~(state = "WAIT" /\ state' /= "WAIT")
    BY <1>8, <2>1, <2>2, <2>4
  <2> QED BY <2>3, <2>4
<1>14. /\ wr_state' = "IDLE" => u = running_offset'
       /\ wr_state' = "AW" => cur_addr' = sst_base_offset' + u /\ ~stream_last_seen'
       /\ wr_state' = "W" => /\ cur_addr' + burst_index' = sst_base_offset' + u
                             /\ ~stream_last_seen' /\ burst_index' < BurstBeats
       /\ wr_state' = "B" /\ stream_last_seen' => u = running_offset'
       /\ wr_state' = "B" /\ ~stream_last_seen' =>
            cur_addr' + BurstBeats = sst_base_offset' + u
  BY <1>8, <1>10, <1>11, <1>12, <1>13
<1>15. Writing(Taken, running_offset, sst_base_offset)'
  BY <1>1, <1>14 DEF Writing
<1>16. /\ Carries(Stream, Taken, pipe, write_beat)'
       /\ Stored(Stream, mem, sst_base_offset, LastOffset, Taken)'
  BY <1>1, <1>7, <1>8
<1> QED BY <1>1, <1>2, <1>15, <1>16 DEF StreamOK

LEMMA PendingStep ==
    ASSUME OutputFits, LongBlocks, FsmType, FsmType', PairInv, RoomInv, PulseInv, PulseInv',
           PathType, PathType', StartInv, SettledInv, MetaInv, ChainOK, StreamOK, PendingOK,
           Flowing, Flowing', ~front_error',
           NEW cmd, NEW inDesc, NEW inEnc, NEW inPipe, NEW axi,
           Tick(cmd, inDesc, inEnc, inPipe, axi)
    PROVE  PendingOK'
<1> DEFINE t == Taken
           u == IF TakeBeat(axi) THEN t + 1 ELSE t
<1>0. NBClock(cmd, inDesc) /\ WriterClock(axi)
  BY DEF Tick
<1>1. u \in Nat /\ Taken' = u
  BY StreamAdvance
<1>2. state = "WAIT" /\ state' /= "WAIT" => t > running_offset /\ u < running_offset'
  BY StreamAgree
<1>3. t \in Nat /\ Writing(t, running_offset, sst_base_offset) /\ running_offset \in Nat
  BY DEF StreamOK, FsmType
<1>4. /\ state = "WAIT" /\ state' /= "WAIT" /\ WaitsForWrite' =>
           /\ pipeline_wr_pending' => pipeline_wr_pending
           /\ wr_done_pending' = wr_done
      /\ ~(state = "WAIT" /\ state' /= "WAIT") =>
           /\ running_offset' = running_offset
           /\ pipeline_wr_pending' => pipeline_wr_pending /\ ~wr_done
           /\ WaitsForWrite' => WaitsForWrite
           /\ WaitsForWrite' /\ ~wr_done_pending => ~wr_done_pending'
  BY <1>0, FlowMoves
<1>5. u = IF TakeBeat(axi) THEN t + 1 ELSE t
  OBVIOUS
<1>6. ~InnerClear
  BY DEF InnerClear, PulseInv, Flowing
<1>7. TakeBeat(axi) /\ t + 1 = running_offset => Head(write_beat).last
  BY LastBeat
<1>8. /\ WaitsForWrite => ~pipeline_wr_pending /\ ~wr_done_pending
      /\ pipeline_wr_pending =>
           \/ t < running_offset
           \/ wr_state = "B" /\ stream_last_seen
           \/ wr_state = "IDLE" /\ wr_done
  BY DEF PendingOK, WaitsForWrite
<1> HIDE DEF u, t
<1>9. /\ TakeBeat(axi) /\ Head(write_beat).last => wr_state' = "B" /\ stream_last_seen'
      /\ wr_state = "B" /\ stream_last_seen =>
           \/ wr_state' = "B" /\ stream_last_seen'
           \/ wr_state' = "IDLE" /\ wr_done'
  BY <1>0, <1>1, <1>3, <1>5, <1>6, WriterEffect
<1>10. wr_done => wr_state = "IDLE"
  BY DEF StartInv
<1>11. wr_state = "IDLE" \/ (wr_state = "B" /\ stream_last_seen) => t = running_offset
  BY <1>3 DEF Writing
<1>12. CASE state = "WAIT" /\ state' /= "WAIT"
  <2>1. ~(t < running_offset) /\ t /= running_offset /\ u < running_offset'
    BY <1>2, <1>3, <1>12
  <2>2. ~pipeline_wr_pending /\ ~wr_done
    BY <1>8, <1>10, <1>11, <2>1
  <2>3. WaitsForWrite' => ~pipeline_wr_pending' /\ ~wr_done_pending'
    BY <1>4, <1>12, <2>2
  <2>4. (state \in {"WAIT_LAST", "WAIT_SPLIT"} => ~pipeline_wr_pending /\ ~wr_done_pending)'
    BY <2>3 DEF WaitsForWrite
  <2>5. Taken' < running_offset'
    BY <1>1, <2>1
  <2> QED BY <2>4, <2>5 DEF PendingOK
<1>13. CASE ~(state = "WAIT" /\ state' /= "WAIT")
  <2>1. WaitsForWrite' => ~pipeline_wr_pending' /\ ~wr_done_pending'
    BY <1>4, <1>8, <1>13
  <2>2. (state \in {"WAIT_LAST", "WAIT_SPLIT"} => ~pipeline_wr_pending /\ ~wr_done_pending)'
    BY <2>1 DEF WaitsForWrite
  <2>3. pipeline_wr_pending' =>
           \/ u < running_offset'
           \/ wr_state' = "B" /\ stream_last_seen'
           \/ wr_state' = "IDLE" /\ wr_done'
    <3> SUFFICES ASSUME pipeline_wr_pending', ~(u < running_offset')
                 PROVE  \/ wr_state' = "B" /\ stream_last_seen'
                        \/ wr_state' = "IDLE" /\ wr_done'
      OBVIOUS
    <3>1. /\ running_offset' = running_offset
          /\ t < running_offset \/ (wr_state = "B" /\ stream_last_seen)
      BY <1>4, <1>8, <1>13
    <3>2. CASE wr_state = "B" /\ stream_last_seen
      BY <1>9, <3>2
    <3>3. CASE t < running_offset
      <4>1. TakeBeat(axi) /\ t + 1 = running_offset
        BY <1>1, <1>3, <1>5, <3>1, <3>3
      <4> QED BY <1>7, <1>9, <4>1 DEF t
    <3> QED BY <3>1, <3>2, <3>3
  <2> QED BY <1>1, <2>2, <2>3 DEF PendingOK
<1> QED BY <1>12, <1>13

\* A file's first block: everything is empty when the FSM comes to WAIT.
LEMMA FlowStart ==
    ASSUME FsmType, FsmType', PairInv, PulseInv, PathType, NonePending,
           state = "START", state' = "WAIT",
           NEW cmd, NEW inDesc, NEW inEnc, NEW inPipe, NEW axi,
           Tick(cmd, inDesc, inEnc, inPipe, axi)
    PROVE  ChainOK' /\ StreamOK' /\ PendingOK'
<1>1. InnerClear
  BY DEF InnerClear, PulseInv
<1>2. Quiet'
  BY <1>1, ClearEffect
<1>3. NBClock(cmd, inDesc)
  BY DEF Tick
<1>4. NBStart
  BY <1>3 DEF NBClock, NBClear, NBIdle, NBPop, NBClearState, NBWaitError, NBWaitOn,
     NBEncodedLast, NBEncodedMore, NBWaitWrite, NBPipeRestart, NBAssemble, NBSplitReset
<1>5. /\ inner_cmd' = "start" /\ blocks_in_sst' = 0 /\ running_offset' = 0
      /\ sst_base_offset' \in Nat
  BY <1>4 DEF NBStart, PulseInv, fileVars, outVars, FsmType
<1>6. ~pipeline_wr_pending'
  <2>1. Settled \/ Stale
    BY DEF Settled, Stale, PulseInv
  <2>2. ~pipeline_wr_pending
    BY <2>1 DEF NonePending
  <2>3. pipeline_wr_pending' = (pipeline_wr_pending /\ ~wr_done)
    BY <1>4 DEF NBStart, PendingDefault
  <2> QED BY <2>2, <2>3, Zenon
<1>7. ChainOK'
  BY <1>2, <1>5 DEF ChainOK, Quiet
<1>8. Emitted' = 0 /\ Len(pipe') = 0 /\ Len(write_beat') = 0 /\ LastOffset' = 0
  <2>1. enc' = "IDLE" /\ ~enc_done' /\ pipe' = <<>> /\ write_beat' = <<>>
    BY <1>2 DEF Quiet
  <2>2. Len(pipe') = 0 /\ Len(write_beat') = 0
    BY <2>1
  <2>3. LastOffset' = 0
    BY <1>5 DEF LastOffset
  <2>4. Emitted' = 0
    BY <2>1 DEF Emitted
  <2> QED BY <2>2, <2>3, <2>4
<1>9. Taken' = 0
  BY <1>5, <1>8 DEF Taken
<1>10. StreamOK'
  <2>1. Carries(Stream, Taken, pipe, write_beat)'
    BY <1>8 DEF Carries
  <2>2. Stored(Stream, mem, sst_base_offset, LastOffset, Taken)'
    BY <1>8, <1>9 DEF Stored
  <2>3. Writing(Taken, running_offset, sst_base_offset)'
    BY <1>2, <1>5, <1>9 DEF Writing, Quiet
  <2> QED BY <1>5, <1>9, <2>1, <2>2, <2>3 DEF StreamOK
<1>11. PendingOK'
  BY <1>6 DEF PendingOK
<1> QED BY <1>7, <1>10, <1>11

LEMMA FlowStep ==
    ASSUME OutputFits, LongBlocks, FsmType, FsmType', PairInv, RoomInv, PulseInv, PulseInv',
           PathType, PathType', StartInv, SettledInv, NonePending, MetaInv, FlowInv,
           NEW cmd, NEW inDesc, NEW inEnc, NEW inPipe, NEW axi,
           Tick(cmd, inDesc, inEnc, inPipe, axi)
    PROVE  FlowInv'
<1> SUFFICES ASSUME Flowing', ~front_error'
             PROVE  ChainOK' /\ StreamOK' /\ PendingOK'
  BY DEF FlowInv
<1>0. NBClock(cmd, inDesc)
  BY DEF Tick
<1>1. /\ Flowing \/ (state = "START" /\ state' = "WAIT")
      /\ state = "WAIT" => ~inner_error
  BY <1>0, Moves
<1>2. CASE state = "START" /\ state' = "WAIT"
  BY <1>2, FlowStart
<1>3. CASE Flowing
  <2>1. ~front_error
    BY <1>1, <1>3 DEF SettledInv, inner_error
  <2>2. ChainOK /\ StreamOK /\ PendingOK
    BY <1>3, <2>1 DEF FlowInv
  <2>3. ChainOK'
    BY <1>3, <2>2, ChainStep
  <2>4. StreamOK'
    BY <1>3, <2>2, StreamStep
  <2>5. PendingOK'
    BY <1>3, <2>2, PendingStep
  <2> QED BY <2>3, <2>4, <2>5
<1> QED BY <1>1, <1>2, <1>3

-----------------------------------------------------------------------------
(* The blocks of the current file.                                         *)

InPlace(words, base, m) ==
    \A j \in 1..m.beats : words[base + m.offset + j - 1] = <<m.blk, j>>

\* A block stays in place when everything is written behind it.
LEMMA BlockKept ==
    ASSUME PathType, NEW cmd, NEW axi, MemClock(cmd, axi), ~StartAccepted(cmd),
           NEW base \in Nat, NEW m \in Block, InPlace(mem, base, m),
           base + m.offset + m.beats <= MemBeats,
           ~InnerClear /\ TakeBeat(axi) => base + m.offset + m.beats <= cur_addr + burst_index,
           AsmWrites(axi) => base + m.offset + m.beats <= current_dst_base_addr,
           current_dst_base_addr \in Nat
    PROVE  InPlace(mem', base, m)
<1>0. /\ m.offset \in Nat /\ m.beats \in Nat /\ MemBeats \in Nat
      /\ cur_addr \in Nat /\ burst_index \in Nat /\ TailBeats \in Nat
  BY NBlockAssumption DEF Block, PathType
<1> SUFFICES ASSUME NEW j \in 1..m.beats
             PROVE  mem'[base + m.offset + j - 1] = <<m.blk, j>>
  BY DEF InPlace
<1> DEFINE x == base + m.offset + j - 1
<1>1. x \in 0..MemBeats - 1 /\ x < base + m.offset + m.beats
  BY <1>0
<1>2. mem[x] = <<m.blk, j>>
  BY DEF InPlace
<1>3. ~(~InnerClear /\ TakeBeat(axi) /\ x = cur_addr + burst_index)
  <2> HIDE DEF x
  <2> QED BY <1>0, <1>1
<1>4. ~(AsmWrites(axi) /\ x - current_dst_base_addr \in 0..TailBeats - 1)
  <2> HIDE DEF x
  <2> QED BY <1>0, <1>1
<1>5. mem'[x] = mem[x]
  <2> HIDE DEF x
  <2> QED BY <1>1, <1>3, <1>4, MemEffect
<1> QED BY <1>2, <1>5

\* Where the blocks of the file end.
LEMMA BlocksEnd ==
    ASSUME OutputFits, FsmType, PairInv, RoomInv, MetaInv,
           state \notin {"IDLE", "SPLIT_RESET"}
    PROVE  /\ sst_base_offset + running_offset <= MemBeats
           /\ \A i \in 1..blocks_in_sst :
                /\ meta[i] \in Block
                /\ meta[i].offset \in Nat /\ meta[i].beats \in Nat
                /\ meta[i].offset + meta[i].beats <= running_offset
           /\ \A i \in 1..blocks_in_sst - 1 :
                meta[i].offset + meta[i].beats <= LastOffset
           /\ LastOffset \in Nat
<1>0. /\ sst_base_offset \in Nat /\ running_offset \in Nat /\ blocks_in_sst \in Nat
      /\ MemBeats \in Nat /\ TailBeats \in Nat
  BY NBlockAssumption DEF FsmType
<1>1. sst_base_offset + running_offset <= MemBeats
  <2> DEFINE x == (NextPair - 1) * Slot
  <2>1. x \in Nat /\ x <= MemBeats /\ Used <= x
    BY SlotsFit DEF RoomInv
  <2> HIDE DEF x
  <2> QED BY <1>0, <2>1 DEF Used
<1>2. \A i \in 1..blocks_in_sst : meta[i] \in Block
  BY <1>0 DEF FsmType
<1>3. \A i \in 1..blocks_in_sst : meta[i].offset \in Nat /\ meta[i].beats \in Nat
  BY <1>2 DEF Block
<1>4. LastOffset \in Nat /\ LastOffset <= running_offset
  <2>1. CASE blocks_in_sst = 0
    BY <1>0, <2>1 DEF LastOffset
  <2>2. CASE blocks_in_sst > 0
    <3>1. /\ meta[blocks_in_sst].offset \in Nat /\ meta[blocks_in_sst].beats \in Nat
      BY <1>0, <1>3, <2>2
    <3>2. meta[blocks_in_sst].offset + meta[blocks_in_sst].beats = running_offset
      BY <2>2 DEF MetaInv
    <3>3. LastOffset = meta[blocks_in_sst].offset
      BY <1>0, <2>2 DEF LastOffset
    <3> QED BY <1>0, <3>1, <3>2, <3>3
  <2> QED BY <1>0, <2>1, <2>2
<1>5. \A i \in 1..blocks_in_sst - 1 : meta[i].offset + meta[i].beats <= LastOffset
  BY DEF MetaInv
<1>6. ASSUME NEW i \in 1..blocks_in_sst
      PROVE  meta[i].offset + meta[i].beats <= running_offset
  <2>1. CASE i = blocks_in_sst
    <3>1. meta[i].offset + meta[i].beats = running_offset
      BY <1>0, <2>1 DEF MetaInv
    <3> QED BY <1>0, <3>1
  <2>2. CASE i /= blocks_in_sst
    <3>1. i \in 1..blocks_in_sst - 1
      BY <1>0, <2>2
    <3>2. meta[i].offset + meta[i].beats <= LastOffset
      BY <1>5, <3>1
    <3>3. meta[i].offset \in Nat /\ meta[i].beats \in Nat
      BY <1>3
    <3> QED BY <1>0, <1>4, <3>2, <3>3
  <2> QED BY <2>1, <2>2
<1> QED BY <1>1, <1>2, <1>3, <1>4, <1>5, <1>6

\* Once the write engine is past the block recorded last, it is in memory.
LEMMA LastInPlace ==
    ASSUME FsmType, MetaInv, Flowing, blocks_in_sst > 0, StreamOK, Taken >= running_offset
    PROVE  InPlace(mem, sst_base_offset, meta[blocks_in_sst])
<1> DEFINE m == meta[blocks_in_sst]
<1>0. sst_base_offset \in Nat /\ running_offset \in Nat /\ blocks_in_sst \in Nat
  BY DEF FsmType
<1>1. /\ LastOffset \in Nat /\ LastOffset <= running_offset
      /\ m.beats = running_offset - LastOffset /\ LastOffset = m.offset
  BY LastOffsetNat
<1>2. Taken \in Nat /\ Stored(Stream, mem, sst_base_offset, LastOffset, Taken)
  BY DEF StreamOK
<1> SUFFICES ASSUME NEW j \in 1..m.beats
             PROVE  mem[sst_base_offset + m.offset + j - 1] = <<m.blk, j>>
  BY DEF InPlace
<1> DEFINE a == LastOffset + j - 1
<1>3. /\ a \in LastOffset..Taken - 1 /\ a \in Nat /\ a < running_offset
      /\ a - LastOffset + 1 = j
  BY <1>0, <1>1, <1>2
<1>4. sst_base_offset + m.offset + j - 1 = sst_base_offset + a
  BY <1>0, <1>1
<1>5. mem[sst_base_offset + a] = <<Stream[a].blk, Stream[a].idx>>
  BY <1>2, <1>3 DEF Stored
<1>6. Stream[a].blk = m.blk /\ Stream[a].idx = j
  <2> HIDE DEF a
  <2> QED BY <1>3, StreamBeat
<1> QED BY <1>4, <1>5, <1>6

LEMMA MetaMoves ==
    ASSUME FsmType, FsmType', PulseInv, NEW cmd, NEW in, NBClock(cmd, in),
           state' \notin {"IDLE", "SPLIT_RESET"}, blocks_in_sst' > 0
    PROVE  /\ state \notin {"IDLE", "SPLIT_RESET"} /\ sst_base_offset' = sst_base_offset
           /\ state = "WAIT" => ~inner_error
           /\ \/ UNCHANGED <<meta, blocks_in_sst, running_offset>>
              \/ /\ state = "WAIT" /\ state' /= "WAIT" /\ enc_done /\ RecordBlock
                 /\ Flowing'
           /\ state' \in {"ASSEMBLE", "SPLIT_ASM"} =>
                state \in {"ASSEMBLE", "SPLIT_ASM"} \/ (WaitsForWrite /\ WriteSeen)
<1> USE DEF fileVars, runVars, outVars, descVars
<1>0. blocks_in_sst \in Nat /\ blocks_in_sst' > 0
  BY DEF FsmType
<1>1. CASE (cmd = "clear" /\ NBClear) \/ NBIdle(cmd) \/ NBSplitReset
  BY <1>0, <1>1 DEF NBClear, NBIdle, NBSplitReset
<1>2. CASE NBPop(in) \/ NBClearState \/ NBStart \/ NBPipeRestart
  BY <1>2 DEF NBPop, NBClearState, NBStart, NBPipeRestart
<1>3. CASE NBWaitError(in) \/ NBWaitOn(in)
  BY <1>3 DEF NBWaitError, NBWaitOn, InnerFails
<1>4. CASE NBEncodedLast(in) \/ NBEncodedMore(in)
  <2>1. /\ state = "WAIT" /\ enc_done /\ ~inner_error /\ RecordBlock
        /\ state' \in {"WAIT_LAST", "WAIT_SPLIT", "POP", "PIPE_RESTART"}
        /\ sst_base_offset' = sst_base_offset
    BY <1>4 DEF NBEncodedLast, NBEncodedMore
  <2> QED BY <1>0, <2>1 DEF Flowing
<1>5. CASE NBWaitWrite
  <2>1. /\ WaitsForWrite /\ UNCHANGED <<meta, blocks_in_sst, running_offset>>
        /\ sst_base_offset' = sst_base_offset
    BY <1>5 DEF NBWaitWrite, WaitsForWrite
  <2>2. state' \in {"ASSEMBLE", "SPLIT_ASM"} => WriteSeen
    BY <1>5 DEF NBWaitWrite, WriteSeen, InnerFails
  <2> QED BY <2>1, <2>2 DEF WaitsForWrite
<1>6. CASE NBAssemble
  BY <1>6 DEF NBAssemble
<1> QED BY <1>1, <1>2, <1>3, <1>4, <1>5, <1>6 DEF NBClock

LEMMA MetaStep ==
    ASSUME OutputFits, LongBlocks, FsmType, FsmType', PairInv, PairInv', RoomInv,
           PulseInv, PulseInv', PathType, StartInv, SettledInv, SettledInv', FlowInv, MetaInv,
           NEW cmd, NEW inDesc, NEW inEnc, NEW inPipe, NEW axi,
           Tick(cmd, inDesc, inEnc, inPipe, axi)
    PROVE  MetaInv'
<1> SUFFICES ASSUME state' \notin {"IDLE", "SPLIT_RESET"}
    PROVE /\ blocks_in_sst' > 0 =>
               meta'[blocks_in_sst'].offset + meta'[blocks_in_sst'].beats = running_offset'
          /\ \A i \in 1..blocks_in_sst' - 1 :
               /\ meta'[i].offset + meta'[i].beats <= LastOffset'
               /\ InPlace(mem', sst_base_offset', meta'[i])
          /\ state' \in {"ASSEMBLE", "SPLIT_ASM"} =>
               InPlace(mem', sst_base_offset', meta'[blocks_in_sst'])
  BY DEF MetaInv, BlockInPlace, InPlace
<1>0. NBClock(cmd, inDesc) /\ MemClock(cmd, axi) /\ WriterClock(axi)
  BY DEF Tick
<1>1. blocks_in_sst' \in Nat /\ blocks_in_sst \in Nat /\ sst_base_offset \in Nat
      /\ running_offset \in Nat /\ MemBeats \in Nat
      /\ current_dst_base_addr = sst_base_offset + running_offset
      /\ current_dst_base_addr \in Nat
  BY NBlockAssumption DEF FsmType, current_dst_base_addr
<1>2. CASE blocks_in_sst' = 0
  <2>1. state' \notin {"ASSEMBLE", "SPLIT_ASM"}
    BY <1>2 DEF PairInv, Recorded
  <2> QED BY <1>2, <2>1
<1>3. CASE blocks_in_sst' > 0
  <2>1. /\ state \notin {"IDLE", "SPLIT_RESET"} /\ sst_base_offset' = sst_base_offset
        /\ state = "WAIT" => ~inner_error
        /\ \/ UNCHANGED <<meta, blocks_in_sst, running_offset>>
           \/ /\ state = "WAIT" /\ state' /= "WAIT" /\ enc_done /\ RecordBlock
              /\ Flowing'
        /\ state' \in {"ASSEMBLE", "SPLIT_ASM"} =>
             state \in {"ASSEMBLE", "SPLIT_ASM"} \/ (WaitsForWrite /\ WriteSeen)
    BY <1>0, <1>3, MetaMoves
  <2>2. /\ sst_base_offset + running_offset <= MemBeats
        /\ \A i \in 1..blocks_in_sst :
             /\ meta[i] \in Block
             /\ meta[i].offset \in Nat /\ meta[i].beats \in Nat
             /\ meta[i].offset + meta[i].beats <= running_offset
        /\ \A i \in 1..blocks_in_sst - 1 :
             meta[i].offset + meta[i].beats <= LastOffset
        /\ LastOffset \in Nat
    BY <2>1, BlocksEnd
  <2>3. \A i \in 1..blocks_in_sst - 1 : InPlace(mem, sst_base_offset, meta[i])
    BY <2>1 DEF MetaInv, BlockInPlace, InPlace
  <2>4. ~StartAccepted(cmd)
    BY <2>1 DEF StartAccepted
  <2>5. ASSUME Flowing PROVE ~front_error /\ ChainOK /\ StreamOK /\ PendingOK
    <3>1. ~front_error
      BY <2>1, <2>5 DEF SettledInv, inner_error
    <3> QED BY <2>5, <3>1 DEF FlowInv
  <2>6. ASSUME Flowing PROVE ~AsmWrites(axi)
    BY <2>6 DEF SettledInv, AsmWrites
  <2>7. ASSUME Flowing, TakeBeat(axi) PROVE cur_addr + burst_index = sst_base_offset + Taken
    <3>1. ~InnerClear
      BY <2>7 DEF InnerClear, PulseInv, Flowing
    <3>2. Taken \in Nat /\ Writing(Taken, running_offset, sst_base_offset)
      BY <2>5, <2>7 DEF StreamOK
    <3> DEFINE u == IF TakeBeat(axi) THEN Taken + 1 ELSE Taken
    <3>3. u \in Nat
      BY <3>2
    <3> QED BY <1>0, <2>7, <3>1, <3>2, <3>3, WriterEffect
  \* A block that ends at or before n is kept if the engine is at n or behind.
  <2>8. ASSUME NEW i \in 1..blocks_in_sst, InPlace(mem, sst_base_offset, meta[i]),
               Flowing, meta[i].offset + meta[i].beats <= Taken
        PROVE  InPlace(mem', sst_base_offset, meta[i])
    <3> DEFINE m == meta[i]
    <3>1. /\ m \in Block /\ m.offset \in Nat /\ m.beats \in Nat
          /\ m.offset + m.beats <= running_offset
      BY <2>2
    <3>2. InPlace(mem, sst_base_offset, m) /\ m.offset + m.beats <= Taken
      BY <2>8
    <3>3. Taken \in Nat
      BY <2>5, <2>8 DEF StreamOK
    <3>4. ~AsmWrites(axi)
      BY <2>6, <2>8
    <3>5. TakeBeat(axi) => cur_addr + burst_index = sst_base_offset + Taken
      BY <2>7, <2>8
    <3> HIDE DEF m
    <3>6. sst_base_offset + m.offset + m.beats <= MemBeats
      BY <1>1, <2>2, <3>1
    <3>7. TakeBeat(axi) => sst_base_offset + m.offset + m.beats <= cur_addr + burst_index
      BY <1>1, <3>1, <3>2, <3>3, <3>5
    <3>8. InPlace(mem', sst_base_offset, m)
      BY <1>0, <1>1, <2>4, <3>1, <3>2, <3>4, <3>6, <3>7, BlockKept
    <3> QED BY <3>8 DEF m
  \* Nothing but the assembler writes when the path is quiet.
  <2>9. ASSUME NEW i \in 1..blocks_in_sst, InPlace(mem, sst_base_offset, meta[i]), Quiet
        PROVE  InPlace(mem', sst_base_offset, meta[i])
    <3> DEFINE m == meta[i]
    <3>1. /\ m \in Block /\ m.offset \in Nat /\ m.beats \in Nat
          /\ m.offset + m.beats <= running_offset
      BY <2>2
    <3>2. InPlace(mem, sst_base_offset, m)
      BY <2>9
    <3>3. ~TakeBeat(axi)
      BY <2>9 DEF Quiet, TakeBeat
    <3> HIDE DEF m
    <3>4. /\ sst_base_offset + m.offset + m.beats <= MemBeats
          /\ sst_base_offset + m.offset + m.beats <= current_dst_base_addr
      BY <1>1, <2>2, <3>1
    <3>5. InPlace(mem', sst_base_offset, m)
      BY <1>0, <1>1, <2>4, <3>1, <3>2, <3>3, <3>4, BlockKept
    <3> QED BY <3>5 DEF m
  <2>10. CASE state = "WAIT" /\ state' /= "WAIT" /\ enc_done /\ RecordBlock /\ Flowing'
    <3>1. Flowing /\ ~front_error'
      BY <2>10 DEF Flowing, SettledInv
    <3>2. /\ enc_size \in Nat
      BY DEF PathType
    <3>3. /\ \A i \in 1..blocks_in_sst : meta'[i] = meta[i]
          /\ meta'[blocks_in_sst + 1] = [blk |-> current, offset |-> running_offset, beats |-> enc_size]
          /\ running_offset' = running_offset + enc_size
          /\ blocks_in_sst' = blocks_in_sst + 1
      BY <2>10, <3>2, RecordEffect
    <3>4. meta'[blocks_in_sst'].offset + meta'[blocks_in_sst'].beats = running_offset'
      BY <3>3
    <3>5. LastOffset' = running_offset
      <4>1. blocks_in_sst' /= 0
        BY <1>1, <1>3
      <4>2. meta'[blocks_in_sst'].offset = running_offset
        BY <3>3
      <4> QED BY <4>1, <4>2 DEF LastOffset
    <3>6. Taken > running_offset
      <4> DEFINE u == IF TakeBeat(axi) THEN Taken + 1 ELSE Taken
      <4>1. ChainOK /\ StreamOK
        BY <2>5, <3>1
      <4> QED BY <2>10, <3>1, <4>1, StreamAgree
    <3>7. Taken \in Nat
      BY <2>5, <3>1 DEF StreamOK
    <3>8. ASSUME NEW i \in 1..blocks_in_sst PROVE InPlace(mem', sst_base_offset, meta[i])
      <4>1. InPlace(mem, sst_base_offset, meta[i])
        <5>1. CASE i = blocks_in_sst
          <6>1. blocks_in_sst > 0 /\ Taken >= running_offset
            BY <1>1, <3>6, <3>7, <5>1
          <6> QED BY <2>5, <3>1, <5>1, <6>1, LastInPlace
        <5>2. CASE i /= blocks_in_sst
          <6>1. i \in 1..blocks_in_sst - 1
            BY <1>1, <5>2
          <6> QED BY <2>3, <6>1
        <5> QED BY <5>1, <5>2
      <4>2. meta[i].offset + meta[i].beats <= Taken
        <5>1. /\ meta[i].offset \in Nat /\ meta[i].beats \in Nat
              /\ meta[i].offset + meta[i].beats <= running_offset
          BY <2>2
        <5> QED BY <1>1, <3>6, <3>7, <5>1
      <4> QED BY <2>8, <3>1, <4>1, <4>2
    <3>9. \A i \in 1..blocks_in_sst' - 1 : i \in 1..blocks_in_sst
      BY <1>1, <3>3
    <3>10. state' \notin {"ASSEMBLE", "SPLIT_ASM"}
      BY <2>10 DEF Flowing
    <3> QED BY <2>1, <2>2, <3>3, <3>4, <3>5, <3>8, <3>9, <3>10
  <2>11. CASE UNCHANGED <<meta, blocks_in_sst, running_offset>>
    <3>0. /\ meta' = meta /\ blocks_in_sst' = blocks_in_sst /\ running_offset' = running_offset
          /\ blocks_in_sst > 0
      BY <1>3, <2>11
    <3>1. LastOffset' = LastOffset
      BY <3>0 DEF LastOffset
    <3>2. meta[blocks_in_sst].offset + meta[blocks_in_sst].beats = running_offset
      BY <2>1, <3>0 DEF MetaInv
    <3>3. Flowing \/ state \in {"ASSEMBLE", "SPLIT_ASM"}
      BY <1>1, <2>1, <3>0 DEF Flowing, FsmType, States, PulseInv
    <3>4. ASSUME NEW i \in 1..blocks_in_sst - 1 PROVE InPlace(mem', sst_base_offset, meta[i])
      <4>0. i \in 1..blocks_in_sst
        BY <1>1
      <4>1. InPlace(mem, sst_base_offset, meta[i])
        BY <2>3
      <4>2. CASE Flowing
        <5>1. Taken \in Nat /\ Taken > LastOffset
          BY <2>5, <3>0, <4>2 DEF StreamOK
        <5>2. /\ meta[i].offset \in Nat /\ meta[i].beats \in Nat
              /\ meta[i].offset + meta[i].beats <= LastOffset
          BY <2>2, <4>0
        <5>3. meta[i].offset + meta[i].beats <= Taken
          BY <2>2, <5>1, <5>2
        <5> QED BY <2>8, <4>0, <4>1, <4>2, <5>3
      <4>3. CASE state \in {"ASSEMBLE", "SPLIT_ASM"}
        <5>1. Quiet
          BY <4>3 DEF SettledInv, Settled
        <5> QED BY <2>9, <4>0, <4>1, <5>1
      <4> QED BY <3>3, <4>2, <4>3
    <3>5. ASSUME state' \in {"ASSEMBLE", "SPLIT_ASM"}
          PROVE  InPlace(mem', sst_base_offset, meta[blocks_in_sst])
      <4>0. blocks_in_sst \in 1..blocks_in_sst
        BY <1>1, <3>0
      <4>1. CASE state \in {"ASSEMBLE", "SPLIT_ASM"}
        <5>1. Quiet
          BY <4>1 DEF SettledInv, Settled
        <5>2. InPlace(mem, sst_base_offset, meta[blocks_in_sst])
          BY <2>1, <4>1 DEF MetaInv, BlockInPlace, InPlace
        <5> QED BY <2>9, <4>0, <5>1, <5>2
      <4>2. CASE WaitsForWrite /\ WriteSeen
        <5>1. Quiet
          BY <4>2, WriteSeenIsQuiet
        <5>2. Flowing /\ state /= "WAIT"
          BY <4>2 DEF WaitsForWrite, Flowing
        <5>3. StreamOK
          BY <2>5, <5>2
        <5>4. Taken = running_offset
          BY <5>1, <5>3 DEF StreamOK, Writing, Quiet
        <5>5. InPlace(mem, sst_base_offset, meta[blocks_in_sst])
          BY <1>1, <3>0, <5>2, <5>3, <5>4, LastInPlace
        <5> QED BY <2>9, <4>0, <5>1, <5>5
      <4> QED BY <2>1, <3>5, <4>1, <4>2
    <3> QED BY <2>1, <2>2, <3>0, <3>1, <3>2, <3>4, <3>5
  <2> QED BY <2>1, <2>10, <2>11
<1> QED BY <1>1, <1>2, <1>3

-----------------------------------------------------------------------------
(* The finished files.                                                     *)

LEMMA MemSame ==
    ASSUME PathType, NEW cmd, NEW axi, MemClock(cmd, axi),
           ~StartAccepted(cmd), ~TakeBeat(axi), ~AsmWrites(axi)
    PROVE  mem' = mem
<1>1. /\ mem' = [a \in 0..MemBeats - 1 |-> mem'[a]]
      /\ \A a \in 0..MemBeats - 1 : mem'[a] = mem[a]
  BY MemEffect
<1>2. mem = [a \in 0..MemBeats - 1 |-> mem[a]]
  BY DEF PathType
<1> QED BY <1>1, <1>2

LEMMA FilesMoves ==
    ASSUME NEW cmd, NEW in, NBClock(cmd, in), files' /= <<>>
    PROVE  /\ ~StartAccepted(cmd)
           /\ state = "IDLE" =>
                /\ state' = "IDLE" /\ ~asm_start' /\ ~front_start_pending'
                /\ inner_cmd' = IF front_start_pending THEN "front_start" ELSE "none"
           /\ \/ files' = files /\ sst_base_offset' = sst_base_offset
              \/ /\ state \in {"ASSEMBLE", "SPLIT_ASM"} /\ asm = "DONE"
                 /\ files' = Append(files, [base |-> sst_base_offset,
                                            meta |-> SubSeq(meta, 1, blocks_in_sst)])
                 /\ ~asm_start' /\ ~front_start_pending'
                 /\ inner_cmd' = IF front_start_pending THEN "front_start" ELSE "none"
                 /\ \/ state' = "IDLE" /\ sst_base_offset' = sst_base_offset
                    \/ /\ state' = "SPLIT_RESET"
                       /\ sst_base_offset' = sst_base_offset + running_offset + TailBeats
<1> USE DEF outVars
<1>1. CASE cmd = "clear" /\ NBClear
  BY <1>1 DEF NBClear
<1>2. CASE NBIdle(cmd)
  <2>1. ~(cmd = "start" /\ ~busy)
    BY <1>2 DEF NBIdle
  <2>2. ~asm_start' /\ ~front_start_pending'
    BY <1>2, <2>1, Zenon DEF NBIdle, NoAsmStart, PulseDefaults
  <2> QED BY <1>2, <2>1, <2>2 DEF NBIdle, PulseDefaults, StartAccepted
<1>3. CASE NBPop(in) \/ NBClearState \/ NBStart \/ NBWaitError(in) \/ NBWaitOn(in)
           \/ NBEncodedLast(in) \/ NBEncodedMore(in) \/ NBWaitWrite \/ NBPipeRestart
           \/ NBSplitReset
  BY <1>3 DEF NBPop, NBClearState, NBStart, NBWaitError, NBWaitOn, NBEncodedLast,
     NBEncodedMore, NBWaitWrite, NBPipeRestart, NBSplitReset, StartAccepted
<1>4. CASE NBAssemble
  <2>1. ~asm_start' /\ ~front_start_pending'
    BY <1>4, Zenon DEF NBAssemble, NoAsmStart, PulseDefaults
  <2>2. inner_cmd' = IF front_start_pending THEN "front_start" ELSE "none"
    BY <1>4 DEF NBAssemble, PulseDefaults
  <2>3. state \in {"ASSEMBLE", "SPLIT_ASM"}
    BY <1>4 DEF NBAssemble
  <2>4. CASE asm = "DONE"
    BY <1>4, <2>1, <2>2, <2>3, <2>4 DEF NBAssemble, StartAccepted
  <2>5. CASE asm /= "DONE"
    BY <1>4, <2>3, <2>5 DEF NBAssemble, StartAccepted
  <2> QED BY <2>4, <2>5
<1> QED BY <1>1, <1>2, <1>3, <1>4 DEF NBClock

FilesBelow ==
    \A f \in 1..Len(files) : \A i \in 1..Len(files[f].meta) :
        files[f].base + files[f].meta[i].offset + files[f].meta[i].beats <= sst_base_offset

IdleSilent == state = "IDLE" /\ Silent /\ asm /= "RUN" /\ ~asm_start

LEMMA FilesStep ==
    ASSUME OutputFits, FsmType, FsmType', PairInv, RoomInv, PulseInv, PathType, StartInv,
           SettledInv, MetaInv, FilesInv,
           NEW cmd, NEW inDesc, NEW inEnc, NEW inPipe, NEW axi,
           Tick(cmd, inDesc, inEnc, inPipe, axi)
    PROVE  FilesInv'
<1>0. NBClock(cmd, inDesc) /\ MemClock(cmd, axi) /\ AsmClock(axi)
  BY DEF Tick
<1>a. \A f \in 1..Len(files) : \A i \in 1..Len(files[f].meta) :
         InPlace(mem, files[f].base, files[f].meta[i])
  BY Zenon DEF FilesInv, FilesIntact, BlockInPlace, InPlace
<1>b. (\A f \in 1..Len(files') : \A i \in 1..Len(files'[f].meta) :
         InPlace(mem', files'[f].base, files'[f].meta[i])) => FilesIntact'
  BY Zenon DEF FilesIntact, BlockInPlace, InPlace
<1>1. CASE files' = <<>>
  <2>1. Len(files') = 0
    BY <1>1
  <2>2. \A f \in 1..Len(files') : FALSE
    BY <2>1
  <2> QED BY <2>2 DEF FilesInv, FilesIntact
<1>2. CASE files' /= <<>>
  <2>1. /\ ~StartAccepted(cmd)
        /\ state = "IDLE" =>
             /\ state' = "IDLE" /\ ~asm_start' /\ ~front_start_pending'
             /\ inner_cmd' = IF front_start_pending THEN "front_start" ELSE "none"
        /\ \/ files' = files /\ sst_base_offset' = sst_base_offset
           \/ /\ state \in {"ASSEMBLE", "SPLIT_ASM"} /\ asm = "DONE"
              /\ files' = Append(files, [base |-> sst_base_offset,
                                         meta |-> SubSeq(meta, 1, blocks_in_sst)])
              /\ ~asm_start' /\ ~front_start_pending'
              /\ inner_cmd' = IF front_start_pending THEN "front_start" ELSE "none"
              /\ \/ state' = "IDLE" /\ sst_base_offset' = sst_base_offset
                 \/ /\ state' = "SPLIT_RESET"
                    /\ sst_base_offset' = sst_base_offset + running_offset + TailBeats
    BY <1>0, <1>2, FilesMoves
  <2>2. ASSUME Quiet, ~front_start_pending, inner_cmd = "none", asm /= "RUN", ~asm_start,
               ~asm_start', ~front_start_pending',
               inner_cmd' = IF front_start_pending THEN "front_start" ELSE "none",
               state' = "IDLE"
        PROVE  IdleSilent'
    <3>1. Quiet'
      BY <2>2, QuietStep
    <3>2. asm' /= "RUN"
      BY <1>0, <2>2, AsmEffect
    <3> QED BY <2>2, <3>1, <3>2 DEF IdleSilent, Silent
  <2>3. ASSUME Quiet, asm /= "RUN" PROVE mem' = mem
    <3>1. ~TakeBeat(axi) /\ ~AsmWrites(axi)
      BY <2>3 DEF Quiet, TakeBeat, AsmWrites
    <3> QED BY <1>0, <2>1, <3>1, MemSame
  <2>4. /\ sst_base_offset \in Nat /\ running_offset \in Nat /\ blocks_in_sst \in Nat
        /\ TailBeats \in Nat /\ MemBeats \in Nat /\ sst_base_offset <= MemBeats
        /\ current_dst_base_addr = sst_base_offset + running_offset
    BY NBlockAssumption DEF FsmType, RoomInv, current_dst_base_addr
  <2>5. files \in Seq(File)
    BY DEF FsmType
  <2>6. ASSUME NEW f \in 1..Len(files), NEW i \in 1..Len(files[f].meta)
        PROVE  /\ files[f].base \in Nat /\ files[f].meta[i] \in Block
               /\ files[f].meta[i].offset \in Nat /\ files[f].meta[i].beats \in Nat
    <3>1. files[f] \in File
      BY <2>5
    <3>2. files[f].base \in Nat /\ files[f].meta \in Seq(Block)
      BY <3>1 DEF File
    <3>3. files[f].meta[i] \in Block
      BY <3>2
    <3> QED BY <3>2, <3>3 DEF Block
  <2>7. CASE files' = files /\ sst_base_offset' = sst_base_offset
    <3>1. CASE IdleSilent
      <4>1. mem' = mem
        BY <2>3, <3>1 DEF IdleSilent, Silent
      <4>2. FilesIntact'
        BY <1>a, <1>b, <2>7, <4>1
      <4>3. IdleSilent'
        BY <2>1, <2>2, <3>1 DEF IdleSilent, Silent
      <4> QED BY <4>2, <4>3 DEF FilesInv, IdleSilent
    <3>2. CASE FilesBelow
      <4>1. FilesBelow'
        BY <2>7, <3>2 DEF FilesBelow
      <4>2. TakeBeat(axi) => sst_base_offset <= cur_addr + burst_index
        <5>1. TakeBeat(axi) => cur_addr >= sst_base_offset
          BY DEF TakeBeat, StartInv
        <5>2. cur_addr \in Nat /\ burst_index \in Nat
          BY DEF PathType
        <5> QED BY <2>4, <5>1, <5>2
      <4>3. ASSUME NEW f \in 1..Len(files), NEW i \in 1..Len(files[f].meta)
            PROVE  InPlace(mem', files[f].base, files[f].meta[i])
        <5> DEFINE b == files[f].base
                   m == files[f].meta[i]
        <5>1. /\ b \in Nat /\ m \in Block /\ m.offset \in Nat /\ m.beats \in Nat
          BY <2>6
        <5>2. b + m.offset + m.beats <= sst_base_offset
          BY <3>2 DEF FilesBelow
        <5>3. InPlace(mem, b, m)
          BY <1>a
        <5> HIDE DEF b, m
        <5>4. cur_addr \in Nat /\ burst_index \in Nat /\ current_dst_base_addr \in Nat
          <6>1. cur_addr \in Nat /\ burst_index \in Nat
            BY DEF PathType
          <6>2. current_dst_base_addr \in Nat
            <7>1. \A x, y \in Nat : x + y \in Nat
              OBVIOUS
            <7> QED BY ONLY <2>4, <7>1
          <6> QED BY ONLY <6>1, <6>2
        <5>5. /\ b + m.offset + m.beats <= MemBeats
              /\ b + m.offset + m.beats <= current_dst_base_addr
              /\ TakeBeat(axi) => b + m.offset + m.beats <= cur_addr + burst_index
          BY <2>4, <4>2, <5>1, <5>2, <5>4
        <5>6. InPlace(mem', b, m)
          BY <1>0, <2>1, <5>1, <5>3, <5>4, <5>5, BlockKept
        <5> QED BY <5>6 DEF b, m
      <4>4. FilesIntact'
        BY <1>b, <2>7, <4>3
      <4> QED BY <4>1, <4>4 DEF FilesInv, FilesBelow
    <3> QED BY <3>1, <3>2 DEF FilesInv, FilesBelow, IdleSilent
  <2>8. CASE ~(files' = files /\ sst_base_offset' = sst_base_offset)
    <3>1. /\ state \in {"ASSEMBLE", "SPLIT_ASM"} /\ asm = "DONE"
          /\ files' = Append(files, [base |-> sst_base_offset,
                                     meta |-> SubSeq(meta, 1, blocks_in_sst)])
          /\ ~asm_start' /\ ~front_start_pending'
          /\ inner_cmd' = IF front_start_pending THEN "front_start" ELSE "none"
          /\ \/ state' = "IDLE" /\ sst_base_offset' = sst_base_offset
             \/ /\ state' = "SPLIT_RESET"
                /\ sst_base_offset' = sst_base_offset + running_offset + TailBeats
      BY <2>1, <2>8
    <3>2. Quiet /\ ~asm_start
      BY <3>1 DEF SettledInv, Settled
    <3>3. inner_cmd = "none" /\ ~front_start_pending
      BY <3>1 DEF PulseInv, FsmType, Commands
    <3>4. mem' = mem
      BY <2>3, <3>1, <3>2
    <3>5. FilesBelow
      BY <3>1 DEF FilesInv, FilesBelow
    <3> DEFINE q == SubSeq(meta, 1, blocks_in_sst)
               g == [base |-> sst_base_offset, meta |-> q]
    <3>6. q \in Seq(Block) /\ Len(q) = blocks_in_sst /\ \A i \in 1..blocks_in_sst : q[i] = meta[i]
      BY SubSeqOfBlocks DEF FsmType
    <3> HIDE DEF q
    <3>7. g \in File /\ g.base = sst_base_offset /\ g.meta = q
      BY <2>4, <3>6 DEF File
    <3>8. files' = Append(files, g)
      BY <3>1 DEF q
    <3> HIDE DEF g
    <3>9. /\ Len(files') = Len(files) + 1 /\ Len(files) \in Nat
          /\ \A f \in 1..Len(files) : files'[f] = files[f]
          /\ files'[Len(files) + 1] = g
      BY <2>5, <3>7, <3>8
    <3>10. \A f \in 1..Len(files') : f \in 1..Len(files) \/ f = Len(files) + 1
      BY <3>9
    <3>11. ASSUME NEW i \in 1..blocks_in_sst
           PROVE  /\ InPlace(mem, sst_base_offset, meta[i])
                  /\ meta[i].offset \in Nat /\ meta[i].beats \in Nat
                  /\ meta[i].offset + meta[i].beats <= running_offset
      <4>1. state \notin {"IDLE", "SPLIT_RESET"}
        BY <3>1
      <4>2. /\ meta[i].offset \in Nat /\ meta[i].beats \in Nat
            /\ meta[i].offset + meta[i].beats <= running_offset
        BY <4>1, BlocksEnd
      <4>3. CASE i = blocks_in_sst
        BY <3>1, <4>1, <4>2, <4>3 DEF MetaInv, BlockInPlace, InPlace
      <4>4. CASE i /= blocks_in_sst
        <5>1. i \in 1..blocks_in_sst - 1
          BY <2>4, <4>4
        <5> QED BY <4>1, <4>2, <5>1 DEF MetaInv, BlockInPlace, InPlace
      <4> QED BY <4>3, <4>4
    <3>12. ASSUME NEW f \in 1..Len(files'), NEW i \in 1..Len(files'[f].meta)
           PROVE  InPlace(mem', files'[f].base, files'[f].meta[i])
      <4>1. CASE f \in 1..Len(files)
        BY <1>a, <3>4, <3>9, <4>1
      <4>2. CASE f = Len(files) + 1
        <5>1. files'[f].base = sst_base_offset /\ files'[f].meta = q
          BY <3>7, <3>9, <4>2
        <5>2. i \in 1..blocks_in_sst /\ files'[f].meta[i] = meta[i]
          BY <3>6, <5>1
        <5> QED BY <3>4, <3>11, <5>1, <5>2
      <4> QED BY <3>10, <4>1, <4>2
    <3>13. FilesIntact'
      BY <1>b, <3>12
    <3>14. CASE state' = "IDLE" /\ sst_base_offset' = sst_base_offset
      <4>1. IdleSilent'
        BY <2>2, <3>1, <3>2, <3>3, <3>14
      <4> QED BY <3>13, <4>1 DEF FilesInv, IdleSilent
    <3>15. CASE sst_base_offset' = sst_base_offset + running_offset + TailBeats
      <4>1. ASSUME NEW f \in 1..Len(files'), NEW i \in 1..Len(files'[f].meta)
            PROVE  files'[f].base + files'[f].meta[i].offset + files'[f].meta[i].beats
                     <= sst_base_offset'
        <5>1. CASE f \in 1..Len(files)
          <6>1. files'[f] = files[f]
            BY <3>9, <5>1
          <6>2. i \in 1..Len(files[f].meta)
            BY <6>1
          <6> DEFINE b == files[f].base  o == files[f].meta[i].offset  n == files[f].meta[i].beats
          <6>3. b \in Nat /\ o \in Nat /\ n \in Nat /\ b + o + n <= sst_base_offset
            BY <2>6, <3>5, <5>1, <6>2 DEF FilesBelow
          <6> HIDE DEF b, o, n
          <6>4. b + o + n <= sst_base_offset'
            BY <2>4, <3>15, <6>3
          <6> QED BY <6>1, <6>4 DEF b, o, n
        <5>2. CASE f = Len(files) + 1
          <6>1. files'[f].base = sst_base_offset /\ files'[f].meta = q
            BY <3>7, <3>9, <5>2
          <6>2. i \in 1..blocks_in_sst /\ files'[f].meta[i] = meta[i]
            BY <3>6, <6>1
          <6> DEFINE o == meta[i].offset  n == meta[i].beats
          <6>3. o \in Nat /\ n \in Nat /\ o + n <= running_offset
            BY <3>11, <6>2
          <6> HIDE DEF o, n
          <6>4. sst_base_offset + o + n <= sst_base_offset'
            BY <2>4, <3>15, <6>3
          <6> QED BY <6>1, <6>2, <6>4 DEF o, n
        <5> QED BY <3>10, <5>1, <5>2
      <4>2. FilesBelow'
        BY <4>1 DEF FilesBelow
      <4> QED BY <3>13, <4>2 DEF FilesInv, FilesBelow
    <3> QED BY <3>1, <3>14, <3>15
  <2> QED BY <2>7, <2>8
<1> QED BY <1>1, <1>2

-----------------------------------------------------------------------------
(* Failed writes.                                                          *)

LEMMA FailMoves ==
    ASSUME FsmType, PulseInv, NEW cmd, NEW in, NBClock(cmd, in)
    PROVE  /\ done' => state = "ASSEMBLE"
           /\ state' /= "IDLE" /\ state = "IDLE" => StartAccepted(cmd)
           /\ state' /= "IDLE" /\ Stale /\ ~Stale' => state = "START"
           /\ state' /= "IDLE" /\ state \in {"WAIT", "WAIT_LAST", "WAIT_SPLIT"} => ~inner_error
<1> USE DEF fileVars, outVars, Stale
<1>1. CASE cmd = "clear" /\ NBClear
  <2>1. ~done'
    BY <1>1, Zenon DEF NBClear
  <2> QED BY <1>1, <2>1 DEF NBClear
<1>2. CASE NBIdle(cmd)
  <2>1. ~done'
    BY <1>2, Zenon DEF NBIdle, StatusDefaults
  <2> QED BY <1>2, <2>1 DEF NBIdle, StartAccepted
<1>3. CASE NBPop(in)
  <2>1. ~done'
    BY <1>3, Zenon DEF NBPop, StatusDefaults
  <2>2. /\ state = "POP" /\ blocks_in_sst' = blocks_in_sst /\ files' = files
        /\ state' \in {"POP", IF pipeline_restart THEN "PIPE_RESTART" ELSE "CLEAR"}
    BY <1>3 DEF NBPop
  <2>3. blocks_in_sst = 0 => ~pipeline_restart
    BY <2>2 DEF PulseInv
  <2> QED BY <2>1, <2>2, <2>3
<1>4. CASE NBClearState \/ NBStart \/ NBWaitOn(in) \/ NBEncodedLast(in) \/ NBEncodedMore(in)
           \/ NBPipeRestart \/ NBSplitReset
  <2>1. ~done'
    BY <1>4, Zenon DEF NBClearState, NBStart, NBWaitOn, NBEncodedLast, NBEncodedMore,
       NBPipeRestart, NBSplitReset, StatusDefaults
  <2> QED BY <1>4, <2>1 DEF NBClearState, NBStart, NBWaitOn, NBEncodedLast, NBEncodedMore,
       NBPipeRestart, NBSplitReset
<1>5. CASE NBWaitError(in)
  <2>1. ~done'
    BY <1>5, Zenon DEF NBWaitError, InnerFails
  <2> QED BY <1>5, <2>1 DEF NBWaitError, InnerFails
<1>6. CASE NBWaitWrite
  <2>1. ~done'
    BY <1>6, Zenon DEF NBWaitWrite, InnerFails, StatusDefaults
  <2> QED BY <1>6, <2>1 DEF NBWaitWrite, InnerFails
<1>7. CASE NBAssemble
  <2>1. state \in {"ASSEMBLE", "SPLIT_ASM"}
    BY <1>7 DEF NBAssemble
  <2>2. state = "SPLIT_ASM" => ~done'
    <3> SUFFICES ASSUME state = "SPLIT_ASM" PROVE ~done'
      OBVIOUS
    <3>1. state /= "ASSEMBLE"
      OBVIOUS
    <3>2. done' = FALSE
      BY <1>7, <3>1 DEF NBAssemble, StatusDefaults
    <3> QED BY <3>2, Zenon
  <2> QED BY <2>1, <2>2
<1> QED BY <1>1, <1>2, <1>3, <1>4, <1>5, <1>6, <1>7 DEF NBClock

LEMMA FailStep ==
    ASSUME FsmType, FsmType', PairInv, PulseInv, PulseInv', PathType, StartInv, StaleInv,
           SettledInv, FlowInv, FailInv,
           NEW cmd, NEW inDesc, NEW inEnc, NEW inPipe, NEW axi,
           Tick(cmd, inDesc, inEnc, inPipe, axi)
    PROVE  FailInv'
<1>0. NBClock(cmd, inDesc) /\ WriterClock(axi) /\ RecordFailure(cmd, axi)
  BY DEF Tick
<1>1. /\ done' => state = "ASSEMBLE"
      /\ state' /= "IDLE" /\ state = "IDLE" => StartAccepted(cmd)
      /\ state' /= "IDLE" /\ Stale /\ ~Stale' => state = "START"
      /\ state' /= "IDLE" /\ state \in {"WAIT", "WAIT_LAST", "WAIT_SPLIT"} => ~inner_error
  BY <1>0, FailMoves
<1>2. write_failed' => /\ ~StartAccepted(cmd)
                       /\ \/ write_failed
                          \/ ~InnerClear /\ wr_state = "B" /\ ~assemble_mode /\ axi = "fault"
  BY <1>0, Zenon DEF RecordFailure
<1>3. Settled => ~write_failed'
  <2> SUFFICES ASSUME Settled, write_failed' PROVE FALSE
    OBVIOUS
  <2>1. ~Flowing /\ ~Stale /\ state /= "IDLE"
    BY DEF Settled, Flowing, Stale
  <2>2. ~write_failed
    BY <2>1 DEF FailInv
  <2>3. wr_state = "IDLE"
    BY DEF SettledInv, Quiet
  <2> QED BY <1>2, <2>2, <2>3
<1>4. done' => ~write_failed'
  BY <1>1, <1>3 DEF Settled
<1>5. ASSUME ~Stale', state' /= "IDLE", write_failed' PROVE wr_error' /\ Flowing'
  <2>1. state /= "IDLE" /\ ~Settled
    BY <1>1, <1>2, <1>3, <1>5
  <2>2. ~Stale
    <3> SUFFICES ASSUME Stale PROVE FALSE
      OBVIOUS
    <3>1. state = "START"
      BY <1>1, <1>5
    <3>2. InnerClear
      BY <3>1 DEF PulseInv, InnerClear
    <3> QED BY <1>2, <1>5, <3>2 DEF StaleInv
  <2>3. Flowing
    <3>1. blocks_in_sst \in Nat /\ state \in States
      BY DEF FsmType
    <3> QED BY <2>1, <2>2, <3>1 DEF Flowing, Settled, Stale, States, PulseInv
  <2>4. Flowing'
    <3>1. /\ Settled' => Settled \/ (WaitsForWrite /\ WriteSeen)
          /\ Stale' => Stale \/ StartAccepted(cmd)
      BY <1>0, Moves
    <3>2. ~(WaitsForWrite /\ WriteSeen)
      <4> SUFFICES ASSUME WaitsForWrite, WriteSeen PROVE FALSE
        OBVIOUS
      <4>1. Quiet
        BY WriteSeenIsQuiet
      <4>2. write_failed
        BY <1>2, <1>5, <4>1 DEF Quiet
      <4>3. wr_error
        BY <2>1, <2>2, <4>2 DEF FailInv
      <4> QED BY <4>3 DEF WriteSeen, inner_error
    <3>3. ~Settled' /\ ~Stale'
      BY <1>5, <2>1, <3>1, <3>2
    <3>4. blocks_in_sst' \in Nat /\ state' \in States
      BY DEF FsmType
    <3>5. state' \in {"CLEAR", "START"} => blocks_in_sst' = 0
      BY DEF PulseInv
    <3> QED BY <1>5, <3>3, <3>4, <3>5 DEF Flowing, Settled, Stale, States
  <2>5. ~InnerClear
    BY <2>3 DEF InnerClear, PulseInv, Flowing
  <2>6. wr_error'
    <3>1. /\ wr_error /\ ~(wr_state = "IDLE" /\ wr_start) => wr_error'
          /\ wr_state = "B" /\ ~assemble_mode /\ axi = "fault" => wr_error'
      BY <1>0, <2>5, WriterFlags
    <3>2. CASE ~write_failed
      BY <1>2, <1>5, <3>1, <3>2
    <3>3. CASE write_failed
      <4>1. wr_error
        BY <2>1, <2>2, <3>3 DEF FailInv
      <4>2. state \notin {"WAIT", "WAIT_LAST", "WAIT_SPLIT"}
        BY <1>1, <1>5, <4>1 DEF inner_error
      <4>3. state /= "WAIT" /\ ~front_error
        BY <2>3, <4>2 DEF SettledInv
      <4>4. Writing(Taken, running_offset, sst_base_offset)
        BY <2>3, <4>3 DEF FlowInv, StreamOK
      <4>5. ~(wr_state = "IDLE" /\ wr_start)
        <5> SUFFICES ASSUME wr_state = "IDLE", wr_start PROVE FALSE
          OBVIOUS
        <5>1. write_beat /= <<>> /\ Taken = running_offset
          BY <4>4 DEF StartInv, Writing
        <5>2. Emitted = 0
          BY <4>3 DEF Emitted
        <5>3. /\ running_offset \in Nat /\ pipe \in Seq(BeatRec) /\ write_beat \in Seq(BeatRec)
              /\ Len(pipe) \in Nat /\ Len(write_beat) \in Nat
          <6>1. pipe \in Seq(BeatRec) /\ write_beat \in Seq(BeatRec)
            BY DEF PathType
          <6>2. Len(pipe) \in Nat /\ Len(write_beat) \in Nat
            BY <6>1
          <6> QED BY <6>1, <6>2 DEF FsmType
        <5>4. Len(write_beat) = 0
          BY <5>1, <5>2, <5>3 DEF Taken
        <5> QED BY <5>1, <5>3, <5>4
      <4> QED BY <3>1, <4>1, <4>5
    <3> QED BY <3>2, <3>3
  <2> QED BY <2>4, <2>6
<1> QED BY <1>4, <1>5 DEF FailInv

-----------------------------------------------------------------------------
(* Every pair once: the FSM's own registers suffice.                       *)

LEMMA EncoderSizeStep ==
    ASSUME enc_size \in Nat, NEW in, EncoderClock(in)
    PROVE  enc_size' \in Nat
BY NBlockAssumption DEF EncoderClock, EncoderReset, EncoderStart, EncoderWait, EncoderEmit,
   EncoderFault

LEMMA InitPairs ==
    ASSUME Init
    PROVE  FsmType /\ PairInv /\ enc_size \in Nat
<1>1. /\ pairs \in Pairs /\ taken = 0 /\ state = "IDLE" /\ current = 0 /\ next_desc = 0
      /\ runs = 0 /\ blocks_in_sst = 0 /\ running_offset = 0 /\ sst_base_offset = 0
      /\ meta = <<>> /\ files = <<>> /\ inner_cmd = "none" /\ enc_size = 0
  BY DEF Init
<1>2. ~done
  BY Zenon DEF Init
<1>3. <<>> \in Seq(Block) /\ <<>> \in Seq(File) /\ Len(<<>>) = 0
  OBVIOUS
<1>4. FsmType
  BY <1>1, <1>3 DEF FsmType, States, Commands
<1>5. FilesChain /\ MetaChain
  BY <1>1, <1>3 DEF FilesChain, MetaChain
<1>6. taken <= pairs
  BY <1>1, NBlockAssumption
<1>7. PairInv
  BY <1>1, <1>2, <1>5, <1>6 DEF PairInv, InChain, Recorded
<1> QED BY <1>1, <1>4, <1>7

LEMMA PairsUnchanged ==
    ASSUME FsmType, PairInv, UNCHANGED vars
    PROVE  FsmType' /\ PairInv'
<1>1. /\ UNCHANGED <<pairs, taken, state, done, current, desc_is_last, next_desc>>
      /\ UNCHANGED <<desc_prefetched, blocks_in_sst, running_offset, sst_base_offset>>
      /\ UNCHANGED <<inner_cmd, meta, files, runs>>
  BY DEF vars, nbVars
<1>2. FsmType'
  BY <1>1 DEF FsmType
<1>3. FirstPair' = FirstPair /\ (\A f : EndOf(f)' = EndOf(f))
  BY <1>1 DEF FirstPair, EndOf
<1>4. FilesChain'
  BY <1>1 DEF PairInv, FilesChain, EndOf
<1>5. MetaChain'
  BY <1>1, <1>3 DEF PairInv, MetaChain
<1>6. NextPair' = NextPair
  BY <1>1, <1>3 DEF NextPair
<1>7. PairInv'
  BY <1>1, <1>3, <1>4, <1>5, <1>6 DEF PairInv, Loaded
<1> QED BY <1>2, <1>7

\* A finished run's files hold every descriptor pair exactly once and in the
\* order of the stream, wherever prefetches and splits fall (EveryPairOnce).
THEOREM PairsCorrect == Spec => []EveryPairOnce
<1> DEFINE I == FsmType /\ PairInv /\ enc_size \in Nat
<1>1. Init => I
  BY InitPairs
<1>2. I /\ [Next]_vars => I'
  <2> SUFFICES ASSUME I, [Next]_vars PROVE I'
    OBVIOUS
  <2>1. CASE UNCHANGED vars
    BY <2>1, PairsUnchanged DEF vars, encVars
  <2>2. CASE Next
    <3>1. PICK cmd, inDesc, inEnc, inPipe, axi : Tick(cmd, inDesc, inEnc, inPipe, axi)
      BY <2>2 DEF Next
    <3>2. NBClock(cmd, inDesc) /\ EncoderClock(inEnc)
      BY <3>1 DEF Tick
    <3>3. FsmType'
      BY <3>2, FsmTypeStep
    <3>4. PairInv'
      BY <3>2, <3>3, PairStep
    <3> QED BY <3>2, <3>3, <3>4, EncoderSizeStep
  <2> QED BY <2>1, <2>2
<1>3. I => EveryPairOnce
  <2> SUFFICES ASSUME I, done PROVE EveryPairOnce
    BY DEF EveryPairOnce
  <2>1. FilesChain /\ files /= <<>> /\ EndOf(Len(files)) = pairs /\ files \in Seq(File)
    BY DEF PairInv, FsmType
  <2>2. Len(files) \in Nat /\ Len(files) >= 1
    BY <2>1
  <2>3. 1 \in 1..Len(files)
    BY <2>2
  <2>4. files[1].meta[1].blk = 1
    BY <2>1, <2>3 DEF FilesChain
  <2> QED BY <2>1, <2>4 DEF EveryPairOnce, FilesChain, EndOf
<1> QED BY <1>1, <1>2, <1>3, PTL DEF Spec

-----------------------------------------------------------------------------
(* The inductive invariant.                                                *)

LEMMA PairRange ==
    ASSUME FsmType, PairInv, CurrentInv, state \notin {"IDLE", "POP"}
    PROVE  current \in 1..taken
<1>0. /\ blocks_in_sst \in Nat /\ taken \in Nat /\ FirstPair \in Nat /\ FirstPair > 0
  BY FirstPairNat DEF FsmType, PairInv
<1>1. CASE state = "SPLIT_RESET"
  BY <1>1 DEF CurrentInv
<1>2. CASE state \in InChain
  <2>1. current = NextPair /\ Loaded(NextPair)
    BY <1>2 DEF PairInv
  <2>2. NextPair = FirstPair + blocks_in_sst
    BY <1>2 DEF NextPair, InChain
  <2> QED BY <1>0, <2>1, <2>2 DEF Loaded
<1>3. CASE state \in Recorded
  <2>1. current = NextPair - 1 /\ Loaded(NextPair - 1) /\ blocks_in_sst >= 1
    BY <1>3 DEF PairInv, Recorded, InChain
  <2>2. NextPair = FirstPair + blocks_in_sst
    BY <1>3 DEF NextPair, Recorded
  <2> QED BY <1>0, <2>1, <2>2 DEF Loaded
<1> QED BY <1>1, <1>2, <1>3 DEF FsmType, States, InChain, Recorded

LEMMA CurrentStep ==
    ASSUME FsmType, PairInv, CurrentInv, NEW cmd, NEW in, NBClock(cmd, in)
    PROVE  CurrentInv'
<1> SUFFICES ASSUME state' = "SPLIT_RESET" PROVE (current \in 1..taken)'
  BY DEF CurrentInv
<1>1. NBAssemble
  BY DEF NBClock, NBClear, NBIdle, NBPop, NBClearState, NBStart, NBWaitError, NBWaitOn,
     InnerFails, NBEncodedLast, NBEncodedMore, NBWaitWrite, NBPipeRestart, NBAssemble,
     NBSplitReset
<1>2. state = "SPLIT_ASM" /\ current' = current /\ taken' = taken
  BY <1>1 DEF NBAssemble, NoPrefetch, descVars
<1>3. current \in 1..taken
  BY <1>2, PairRange
<1> QED BY <1>2, <1>3

LEMMA InitIInv ==
    ASSUME Init
    PROVE  IInv
<1>1. /\ state = "IDLE" /\ inner_cmd = "none" /\ blocks_in_sst = 0 /\ running_offset = 0
      /\ sst_base_offset = 0 /\ files = <<>> /\ enc = "IDLE" /\ enc_left = 0 /\ enc_size = 0
      /\ enc_of = <<0, 0>> /\ runs = 0 /\ pipe = <<>> /\ write_beat = <<>>
      /\ wr_state = "IDLE" /\ cur_addr = 0 /\ burst_index = 0 /\ asm = "IDLE"
      /\ mem = [a \in 0..MemBeats - 1 |-> Old]
  BY DEF Init
<1>2. /\ ~done /\ ~front_start_pending /\ ~pipeline_restart /\ ~asm_start /\ ~wr_start
      /\ ~enc_done
  BY Zenon DEF Init
<1>3. FsmType /\ PairInv
  BY InitPairs
<1>4. <<>> \in Seq(BeatRec) /\ Len(<<>>) = 0 /\ PipeBeats \in Nat /\ MemBeats \in Nat
      /\ MaxBlockPairs \in Nat
  BY NBlockAssumption
<1>5. RoomInv /\ PulseInv /\ CurrentInv
  BY <1>1, <1>2, <1>4 DEF RoomInv, PulseInv, CurrentInv
<1>6. PathType
  <2>1. mem = [a \in 0..MemBeats - 1 |-> mem[a]]
    BY <1>1
  <2> QED BY <1>1, <1>4, <2>1 DEF PathType
<1>7. StartInv
  BY <1>1, <1>2 DEF StartInv
<1>8. ~Stale /\ ~Flowing /\ ~Settled
  BY <1>1 DEF Stale, Flowing, Settled
<1>9. StaleInv /\ SettledInv /\ NonePending /\ FlowInv
  BY <1>1, <1>2, <1>8 DEF StaleInv, SettledInv, NonePending, FlowInv
<1>10. RunBeats
  BY <1>1, <1>4 DEF RunBeats
<1>11. MetaInv
  BY <1>1 DEF MetaInv
<1>12. FilesInv
  <2>1. \A f \in 1..Len(files) : FALSE
    BY <1>1, <1>4
  <2> QED BY <2>1 DEF FilesInv, FilesIntact
<1>13. FailInv
  BY <1>1, <1>2 DEF FailInv
<1> QED BY <1>3, <1>5, <1>6, <1>7, <1>9, <1>10, <1>11, <1>12, <1>13 DEF IInv

LEMMA TickIInv ==
    ASSUME OutputFits, LongBlocks, IInv,
           NEW cmd, NEW inDesc, NEW inEnc, NEW inPipe, NEW axi,
           Tick(cmd, inDesc, inEnc, inPipe, axi)
    PROVE  IInv'
<1>0. /\ FsmType /\ PairInv /\ RoomInv /\ PulseInv
      /\ PathType /\ StartInv /\ StaleInv /\ SettledInv /\ RunBeats
      /\ NonePending /\ CurrentInv
      /\ FlowInv /\ MetaInv /\ FilesInv /\ FailInv
  BY DEF IInv
<1>1. NBClock(cmd, inDesc)
  BY DEF Tick
<1>2. enc_size \in Nat
  BY <1>0 DEF PathType
<1>3. state = "WAIT" /\ enc_done /\ ~inner_error =>
        inner_cmd = "none" /\ enc_size \in BlockBeats
  <2> SUFFICES ASSUME state = "WAIT", enc_done, ~inner_error
               PROVE  inner_cmd = "none" /\ enc_size \in BlockBeats
    OBVIOUS
  <2>1. ChainOK
    BY <1>0 DEF FlowInv, Flowing, inner_error
  <2> QED BY <2>1 DEF ChainOK
<1>4. FsmType'
  BY <1>0, <1>1, <1>2, FsmTypeStep
<1>5. PairInv'
  BY <1>0, <1>1, <1>2, <1>4, PairStep
<1>6. PulseInv'
  BY <1>0, <1>1, <1>3, PulseStep
<1>7. RoomInv'
  BY <1>0, <1>1, <1>2, <1>3, <1>4, <1>5, RoomStep
<1>8. runs <= runs'
  <2>1. runs' = IF cmd /= "clear" /\ StartAccepted(cmd) THEN runs + 1 ELSE runs
    BY <1>0, <1>1, <1>4, Moves
  <2>2. runs \in Nat
    BY <1>0 DEF FsmType
  <2> QED BY <2>1, <2>2
<1>9. PathType'
  BY <1>0, <1>4, <1>8, PathTypeStep
<1>10. StartInv'
  BY <1>0, StartStep
<1>11. SettledInv'
  BY <1>0, <1>4, SettledStep
<1>12. StaleInv' /\ RunBeats'
  BY <1>0, <1>4, StaleStep
<1>13. NonePending'
  BY <1>0, <1>1, <1>4, NonePendingStep
<1>14. CurrentInv'
  BY <1>0, <1>1, CurrentStep
<1>15. FlowInv'
  BY <1>0, <1>4, <1>6, <1>9, FlowStep
<1>16. MetaInv'
  BY <1>0, <1>4, <1>5, <1>6, <1>11, MetaStep
<1>17. FilesInv'
  BY <1>0, <1>4, FilesStep
<1>18. FailInv'
  BY <1>0, <1>4, <1>6, FailStep
<1> QED BY <1>4, <1>5, <1>6, <1>7, <1>9, <1>10, <1>11, <1>12, <1>13, <1>14, <1>15, <1>16,
        <1>17, <1>18 DEF IInv

LEMMA UnchangedIInv ==
    ASSUME IInv, UNCHANGED vars
    PROVE  IInv'
<1>0. /\ FsmType /\ PairInv /\ RoomInv /\ PulseInv
      /\ PathType /\ StartInv /\ StaleInv /\ SettledInv /\ RunBeats
      /\ NonePending /\ CurrentInv
      /\ FlowInv /\ MetaInv /\ FilesInv /\ FailInv
  BY DEF IInv
<1>1. /\ UNCHANGED <<pairs, taken, state, done, current, desc_is_last, next_desc>>
      /\ UNCHANGED <<desc_prefetched, blocks_in_sst, running_offset, sst_base_offset>>
      /\ UNCHANGED <<pipeline_wr_pending, pipeline_restart, wr_done_pending>>
      /\ UNCHANGED <<front_start_pending, assemble_mode, asm_start, inner_cmd, meta, files, runs>>
  BY DEF vars, nbVars
<1>2. /\ UNCHANGED <<enc, enc_left, enc_size, enc_done, front_error, enc_of>>
      /\ UNCHANGED <<pipe, write_beat, wr_start, wr_started, asm, mem, write_failed>>
      /\ UNCHANGED <<wr_state, cur_addr, burst_index, stream_last_seen, wr_done, wr_error>>
  BY DEF vars, encVars, startVars, writerVars
<1>3. FsmType' /\ PairInv'
  BY <1>0, PairsUnchanged
<1>4. FirstPair' = FirstPair /\ NextPair' = NextPair /\ Used' = Used
  BY <1>1 DEF FirstPair, NextPair, EndOf, Used
<1>5. RoomInv'
  BY <1>0, <1>1, <1>4 DEF RoomInv
<1>6. PulseInv' /\ CurrentInv'
  BY <1>0, <1>1 DEF PulseInv, CurrentInv
<1>7. PathType'
  BY <1>0, <1>1, <1>2 DEF PathType
<1>8. StartInv' /\ RunBeats'
  BY <1>0, <1>1, <1>2 DEF StartInv, RunBeats
<1>9. (Quiet' <=> Quiet) /\ (Stale' <=> Stale) /\ (Flowing' <=> Flowing)
      /\ (Settled' <=> Settled) /\ (Silent' <=> Silent)
  BY <1>1, <1>2 DEF Quiet, Stale, Flowing, Settled, Silent
<1>10. StaleInv'
  BY <1>0, <1>1, <1>2, <1>9 DEF StaleInv
<1>11. SettledInv' /\ NonePending' /\ FailInv'
  BY <1>0, <1>1, <1>2, <1>9 DEF SettledInv, NonePending, FailInv
<1>12. /\ Emitted' = Emitted /\ Taken' = Taken /\ LastOffset' = LastOffset
  BY <1>1, <1>2 DEF Emitted, Taken, LastOffset
<1>13. Stream' = Stream
  BY <1>1, <1>2, <1>12 DEF Stream
<1>14. FlowInv'
  <2>1. ChainOK => ChainOK'
    BY <1>1, <1>2 DEF ChainOK
  <2>2. StreamOK => StreamOK'
    BY <1>1, <1>2, <1>12, <1>13 DEF StreamOK, Writing
  <2>3. PendingOK => PendingOK'
    BY <1>1, <1>2, <1>12 DEF PendingOK
  <2> QED BY <1>0, <1>2, <1>9, <2>1, <2>2, <2>3 DEF FlowInv
<1>15. MetaInv'
  BY <1>0, <1>1, <1>2, <1>12 DEF MetaInv, BlockInPlace
<1>16. FilesInv'
  <2>1. FilesIntact'
    <3>1. FilesIntact /\ files' = files /\ mem' = mem
      BY <1>0, <1>1, <1>2 DEF FilesInv
    <3>2. \A f \in 1..Len(files) : \A i \in 1..Len(files[f].meta) :
            InPlace(mem, files[f].base, files[f].meta[i])
      BY ONLY <3>1, Zenon DEF FilesIntact, BlockInPlace, InPlace
    <3>3. \A f \in 1..Len(files') : \A i \in 1..Len(files'[f].meta) :
            InPlace(mem', files'[f].base, files'[f].meta[i])
      BY ONLY <3>1, <3>2
    <3> QED BY ONLY <3>3, Zenon DEF FilesIntact, BlockInPlace, InPlace
  <2>2. IdleSilent \/ FilesBelow
    BY <1>0 DEF FilesInv, IdleSilent, FilesBelow
  <2>3. (IdleSilent => IdleSilent') /\ (FilesBelow => FilesBelow')
    BY <1>1, <1>2, <1>9 DEF IdleSilent, FilesBelow
  <2> QED BY ONLY <2>1, <2>2, <2>3 DEF FilesInv, IdleSilent, FilesBelow
<1> QED BY <1>3, <1>5, <1>6, <1>7, <1>8, <1>10, <1>11, <1>14, <1>15, <1>16 DEF IInv

LEMMA Invariant ==
    ASSUME OutputFits, LongBlocks
    PROVE  Spec => []IInv
<1>1. Init => IInv
  BY InitIInv
<1>2. IInv /\ [Next]_vars => IInv'
  <2> SUFFICES ASSUME IInv, [Next]_vars PROVE IInv'
    OBVIOUS
  <2>1. CASE UNCHANGED vars
    BY <2>1, UnchangedIInv
  <2>2. CASE Next
    <3>1. PICK cmd, inDesc, inEnc, inPipe, axi : Tick(cmd, inDesc, inEnc, inPipe, axi)
      BY <2>2 DEF Next
    <3> QED BY <3>1, TickIInv
  <2> QED BY <2>1, <2>2
<1> QED BY <1>1, <1>2, PTL DEF Spec

\* Registers and queues stay in their ranges (TypeOK): no index entry beyond
\* MAX_BLOCK_PAIRS, no offset beyond the destination buffer, no beat lost for
\* want of room in the output FIFO, no descriptor taken twice.
THEOREM TypeCorrect ==
    ASSUME OutputFits, LongBlocks
    PROVE  Spec => []TypeOK
<1>1. IInv => TypeOK
  <2> SUFFICES ASSUME IInv PROVE TypeOK
    OBVIOUS
  <2>1. FsmType /\ PairInv /\ RoomInv /\ PathType /\ CurrentInv
    BY DEF IInv
  <2>2. taken \in 0..pairs
    <3>1. pairs \in Nat /\ taken \in Nat /\ taken <= pairs
      BY <2>1, NBlockAssumption DEF FsmType, PairInv
    <3> QED BY <3>1
  <2>3. state \notin {"IDLE", "POP"} => current \in 1..taken
    BY <2>1, PairRange
  <2>4. /\ running_offset \in 0..MemBeats /\ sst_base_offset \in 0..MemBeats
        /\ blocks_in_sst \in 0..MaxBlockPairs
    <3>1. /\ running_offset \in Nat /\ sst_base_offset \in Nat /\ blocks_in_sst \in Nat
          /\ running_offset <= MemBeats /\ sst_base_offset <= MemBeats
          /\ blocks_in_sst <= MaxBlockPairs /\ MemBeats \in Nat /\ MaxBlockPairs \in Nat
      BY <2>1, NBlockAssumption DEF FsmType, RoomInv
    <3> QED BY <3>1
  <2>5. /\ wr_state \in {"IDLE", "AW", "W", "B"}
        /\ Len(pipe) <= PipeBeats /\ Len(write_beat) <= 1 /\ enc_left \in 0..enc_size
    BY <2>1 DEF PathType
  <2> QED BY <2>1, <2>2, <2>3, <2>4, <2>5 DEF TypeOK, FsmType, States, Commands
<1>2. Spec => []IInv
  BY Invariant
<1> QED BY <1>1, <1>2, PTL

\* The assembler is started only when every block its index will describe is
\* in memory, complete and at its recorded offset (AssembledAfterWritten).
THEOREM AssembledCorrect ==
    ASSUME OutputFits, LongBlocks
    PROVE  Spec => []AssembledAfterWritten
<1>1. IInv => AssembledAfterWritten
  <2> SUFFICES ASSUME IInv, asm_start, NEW i \in 1..blocks_in_sst
               PROVE  BlockInPlace(sst_base_offset, meta[i])
    BY DEF AssembledAfterWritten
  <2>1. state \in {"ASSEMBLE", "SPLIT_ASM"}
    BY DEF IInv, PulseInv
  <2>2. MetaInv /\ blocks_in_sst \in Nat
    BY DEF IInv, FsmType
  <2>3. CASE i = blocks_in_sst
    BY <2>1, <2>2, <2>3 DEF MetaInv
  <2>4. CASE i /= blocks_in_sst
    <3>1. i \in 1..blocks_in_sst - 1
      BY <2>2, <2>4
    <3> QED BY <2>1, <2>2, <3>1 DEF MetaInv
  <2> QED BY <2>3, <2>4
<1>2. Spec => []IInv
  BY Invariant
<1> QED BY <1>1, <1>2, PTL

\* No later block, file tail or straggling write of a run lands on a file the
\* run has finished (FilesIntact).
THEOREM FilesCorrect ==
    ASSUME OutputFits, LongBlocks
    PROVE  Spec => []FilesIntact
<1>1. IInv => FilesIntact
  BY DEF IInv, FilesInv
<1>2. Spec => []IInv
  BY Invariant
<1> QED BY <1>1, <1>2, PTL

\* A run in which the memory rejected a write of its own never raises done
\* (WriteErrorReported): the write engine's error is seen before the next
\* start of the engine clears it.
THEOREM FailureCorrect ==
    ASSUME OutputFits, LongBlocks
    PROVE  Spec => []WriteErrorReported
<1>1. IInv => WriteErrorReported
  BY DEF IInv, FailInv, WriteErrorReported
<1>2. Spec => []IInv
  BY Invariant
<1> QED BY <1>1, <1>2, PTL

=============================================================================
