---------------------------- MODULE OffloadDriver ----------------------------
(***************************************************************************)
(* The host side: CompactionOffloadDriver over XdmaAccess, and the card as *)
(* the driver sees it through DMA and the registers of cmpct_top.  A step  *)
(* is one system call of the driver; calls of several threads interleave.  *)
(* The engine runs by itself between its start and its done or error; it   *)
(* may also never finish.                                                  *)
(*                                                                         *)
(* Data abstraction.  A job is one call.  A byte is where it comes from: a *)
(* position in a source SSTable of a job, or a position in an output file  *)
(* made from two sources and the configuration of known jobs.  Sizes are   *)
(* numbers of such bytes; the limits of the code (1 MB sources, 4 MB       *)
(* chunks, 64-byte alignment, 8-byte magic) are constants.  The addresses  *)
(* written to the base registers, the same in every call, are left out.    *)
(***************************************************************************)
EXTENDS Integers, Sequences

CONSTANTS
    Callers,        \* threads that call the driver
    MaxCalls,       \* bound on calls per thread
    Apis,           \* entry points in use: "RunOffload", "RunOffloadSplit"
    SourceFiles,    \* what a call may find: for each side, size and stated size
    OutputSizes,    \* possible outcomes of a run: the sizes of the output files
    MAX_SSTABLES,   \* entries of the engine's sstable_sizes array
    kMaxSstables,   \* greatest count the driver accepts
    MaxSrcBytes,    \* config_.max_src_bytes
    DstBytes,       \* card memory from dst_ddr_base on
    kDmaChunk,      \* most bytes of one DMA system call
    Alignment,      \* output files start at multiples of it
    MagicBytes,     \* length of kMagic, at the end of every SSTable
    Faults,         \* which of AllFaults can happen
    NoJob

AllFaults == {"read_file", "open", "dma", "read_reg", "write_reg", "write_file", "engine"}
Side == {0, 1}

ASSUME DriverAssumption ==
    /\ MaxCalls \in Nat
    /\ Apis \subseteq {"RunOffload", "RunOffloadSplit"}
    /\ SourceFiles \subseteq [Side -> [size : Nat, stated : Nat]]
    /\ MagicBytes \in Nat \ {0}
    /\ OutputSizes \subseteq Seq(Nat)
    /\ \A sz \in OutputSizes : \A i \in 1..Len(sz) : sz[i] >= MagicBytes
    /\ MAX_SSTABLES \in Nat /\ kMaxSstables \in Nat
    /\ MaxSrcBytes \in Nat \ {0} /\ DstBytes \in Nat
    /\ kDmaChunk \in Nat \ {0} /\ Alignment \in Nat \ {0}
    /\ Faults \subseteq AllFaults

VARIABLES
    \* host, one entry per thread
    pc, calls, api,
    src,            \* the two source files of the call
    fds,            \* open descriptors
    side,           \* source in hand
    xfer,           \* the transfer loop: p, addr, remaining
    data,           \* src0_data, src1_data
    regs_left,      \* configuration registers still to be written
    sst_count, sst_sizes, ddr_offset,
    outputs,        \* output_sstables; the last one may be in transfer
    result,         \* returned status
    skipped,        \* a register write of the call failed and was passed over
    out_file,       \* out_path: whether it exists, and its bytes
    \* card
    ddr,            \* memory
    cfg,            \* configuration registers: value and the job that wrote it
    r_ctrl, r_status, engine,
    seen,           \* the jobs in the source areas when the engine was started
    dst             \* sstable_count and sstable_sizes, with what the engine wrote

callVars == <<calls, api, src, skipped>>
moveVars == <<fds, side, xfer, data>>
readVars == <<sst_count, sst_sizes, ddr_offset, outputs>>
hostVars == <<pc, callVars, moveVars, regs_left, readVars, result, out_file>>
cardVars == <<ddr, cfg, r_ctrl, r_status, engine, seen, dst>>
vars == <<hostVars, cardVars>>

\* struct Config
src_ddr_base(s) == s * MaxSrcBytes
dst_ddr_base == 2 * MaxSrcBytes
Addresses == 0..dst_ddr_base + DstBytes - 1

ConfigRegs == <<"src0_size", "src1_size", "max_file_size">>
Devices == <<"h2c", "c2h", "user">>
Steps == {"idle", "open_file", "read_file", "open", "dma", "clear", "clear_off", "program",
          "start", "poll", "count", "sizes", "read_back", "create", "write_file", "fsync"}

Job(c) == <<c, calls[c]>>
Can(f) == f \in Faults
NoFile == [exists |-> FALSE, bytes |-> <<>>]
Begin(a, n) == [p |-> 0, addr |-> a, remaining |-> n]
SourceByte(j, s, i) == [job |-> j, side |-> s, at |-> i]

Init ==
    /\ pc = [c \in Callers |-> "idle"]
    /\ calls = [c \in Callers |-> 0]
    /\ api = [c \in Callers |-> "RunOffload"]
    /\ src = [c \in Callers |-> [s \in Side |-> [size |-> 0, stated |-> 0]]]
    /\ fds = [c \in Callers |-> {}]
    /\ side = [c \in Callers |-> 0]
    /\ xfer = [c \in Callers |-> Begin(0, 0)]
    /\ data = [c \in Callers |-> [s \in Side |-> <<>>]]
    /\ regs_left = [c \in Callers |-> <<>>]
    /\ sst_count = [c \in Callers |-> 0]
    /\ sst_sizes = [c \in Callers |-> <<>>]
    /\ ddr_offset = [c \in Callers |-> 0]
    /\ outputs = [c \in Callers |-> <<>>]
    /\ result = [c \in Callers |-> "none"]
    /\ skipped = [c \in Callers |-> FALSE]
    /\ out_file = [c \in Callers |-> NoFile]
    /\ ddr = [a \in Addresses |-> SourceByte(NoJob, 0, 0)]
    /\ cfg = [i \in 1..Len(ConfigRegs) |-> [job |-> NoJob, value |-> 0]]
    /\ r_ctrl = 0
    /\ r_status = "none"
    /\ engine = "idle"
    /\ seen = [s \in Side |-> NoJob]
    /\ dst = <<>>

-----------------------------------------------------------------------------
(* The card.                                                               *)

\* The job whose whole SSTable is in source area s, as far as the size
\* register reaches.
Loaded(s) ==
    LET j == ddr[src_ddr_base(s)].job
    IN  IF \A i \in 0..cfg[s + 1].value - 1 : ddr[src_ddr_base(s) + i] = SourceByte(j, s, i)
        THEN j ELSE NoJob

\* A write of CTRL acts on the rising edges of its bits; the bits stay set.
WriteCtrl(v) ==
    /\ r_ctrl' = v
    /\ \/ /\ v = 2 /\ r_ctrl /= 2
          /\ r_status' = "none"
          /\ engine' = "idle"
          /\ dst' = <<>>
          /\ UNCHANGED seen
       \/ /\ v = 1 /\ r_ctrl /= 1
          /\ r_status' = "none"
          /\ engine' = "run"
          /\ seen' = IF engine = "idle" THEN [s \in Side |-> Loaded(s)] ELSE seen
          /\ dst' = IF engine = "idle" THEN <<>> ELSE dst
       \/ /\ v = 0 \/ v = r_ctrl
          /\ UNCHANGED <<r_status, engine, seen, dst>>
    /\ UNCHANGED <<ddr, cfg>>

Align(n) == ((n + Alignment - 1) \div Alignment) * Alignment

\* Mutant: the next file is not aligned.
NextBaseUnaligned(b, n) == b + n

\* The engine's base of the next file after one of size n at base b.
NextBase(b, n) == Align(b + n)

\* Where the files of sizes sz begin, each behind the other.
FileBases(sz) ==
    LET base[i \in 1..Len(sz)] == IF i = 1 THEN 0 ELSE NextBase(base[i - 1], sz[i - 1])
    IN  base

\* The card has memory for every output it may make.
ASSUME OutputsFit ==
    \A sz \in OutputSizes : \A i \in 1..Len(sz) : FileBases(sz)[i] + sz[i] <= DstBytes

\* Files of sizes sz, made from sources s0 and s1.
EngineFiles(sz, s0, s1) ==
    [i \in 1..Len(sz) |-> [addr |-> dst_ddr_base + FileBases(sz)[i], size |-> sz[i], no |-> i,
                          of |-> <<s0, s1>> \o [r \in 1..Len(ConfigRegs) |-> cfg[r].job]]]

OutputByte(f, i) == [of |-> f.of, no |-> f.no, at |-> i, left |-> f.size - i]

\* A size register that was never written, or an empty source, is rejected
\* by the parsers.
Rejected == \E s \in Side : cfg[s + 1].value = 0

\* The sources are read while it runs: as they were at the start, or are now.
EngineDone ==
    /\ engine = "run"
    /\ ~Rejected
    /\ \E sz \in OutputSizes, s0 \in {seen[0], Loaded(0)}, s1 \in {seen[1], Loaded(1)} :
          dst' = EngineFiles(sz, s0, s1)
    /\ ddr' = [a \in Addresses |->
                 IF \E i \in 1..Len(dst') : a \in dst'[i].addr..dst'[i].addr + dst'[i].size - 1
                 THEN LET f == dst'[CHOOSE i \in 1..Len(dst') :
                                      a \in dst'[i].addr..dst'[i].addr + dst'[i].size - 1]
                      IN  OutputByte(f, a - f.addr)
                 ELSE ddr[a]]
    /\ engine' = "idle"
    /\ r_status' = "done"
    /\ UNCHANGED <<hostVars, cfg, r_ctrl, seen>>

EngineError ==
    /\ Can("engine") \/ Rejected
    /\ engine = "run"
    /\ engine' = "idle"
    /\ r_status' = "error"
    /\ UNCHANGED <<hostVars, ddr, cfg, r_ctrl, seen, dst>>

-----------------------------------------------------------------------------
(* Returning, and the transfer loops.                                      *)

At(c, step) == pc[c] = step
Goto(c, step) == pc' = [pc EXCEPT ![c] = step]

\* XdmaAccess::Close, run by the destructor when RunOffloadCore returns, and
\* the close(fd) of ReadFile and WriteFile.
CloseFile(c) == fds' = [fds EXCEPT ![c] = @ \ {"file"}]
XdmaClose(c) == fds' = [fds EXCEPT ![c] = @ \ {"h2c", "c2h", "user"}]

Return(c, status) == Goto(c, "idle") /\ result' = [result EXCEPT ![c] = status]

\* A step of RunOffloadCore that fails returns a non-OK status at once.
Fails(c, step, fault) ==
    /\ At(c, step)
    /\ Can(fault)
    /\ Return(c, "error")
    /\ XdmaClose(c)
    /\ UNCHANGED <<callVars, side, xfer, data, regs_left, readVars, out_file, cardVars>>

\* Mutant: the buffer pointer is not advanced.
AdvanceAddress(x, n) == [p |-> x.p, addr |-> x.addr + n, remaining |-> x.remaining - n]

\* n bytes were moved by one system call.
Advance(x, n) == [p |-> x.p + n, addr |-> x.addr + n, remaining |-> x.remaining - n]

\* Mutant: chunks are not limited by what is left.
FullChunk(x) == kDmaChunk

Chunk(x) == IF x.remaining < kDmaChunk THEN x.remaining ELSE kDmaChunk

\* A DMA system call may move less than asked for, or nothing, in which case
\* the loop asks again.
Moved(c) == 1..Chunk(xfer[c])

-----------------------------------------------------------------------------
(* RunOffloadSplit up to RunOffloadCore.                                   *)

CanOffload(f) == \A s \in Side : f[s].stated <= MaxSrcBytes

Call(c) ==
    /\ At(c, "idle")
    /\ calls[c] < MaxCalls
    /\ calls' = [calls EXCEPT ![c] = @ + 1]
    /\ \E a \in Apis, f \in SourceFiles :
          /\ api' = [api EXCEPT ![c] = a]
          /\ src' = [src EXCEPT ![c] = f]
          /\ IF CanOffload(f)
             THEN Goto(c, "open_file") /\ result' = [result EXCEPT ![c] = "none"]
             ELSE Return(c, "error")
    /\ side' = [side EXCEPT ![c] = 0]
    /\ data' = [data EXCEPT ![c] = [s \in Side |-> <<>>]]
    /\ outputs' = [outputs EXCEPT ![c] = <<>>]
    /\ xfer' = [xfer EXCEPT ![c] = Begin(0, 0)]
    /\ regs_left' = [regs_left EXCEPT ![c] = <<>>]
    /\ sst_count' = [sst_count EXCEPT ![c] = 0]
    /\ sst_sizes' = [sst_sizes EXCEPT ![c] = <<>>]
    /\ ddr_offset' = [ddr_offset EXCEPT ![c] = 0]
    /\ skipped' = [skipped EXCEPT ![c] = FALSE]
    /\ out_file' = [out_file EXCEPT ![c] = NoFile]
    /\ UNCHANGED <<fds, cardVars>>

\* open and fstat; the vector is given the size of the file.
OpenFile(c) ==
    /\ At(c, "open_file")
    /\ \/ /\ Can("read_file")
          /\ Return(c, "error")
          /\ UNCHANGED <<fds, xfer>>
       \/ /\ fds' = [fds EXCEPT ![c] = @ \cup {"file"}]
          /\ xfer' = [xfer EXCEPT ![c] = Begin(0, src[c][side[c]].size)]
          /\ Goto(c, "read_file")
          /\ UNCHANGED result
    /\ UNCHANGED <<callVars, side, data, regs_left, readVars, out_file, cardVars>>

\* Mutant: the descriptor is left open when read fails.
ReadFileFailsOpen(c) ==
    /\ At(c, "read_file")
    /\ Can("read_file")
    /\ Return(c, "error")
    /\ UNCHANGED <<callVars, moveVars, regs_left, readVars, out_file, cardVars>>

\* fstat fails, or read does, or the file ends before the size fstat gave.
ReadFileFails(c) ==
    /\ At(c, "read_file")
    /\ Can("read_file")
    /\ xfer[c].remaining > 0 \/ xfer[c].p = 0
    /\ Return(c, "error")
    /\ CloseFile(c)
    /\ UNCHANGED <<callVars, side, xfer, data, regs_left, readVars, out_file, cardVars>>

ReadFile(c) ==
    /\ At(c, "read_file")
    /\ xfer[c].remaining > 0
    /\ \E n \in 1..xfer[c].remaining :
          /\ data' = [data EXCEPT ![c][side[c]] =
                        @ \o [i \in 1..n |-> SourceByte(Job(c), side[c], xfer[c].p + i - 1)]]
          /\ xfer' = [xfer EXCEPT ![c] = Advance(@, n)]
    /\ UNCHANGED <<pc, callVars, fds, side, regs_left, readVars, result, out_file, cardVars>>

SizesAsStated(c) == \A s \in Side : Len(data[c][s]) = src[c][s].stated

\* After the first file comes the second; after both, the size check.
ReadFileDone(c) ==
    /\ At(c, "read_file")
    /\ xfer[c].remaining = 0
    /\ CloseFile(c)
    /\ \/ /\ side[c] = 0
          /\ side' = [side EXCEPT ![c] = 1]
          /\ Goto(c, "open_file")
          /\ UNCHANGED result
       \/ /\ side[c] = 1
          /\ UNCHANGED side
          /\ IF SizesAsStated(c) THEN Goto(c, "open") /\ UNCHANGED result
                                 ELSE Return(c, "error")
    /\ UNCHANGED <<callVars, xfer, data, regs_left, readVars, out_file, cardVars>>

-----------------------------------------------------------------------------
(* RunOffloadCore.                                                         *)

\* The devices are opened in order; the first that fails ends the call.
Open(c) ==
    \/ Fails(c, "open", "open")
    \/ /\ At(c, "open")
       /\ \E i \in 1..Len(Devices) :
             /\ \A k \in 1..Len(Devices) : Devices[k] \in fds[c] <=> k < i
             /\ fds' = [fds EXCEPT ![c] = @ \cup {Devices[i]}]
             /\ IF i < Len(Devices)
                THEN UNCHANGED <<pc, side, xfer>>
                ELSE /\ Goto(c, "dma")
                     /\ side' = [side EXCEPT ![c] = 0]
                     /\ xfer' = [xfer EXCEPT ![c] = Begin(src_ddr_base(0), Len(data[c][0]))]
       /\ UNCHANGED <<callVars, data, regs_left, readVars, result, out_file, cardVars>>

\* A transfer that fails has written a part of the area.
DmaToDevice(c) ==
    \/ xfer[c].remaining > 0 /\ Fails(c, "dma", "dma")
    \/ /\ At(c, "dma")
       /\ xfer[c].remaining > 0
       /\ \E n \in Moved(c) :
             /\ ddr' = [a \in Addresses |->
                          IF a \in xfer[c].addr..xfer[c].addr + n - 1
                          THEN data[c][side[c]][xfer[c].p + a - xfer[c].addr + 1]
                          ELSE ddr[a]]
             /\ xfer' = [xfer EXCEPT ![c] = Advance(@, n)]
       /\ UNCHANGED <<pc, callVars, fds, side, data, regs_left, readVars, result, out_file,
                      cfg, r_ctrl, r_status, engine, seen, dst>>

DmaToDeviceDone(c) ==
    /\ At(c, "dma")
    /\ xfer[c].remaining = 0
    /\ \/ /\ side[c] = 0
          /\ side' = [side EXCEPT ![c] = 1]
          /\ xfer' = [xfer EXCEPT ![c] = Begin(src_ddr_base(1), Len(data[c][1]))]
          /\ UNCHANGED pc
       \/ /\ side[c] = 1
          /\ Goto(c, "clear")
          /\ UNCHANGED <<side, xfer>>
    /\ UNCHANGED <<callVars, fds, data, regs_left, readVars, result, out_file, cardVars>>

\* WriteReg's result is not looked at: a failed write is skipped over.
CtrlStep(c, step, v, next) ==
    /\ At(c, step)
    /\ Goto(c, next)
    /\ \/ WriteCtrl(v) /\ UNCHANGED skipped
       \/ /\ Can("write_reg")
          /\ skipped' = [skipped EXCEPT ![c] = TRUE]
          /\ UNCHANGED cardVars
    /\ UNCHANGED <<calls, api, src, moveVars, readVars, result, out_file>>

\* Mutant: the card is not cleared before it is programmed.
ClearSkipped(c) ==
    /\ At(c, "clear")
    /\ Goto(c, "clear_off")
    /\ UNCHANGED <<callVars, moveVars, regs_left, readVars, result, out_file, cardVars>>

Clear(c) == CtrlStep(c, "clear", 2, "clear_off") /\ UNCHANGED regs_left
ClearOff(c) == CtrlStep(c, "clear_off", 0, "program")
               /\ regs_left' = [regs_left EXCEPT ![c] = [i \in 1..Len(ConfigRegs) |-> i]]

RegValue(c, r) ==
    IF r \in {1, 2} THEN Len(data[c][r - 1])
    ELSE IF api[c] = "RunOffload" THEN 0 ELSE MaxSrcBytes

Program(c) ==
    /\ At(c, "program")
    /\ \/ /\ cfg' = [cfg EXCEPT ![Head(regs_left[c])] =
                       [job |-> Job(c), value |-> RegValue(c, Head(regs_left[c]))]]
          /\ UNCHANGED skipped
       \/ /\ Can("write_reg")
          /\ skipped' = [skipped EXCEPT ![c] = TRUE]
          /\ UNCHANGED cfg
    /\ regs_left' = [regs_left EXCEPT ![c] = Tail(@)]
    /\ Goto(c, IF Len(regs_left[c]) = 1 THEN "start" ELSE "program")
    /\ UNCHANGED <<calls, api, src, moveVars, readVars, result, out_file, ddr, r_ctrl, r_status,
                   engine, seen, dst>>

Start(c) == CtrlStep(c, "start", 1, "poll") /\ UNCHANGED regs_left

\* The poll loop ends on done or error, on a failed read, or on the deadline.
Poll(c) ==
    /\ At(c, "poll")
    /\ r_status /= "none"
    /\ IF r_status = "error" THEN Return(c, "error") /\ XdmaClose(c)
                             ELSE Goto(c, "count") /\ UNCHANGED <<result, fds>>
    /\ UNCHANGED <<callVars, side, xfer, data, regs_left, readVars, out_file, cardVars>>

PollFails(c) == Fails(c, "poll", "read_reg")

\* Mutant: no deadline.
PollForever(c) == At(c, "poll") /\ r_status = "none" /\ UNCHANGED vars

PollTimeout(c) ==
    /\ At(c, "poll")
    /\ r_status = "none"
    /\ Return(c, "error")
    /\ XdmaClose(c)
    /\ UNCHANGED <<callVars, side, xfer, data, regs_left, readVars, out_file, cardVars>>

ReadCount(c) ==
    \/ Fails(c, "count", "read_reg")
    \/ /\ At(c, "count")
       /\ sst_count' = [sst_count EXCEPT ![c] = Len(dst)]
       /\ sst_sizes' = [sst_sizes EXCEPT ![c] = <<>>]
       /\ IF Len(dst) = 0 \/ Len(dst) > kMaxSstables
          THEN Return(c, "error") /\ XdmaClose(c)
          ELSE Goto(c, "sizes") /\ UNCHANGED <<result, fds>>
       /\ UNCHANGED <<callVars, side, xfer, data, regs_left, ddr_offset, outputs, out_file,
                      cardVars>>

\* Mutant: the array is taken to be as long as the count.
SizeRegUnbounded(i) == IF i <= Len(dst) THEN dst[i].size ELSE 0

\* SSTABLE_SIZES[i]; an index beyond the array reads as 0.
SizeReg(i) == IF i <= Len(dst) /\ i <= MAX_SSTABLES THEN dst[i].size ELSE 0

ReadSize(c) ==
    \/ Fails(c, "sizes", "read_reg")
    \/ /\ At(c, "sizes")
       /\ LET i == Len(sst_sizes[c]) + 1
          IN  IF SizeReg(i) = 0
              THEN /\ Return(c, "error")
                   /\ XdmaClose(c)
                   /\ UNCHANGED <<sst_sizes, xfer, ddr_offset, outputs>>
              ELSE /\ sst_sizes' = [sst_sizes EXCEPT ![c] = Append(@, SizeReg(i))]
                   /\ IF i < sst_count[c]
                      THEN UNCHANGED <<pc, xfer, ddr_offset, outputs>>
                      ELSE /\ Goto(c, "read_back")
                           /\ ddr_offset' = [ddr_offset EXCEPT ![c] = 0]
                           /\ xfer' = [xfer EXCEPT ![c] = Begin(dst_ddr_base, sst_sizes'[c][1])]
                           /\ outputs' = [outputs EXCEPT ![c] = <<<<>>>>]
                   /\ UNCHANGED <<result, fds>>
       /\ UNCHANGED <<callVars, side, data, regs_left, sst_count, out_file, cardVars>>

DmaFromDevice(c) ==
    \/ xfer[c].remaining > 0 /\ Fails(c, "read_back", "dma")
    \/ /\ At(c, "read_back")
       /\ xfer[c].remaining > 0
       /\ \E n \in Moved(c) :
             /\ outputs' = [outputs EXCEPT ![c][Len(outputs[c])] =
                              @ \o [i \in 1..n |-> ddr[xfer[c].addr + i - 1]]]
             /\ xfer' = [xfer EXCEPT ![c] = Advance(@, n)]
       /\ UNCHANGED <<pc, callVars, fds, side, data, regs_left, sst_count, sst_sizes, ddr_offset,
                      result, out_file, cardVars>>

\* The next file, at the next aligned address; after the last one
\* RunOffloadCore returns, and RunOffloadSplit with it.
DmaFromDeviceDone(c) ==
    LET i == Len(outputs[c])
        next == ddr_offset[c] + Align(sst_sizes[c][i])
    IN  /\ At(c, "read_back")
        /\ xfer[c].remaining = 0
        /\ ddr_offset' = [ddr_offset EXCEPT ![c] = next]
        /\ \/ /\ i < sst_count[c]
              /\ xfer' = [xfer EXCEPT ![c] = Begin(dst_ddr_base + next, sst_sizes[c][i + 1])]
              /\ outputs' = [outputs EXCEPT ![c] = Append(@, <<>>)]
              /\ UNCHANGED <<pc, fds, result>>
           \/ /\ i = sst_count[c]
              /\ XdmaClose(c)
              /\ UNCHANGED <<xfer, outputs>>
              /\ IF api[c] = "RunOffload" THEN Goto(c, "create") /\ UNCHANGED result
                                          ELSE Return(c, "OK")
        /\ UNCHANGED <<callVars, side, data, regs_left, sst_count, sst_sizes, out_file, cardVars>>

-----------------------------------------------------------------------------
(* RunOffload writes the first output; an error leaves what was written.   *)

WriteFileFails(c) ==
    /\ \/ pc[c] \in {"create", "fsync"}
       \/ At(c, "write_file") /\ xfer[c].remaining > 0
    /\ Can("write_file")
    /\ Return(c, "error")
    /\ CloseFile(c)
    /\ UNCHANGED <<callVars, side, xfer, data, regs_left, readVars, out_file, cardVars>>

CreateFile(c) ==
    /\ At(c, "create")
    /\ fds' = [fds EXCEPT ![c] = @ \cup {"file"}]
    /\ out_file' = [out_file EXCEPT ![c] = [exists |-> TRUE, bytes |-> <<>>]]
    /\ xfer' = [xfer EXCEPT ![c] = Begin(0, Len(outputs[c][1]))]
    /\ Goto(c, "write_file")
    /\ UNCHANGED <<callVars, side, data, regs_left, readVars, result, cardVars>>

WriteFile(c) ==
    /\ At(c, "write_file")
    /\ \/ /\ xfer[c].remaining > 0
          /\ \E n \in 1..xfer[c].remaining :
                /\ out_file' = [out_file EXCEPT ![c].bytes =
                                  @ \o SubSeq(outputs[c][1], xfer[c].p + 1, xfer[c].p + n)]
                /\ xfer' = [xfer EXCEPT ![c] = Advance(@, n)]
          /\ UNCHANGED pc
       \/ /\ xfer[c].remaining = 0
          /\ Goto(c, "fsync")
          /\ UNCHANGED <<out_file, xfer>>
    /\ UNCHANGED <<callVars, fds, side, data, regs_left, readVars, result, cardVars>>

SyncFile(c) ==
    /\ At(c, "fsync")
    /\ CloseFile(c)
    /\ Return(c, "OK")
    /\ UNCHANGED <<callVars, side, xfer, data, regs_left, readVars, out_file, cardVars>>

-----------------------------------------------------------------------------

Step(c) ==
    \/ OpenFile(c) \/ ReadFile(c) \/ ReadFileDone(c)
    \/ Open(c)
    \/ DmaToDevice(c) \/ DmaToDeviceDone(c)
    \/ Clear(c) \/ ClearOff(c) \/ Program(c) \/ Start(c)
    \/ Poll(c)
    \/ ReadCount(c) \/ ReadSize(c)
    \/ DmaFromDevice(c) \/ DmaFromDeviceDone(c)
    \/ CreateFile(c) \/ WriteFile(c) \/ SyncFile(c)

\* Every thread is back and has no call left.
AllReturned ==
    /\ \A c \in Callers : At(c, "idle") /\ calls[c] = MaxCalls
    /\ UNCHANGED vars

Next ==
    \/ \E c \in Callers :
          \/ Call(c) \/ Step(c) \/ PollTimeout(c)
          \/ ReadFileFails(c) \/ PollFails(c) \/ WriteFileFails(c)
    \/ EngineDone
    \/ EngineError
    \/ AllReturned

Spec == Init /\ [][Next]_vars

\* System calls return, a transfer that is asked for again and again moves a
\* byte or fails, and the deadline passes; the engine owes nothing.
FairSpec == Spec /\ \A c \in Callers : WF_vars(Step(c) \/ PollTimeout(c))

-----------------------------------------------------------------------------
(* Properties.                                                             *)

\* Types and bounds; a transfer never runs past the memory it was given.
TypeOK ==
    /\ pc \in [Callers -> Steps]
    /\ calls \in [Callers -> 0..MaxCalls]
    /\ result \in [Callers -> {"none", "OK", "error"}]
    /\ r_ctrl \in {0, 1, 2} /\ r_status \in {"none", "done", "error"}
    /\ engine \in {"idle", "run"}
    /\ \A c \in Callers :
          /\ xfer[c].remaining >= 0
          /\ Len(sst_sizes[c]) <= MAX_SSTABLES
    /\ DOMAIN ddr = Addresses

\* kMagic ends at position i of buf.
MagicAt(buf, i) == \A k \in 1..MagicBytes : buf[i - MagicBytes + k].left = MagicBytes - k + 1

\* Backward scan for the magic; 0 if there is none.
FindSStableEnd(buf) ==
    LET scan[i \in 0..Len(buf)] ==
          IF i < MagicBytes THEN 0 ELSE IF MagicAt(buf, i) THEN i ELSE scan[i - 1]
    IN  scan[Len(buf)]

\* Output number no, whole, of the run made for job j.
MadeFor(j, no, bytes) ==
    /\ Len(bytes) > 0
    /\ \A i \in 1..Len(bytes) :
          /\ bytes[i].no = no /\ bytes[i].at = i - 1 /\ bytes[i].left = Len(bytes) - i + 1
          /\ \A k \in DOMAIN bytes[i].of : bytes[i].of[k] = j

\* compaction_offload.h:64-73: a call that returns OK has given back, byte
\* for byte, output SSTables that the engine made from this call's two sources
\* and configuration, if its own register writes went through.  Nothing of an
\* earlier call, of a timed-out run that is still going on, of a failed one or
\* of one that was left half programmed is taken for it.
OkIsOwnOutput ==
    \A c \in Callers : result[c] = "OK" /\ ~skipped[c] =>
        /\ \A i \in 1..sst_count[c] : MadeFor(Job(c), i, outputs[c][i])
        /\ api[c] = "RunOffload" => MadeFor(Job(c), 1, out_file[c].bytes)

\* The addresses the driver computes from the sizes it reads are those at
\* which the engine put the files: each buffer read so far is the beginning of
\* the file meant, and FindSStableEnd finds the end of a whole one.
ReadBackExact ==
    \A c \in Callers : \A i \in 1..Len(outputs[c]) :
        LET buf == outputs[c][i]
        IN  /\ \A k \in 1..Len(buf) : buf[k].no = i /\ buf[k].at = k - 1
            /\ Len(buf) = sst_sizes[c][i] => FindSStableEnd(buf) = Len(buf)

\* When the engine is started, both source areas hold the whole SSTables of
\* the call, whatever the chunks they came in: loading the second one has not
\* touched the first one, although the areas meet at max_src_bytes.
SourcesLoaded ==
    \A c \in Callers : pc[c] = "start" => \A s \in Side : \A i \in 0..src[c][s].stated - 1 :
        ddr[src_ddr_base(s) + i] = SourceByte(Job(c), s, i)

\* No path out of a call leaves a descriptor open.
DescriptorsClosed == \A c \in Callers : pc[c] = "idle" => fds[c] = {}

\* driver/README.md:70-71: "Larger compactions fall back to software
\* automatically": a RunOffload that returns OK has written all the output.
OkIsWholeOutput ==
    \A c \in Callers : result[c] = "OK" /\ api[c] = "RunOffload" => Len(outputs[c]) = 1

\* Every call returns, also when the engine never answers.
CallReturns == \A c \in Callers : pc[c] /= "idle" ~> pc[c] = "idle"
=============================================================================
