------------------------- MODULE OffloadDriverProofs -------------------------
(***************************************************************************)
(* Theorems about OffloadDriver, for all sizes, limits and faults.  That   *)
(* no path leaves a descriptor open is proved for any number of threads;   *)
(* what is loaded, read back and returned for one thread, since the driver *)
(* does not lock the card (one background thread of LevelDB compacts).     *)
(***************************************************************************)
EXTENDS OffloadDriver, TLAPS, SequenceTheorems, WellFoundedInduction

OneCaller == \A a, b \in Callers : a = b

-----------------------------------------------------------------------------
(* Descriptors.                                                            *)

CoreSteps == {"open", "dma", "clear", "clear_off", "program", "start", "poll", "count",
              "sizes", "read_back"}

\* Which descriptors a call may hold at each step.
FdsInv ==
    /\ pc \in [Callers -> Steps]
    /\ fds \in [Callers -> SUBSET {"file", "h2c", "c2h", "user"}]
    /\ \A c \in Callers :
          /\ pc[c] \in {"idle", "open_file", "create"} => fds[c] = {}
          /\ pc[c] \in {"read_file", "write_file", "fsync"} => fds[c] \subseteq {"file"}
          /\ pc[c] \in CoreSteps => fds[c] \subseteq {"h2c", "c2h", "user"}

\* A step of one thread keeps FdsInv, whatever the others hold.
LEMMA FdsStep ==
    ASSUME FdsInv, NEW c \in Callers,
           \/ Call(c) \/ Step(c) \/ PollTimeout(c)
           \/ ReadFileFails(c) \/ PollFails(c) \/ WriteFileFails(c)
    PROVE  FdsInv'
<1> USE DEF FdsInv, Goto, At, CoreSteps, Steps, Return
<1>1. CASE Call(c)
  BY <1>1 DEF Call
<1>2. CASE OpenFile(c)
  BY <1>2 DEF OpenFile
<1>3. CASE ReadFile(c)
  BY <1>3 DEF ReadFile
<1>4. CASE ReadFileDone(c)
  BY <1>4 DEF ReadFileDone, CloseFile
<1>5. CASE Open(c)
  BY <1>5 DEF Open, Fails, XdmaClose, Devices
<1>6. CASE DmaToDevice(c)
  BY <1>6 DEF DmaToDevice, Fails, XdmaClose
<1>7. CASE DmaToDeviceDone(c)
  BY <1>7 DEF DmaToDeviceDone
<1>8. CASE Clear(c) \/ ClearOff(c) \/ Start(c)
  BY <1>8 DEF Clear, ClearOff, Start, CtrlStep, moveVars
<1>9. CASE Program(c)
  BY <1>9 DEF Program, moveVars
<1>10. CASE Poll(c) \/ PollTimeout(c) \/ PollFails(c)
  BY <1>10 DEF Poll, PollTimeout, PollFails, Fails, XdmaClose
<1>11. CASE ReadCount(c) \/ ReadSize(c)
  BY <1>11 DEF ReadCount, ReadSize, Fails, XdmaClose
<1>12. CASE DmaFromDevice(c)
  BY <1>12 DEF DmaFromDevice, Fails, XdmaClose
<1>13. CASE DmaFromDeviceDone(c)
  BY <1>13 DEF DmaFromDeviceDone, XdmaClose
<1>14. CASE CreateFile(c) \/ WriteFile(c) \/ SyncFile(c)
  <2>1. CASE CreateFile(c)
    BY <2>1 DEF CreateFile
  <2>2. CASE WriteFile(c)
    BY <2>2 DEF WriteFile
  <2>3. CASE SyncFile(c)
    BY <2>3 DEF SyncFile, CloseFile
  <2> QED BY <1>14, <2>1, <2>2, <2>3
<1>15. CASE ReadFileFails(c) \/ WriteFileFails(c)
  BY <1>15 DEF ReadFileFails, WriteFileFails, CloseFile
<1> QED BY <1>1, <1>2, <1>3, <1>4, <1>5, <1>6, <1>7, <1>8, <1>9, <1>10, <1>11, <1>12,
           <1>13, <1>14, <1>15 DEF Step

\* No path out of a call leaves a descriptor open (ReadFile, WriteFile and the
\* destructor of XdmaAccess), for any number of threads and all faults.
THEOREM DescriptorsCorrect == Spec => []DescriptorsClosed
<1>1. Init => FdsInv
  BY DEF Init, FdsInv, Steps, CoreSteps
<1>2. FdsInv /\ [Next]_vars => FdsInv'
  <2> SUFFICES ASSUME FdsInv, [Next]_vars PROVE FdsInv'
    OBVIOUS
  <2>1. CASE UNCHANGED <<pc, fds>>
    BY <2>1 DEF FdsInv
  <2>2. CASE EngineDone \/ EngineError \/ AllReturned \/ UNCHANGED vars
    BY <2>1, <2>2 DEF EngineDone, EngineError, AllReturned, vars, hostVars, moveVars
  <2> QED BY <2>2, FdsStep DEF Next
<1>3. FdsInv => DescriptorsClosed
  BY DEF FdsInv, DescriptorsClosed
<1> QED BY <1>1, <1>2, <1>3, PTL DEF Spec

-----------------------------------------------------------------------------
(* The inductive invariant for one thread.                                 *)

Jobs == (Callers \X Nat) \cup {NoJob}
SourceBytes == [job : Jobs, side : Side, at : Nat]
OutputBytes == [of : Seq(Jobs), no : Nat, at : Nat, left : Int]
OutputFiles == [addr : Nat, size : Nat, no : Nat, of : Seq(Jobs)]
Transfers == [p : Nat, addr : Nat, remaining : Nat]

HostType ==
    /\ pc \in [Callers -> Steps]
    /\ calls \in [Callers -> 0..MaxCalls]
    /\ api \in [Callers -> {"RunOffload", "RunOffloadSplit"}]
    /\ src \in [Callers -> [Side -> [size : Nat, stated : Nat]]]
    /\ side \in [Callers -> Side]
    /\ xfer \in [Callers -> Transfers]
    /\ data \in [Callers -> [Side -> Seq(SourceBytes)]]
    /\ regs_left \in [Callers -> {<<>>, <<3>>, <<2, 3>>, <<1, 2, 3>>}]
    /\ sst_count \in [Callers -> Nat]
    /\ sst_sizes \in [Callers -> Seq(Nat)]
    /\ \A c \in Callers : Len(sst_sizes[c]) <= MAX_SSTABLES
    /\ ddr_offset \in [Callers -> Nat]
    /\ outputs \in [Callers -> Seq(Seq(OutputBytes))]
    /\ result \in [Callers -> {"none", "OK", "error"}]
    /\ skipped \in [Callers -> BOOLEAN]
    /\ out_file \in [Callers -> [exists : BOOLEAN, bytes : Seq(OutputBytes)]]

\* The source areas hold source bytes only.
CardType ==
    /\ ddr \in [Addresses -> SourceBytes \cup OutputBytes]
    /\ \A a \in Addresses : a < dst_ddr_base => ddr[a] \in SourceBytes
    /\ cfg \in [1..3 -> [job : Jobs, value : Nat]]
    /\ r_ctrl \in {0, 1, 2}
    /\ r_status \in {"none", "done", "error"}
    /\ engine \in {"idle", "run"}
    /\ seen \in [Side -> Jobs]
    /\ dst \in Seq(OutputFiles)

\* The first n bytes of source s of the call are in its area.
LoadedTo(c, s, n) == \A i \in 0..n - 1 : ddr[src_ddr_base(s) + i] = SourceByte(Job(c), s, i)

WholeSources(c) == \A s \in Side : LoadedTo(c, s, Len(data[c][s]))

\* What was read of the source files, and what of it has reached the card.
SourceInv(c) ==
    /\ pc[c] /= "idle" =>
          \A s \in Side : /\ src[c][s].stated <= MaxSrcBytes
                          /\ \A i \in 1..Len(data[c][s]) :
                                data[c][s][i] = SourceByte(Job(c), s, i - 1)
    /\ pc[c] = "open_file" => data[c][side[c]] = <<>>
    /\ pc[c] = "read_file" => Len(data[c][side[c]]) = xfer[c].p
    /\ pc[c] \in {"open_file", "read_file"} /\ side[c] = 0 => data[c][1] = <<>>
    /\ pc[c] \in CoreSteps => SizesAsStated(c)
    /\ pc[c] = "dma" =>
          /\ xfer[c].p + xfer[c].remaining = Len(data[c][side[c]])
          /\ xfer[c].addr = src_ddr_base(side[c]) + xfer[c].p
          /\ LoadedTo(c, side[c], xfer[c].p)
          /\ side[c] = 1 => LoadedTo(c, 0, Len(data[c][0]))
    /\ pc[c] \in CoreSteps \ {"open", "dma"} => WholeSources(c)

OwnReg(c, r) == cfg[r] = [job |-> Job(c), value |-> RegValue(c, r)]

OwnFiles(c) == \A i \in 1..Len(dst) : \A k \in DOMAIN dst[i].of : dst[i].of[k] = Job(c)

\* Where the registers and the engine are, as long as no register write of
\* the call was passed over.
CommandInv(c) ==
    /\ pc[c] = "program" => regs_left[c] /= <<>>
    /\ ~skipped[c] =>
          /\ pc[c] = "clear_off" => engine = "idle" /\ r_status = "none"
          /\ pc[c] \in {"program", "start"} =>
                r_ctrl = 0 /\ engine = "idle" /\ r_status = "none"
          /\ pc[c] = "program" =>
                \A r \in 1..3 : r < Head(regs_left[c]) => OwnReg(c, r)
          /\ pc[c] \in {"start", "poll"} => \A r \in 1..3 : OwnReg(c, r)
          /\ pc[c] = "poll" /\ engine = "run" => seen = [s \in Side |-> Job(c)] \/ Rejected
          /\ pc[c] \in {"poll", "count", "sizes", "read_back"} /\ r_status = "done" => OwnFiles(c)

\* A status is that of the last run; a clear that stands has stopped it.
EngineInv ==
    /\ r_status /= "none" => engine = "idle"
    /\ r_ctrl = 2 => engine = "idle" /\ r_status = "none"

-----------------------------------------------------------------------------
(* Output files in card memory, and their way back.                        *)

\* A finished run has its files one behind the other at aligned offsets,
\* and all their bytes are in memory.
FilesInv ==
    r_status = "done" =>
        /\ \A i \in 1..Len(dst) :
              /\ dst[i].no = i
              /\ dst[i].size >= MagicBytes
              /\ dst[i].addr >= dst_ddr_base
              /\ dst[i].addr + dst[i].size <= dst_ddr_base + DstBytes
              /\ dst[i].addr = IF i = 1 THEN dst_ddr_base
                               ELSE dst[i - 1].addr + Align(dst[i - 1].size)
              /\ \A k \in 0..dst[i].size - 1 : ddr[dst[i].addr + k] = OutputByte(dst[i], k)

\* Bytes of output no, from its beginning.
BytesOf(no, size, bytes) ==
    \A k \in 1..Len(bytes) : /\ bytes[k].no = no
                             /\ bytes[k].at = k - 1
                             /\ bytes[k].left = size - k + 1

Own(c, bytes) ==
    \A k \in 1..Len(bytes) : \A m \in DOMAIN bytes[k].of : bytes[k].of[m] = Job(c)

\* Buffers of earlier files are full, none holds more than its file.
BuffersInv(c) ==
    \A i \in 1..Len(outputs[c]) :
        /\ i <= Len(sst_sizes[c])
        /\ sst_sizes[c][i] >= MagicBytes
        /\ Len(outputs[c][i]) <= sst_sizes[c][i]
        /\ BytesOf(i, sst_sizes[c][i], outputs[c][i])

AllRead(c) ==
    /\ Len(outputs[c]) = sst_count[c]
    /\ \A i \in 1..sst_count[c] : /\ Len(outputs[c][i]) = sst_sizes[c][i]
                                  /\ ~skipped[c] => Own(c, outputs[c][i])

ReadInv(c) ==
    /\ BuffersInv(c)
    /\ pc[c] \notin {"idle", "read_back", "create", "write_file", "fsync"} => outputs[c] = <<>>
    /\ pc[c] \in {"count", "sizes", "read_back"} => r_status = "done"
    /\ pc[c] \in {"sizes", "read_back"} =>
          /\ sst_count[c] = Len(dst)
          /\ Len(sst_sizes[c]) <= Len(dst)
          /\ \A i \in 1..Len(sst_sizes[c]) : sst_sizes[c][i] = dst[i].size
    /\ pc[c] = "sizes" => Len(sst_sizes[c]) < sst_count[c]
    /\ pc[c] = "read_back" =>
          /\ Len(sst_sizes[c]) = sst_count[c]
          /\ Len(outputs[c]) \in 1..sst_count[c]
          /\ LET i == Len(outputs[c])
             IN  /\ xfer[c].p = Len(outputs[c][i])
                 /\ xfer[c].p + xfer[c].remaining = sst_sizes[c][i]
                 /\ xfer[c].addr = dst[i].addr + xfer[c].p
                 /\ ddr_offset[c] = dst[i].addr - dst_ddr_base
                 /\ \A k \in 1..i - 1 : Len(outputs[c][k]) = sst_sizes[c][k]
          /\ ~skipped[c] => \A i \in 1..Len(outputs[c]) : Own(c, outputs[c][i])
    /\ pc[c] \in {"create", "write_file", "fsync"} \/ result[c] = "OK" =>
          /\ sst_count[c] >= 1
          /\ AllRead(c)
    /\ pc[c] \in {"create", "write_file", "fsync"} => api[c] = "RunOffload"
    /\ pc[c] = "write_file" =>
          /\ xfer[c].p + xfer[c].remaining = Len(outputs[c][1])
          /\ out_file[c].bytes = SubSeq(outputs[c][1], 1, xfer[c].p)
    /\ pc[c] = "fsync" \/ (result[c] = "OK" /\ api[c] = "RunOffload") =>
          out_file[c].bytes = outputs[c][1]
    /\ pc[c] /= "idle" => result[c] = "none"

IInv ==
    /\ HostType
    /\ CardType
    /\ EngineInv
    /\ FilesInv
    /\ \A c \in Callers : SourceInv(c) /\ CommandInv(c) /\ ReadInv(c)

-----------------------------------------------------------------------------
(* Induction over the natural numbers, for a set instead of an operator.   *)

\* A set that holds 0 and, with each number, the next one holds them all.
LEMMA SetInduction ==
    ASSUME NEW S, 0 \in S, \A n \in Nat : n \in S => n + 1 \in S
    PROVE  \A n \in Nat : n \in S
<1> DEFINE T == Nat \ S
<1> SUFFICES ASSUME T /= {} PROVE FALSE
  OBVIOUS
<1>1. IsWellFoundedOn(OpToRel(<, Nat), Nat)
  BY NatLessThanWellFounded, Zenon
<1>2. PICK x \in T : \A y \in T : ~ (<<y, x>> \in OpToRel(<, Nat))
  BY <1>1, WFMin, Zenon
<1>3. \A y \in T : ~(y < x)
  BY <1>2 DEF OpToRel
<1>4. x \in Nat /\ x /= 0
  OBVIOUS
<1>5. x - 1 \in Nat /\ x - 1 < x /\ (x - 1) + 1 = x
  BY <1>4
<1>6. x - 1 \notin T
  BY <1>3, <1>5
<1> QED BY <1>5, <1>6

-----------------------------------------------------------------------------
(* Alignment and the layout of the output files.                           *)

\* The quotient of two numbers is determined by its bounds.
LEMMA DivBounds ==
    ASSUME NEW a \in Nat, NEW d \in Nat \ {0}
    PROVE  a \div d \in Nat /\ (a \div d) * d <= a /\ a < (a \div d) * d + d
OBVIOUS

LEMMA DivUnique ==
    ASSUME NEW a \in Nat, NEW d \in Nat \ {0}, NEW q \in Nat, q * d <= a, a < q * d + d
    PROVE  a \div d = q
BY DivBounds

\* Align rounds up to a multiple, and passes over multiples.
LEMMA AlignProperties ==
    ASSUME NEW n \in Nat
    PROVE  /\ Align(n) \in Nat
           /\ Align(n) >= n
           /\ \E m \in Nat : Align(n) = m * Alignment
           /\ \A q \in Nat : Align(q * Alignment + n) = q * Alignment + Align(n)
<1> DEFINE k == (n + Alignment - 1) \div Alignment
<1>0. Alignment \in Nat \ {0} /\ n + Alignment - 1 \in Nat
  BY DriverAssumption
<1>1. k \in Nat /\ k * Alignment <= n + Alignment - 1 /\ n + Alignment - 1 < k * Alignment + Alignment
  BY <1>0, DivBounds
<1>2. k * Alignment \in Nat
  BY <1>0, <1>1
<1>3. Align(n) = k * Alignment
  BY DEF Align
<1>4. ASSUME NEW q \in Nat PROVE Align(q * Alignment + n) = q * Alignment + Align(n)
  <2>1. q * Alignment \in Nat /\ q + k \in Nat
    BY <1>0, <1>1
  <2>2. (q + k) * Alignment = q * Alignment + k * Alignment
    BY <1>0, <1>1
  <2> DEFINE a == q * Alignment + n + Alignment - 1
  <2>3. a \in Nat /\ (q + k) * Alignment <= a /\ a < (q + k) * Alignment + Alignment
    BY <1>0, <1>1, <1>2, <2>1, <2>2
  <2>4. a \div Alignment = q + k
    BY <1>0, <2>1, <2>3, DivUnique
  <2> QED BY <2>2, <2>4, <1>3 DEF Align
<1> HIDE DEF k
<1>5. Align(n) \in Nat /\ Align(n) >= n
  BY <1>0, <1>1, <1>2, <1>3
<1>6. \E m \in Nat : Align(n) = m * Alignment
  BY <1>1, <1>3
<1> QED BY <1>4, <1>5, <1>6

\* What a sequence of bases must satisfy.
IsLayout(g, sz, n) ==
    /\ g \in [1..n -> Nat]
    /\ \A i \in 1..n : g[i] = IF i = 1 THEN 0 ELSE NextBase(g[i - 1], sz[i - 1])

\* The recursion of FileBases has a solution.
LEMMA FileBasesRecursion ==
    ASSUME NEW sz \in Seq(Nat)
    PROVE  IsLayout(FileBases(sz), sz, Len(sz))
<1> DEFINE S == {n \in Nat : n <= Len(sz) => \E g : IsLayout(g, sz, n)}
<1>1. 0 \in S
  <2>1. IsLayout([i \in 1..0 |-> 0], sz, 0)
    BY DEF IsLayout
  <2> QED BY <2>1
<1>2. ASSUME NEW n \in Nat, n \in S PROVE n + 1 \in S
  <2> SUFFICES ASSUME n + 1 <= Len(sz) PROVE \E g : IsLayout(g, sz, n + 1)
    OBVIOUS
  <2>1. Len(sz) \in Nat /\ \A i \in 1..Len(sz) : sz[i] \in Nat
    OBVIOUS
  <2>2. PICK g : IsLayout(g, sz, n)
    BY <1>2, <2>1
  <2> DEFINE v == IF n = 0 THEN 0 ELSE NextBase(g[n], sz[n])
             h == [i \in 1..n + 1 |-> IF i = n + 1 THEN v ELSE g[i]]
  <2>3. v \in Nat
    <3>1. CASE n = 0
      BY <3>1
    <3>2. CASE n /= 0
      <4>1. g[n] \in Nat /\ sz[n] \in Nat
        BY <3>2, <2>1, <2>2 DEF IsLayout
      <4>2. g[n] + sz[n] \in Nat
        BY <4>1
      <4> QED BY <3>2, <4>2, AlignProperties DEF NextBase
    <3> QED BY <3>1, <3>2
  <2> HIDE DEF v
  <2>4. h \in [1..n + 1 -> Nat]
    BY <2>2, <2>3 DEF IsLayout
  <2>5. ASSUME NEW i \in 1..n + 1
        PROVE  h[i] = IF i = 1 THEN 0 ELSE NextBase(h[i - 1], sz[i - 1])
    <3>1. CASE i = n + 1
      BY <3>1 DEF v
    <3>2. CASE i /= n + 1
      <4>1. i \in 1..n /\ h[i] = g[i]
        BY <3>2
      <4>2. i /= 1 => i - 1 \in 1..n /\ h[i - 1] = g[i - 1]
        BY <4>1
      <4> QED BY <4>1, <4>2, <2>2 DEF IsLayout
    <3> QED BY <3>1, <3>2
  <2>6. IsLayout(h, sz, n + 1)
    BY <2>4, <2>5 DEF IsLayout
  <2> QED BY <2>6
<1> HIDE DEF S
<1>3. Len(sz) \in S
  BY <1>1, <1>2, SetInduction
<1>4. PICK g : IsLayout(g, sz, Len(sz))
  BY <1>3 DEF S
<1> DEFINE F(b) == [i \in 1..Len(sz) |-> IF i = 1 THEN 0 ELSE NextBase(b[i - 1], sz[i - 1])]
<1>5. g = F(g)
  BY <1>4 DEF IsLayout
<1>6. FileBases(sz) = CHOOSE b : b = F(b)
  BY DEF FileBases
<1>7. FileBases(sz) = F(FileBases(sz))
  BY <1>5, <1>6
<1> DEFINE b == FileBases(sz)
           R == {n \in Nat : n \in 1..Len(sz) => b[n] \in Nat}
<1>8. \A i \in 1..Len(sz) : b[i] = IF i = 1 THEN 0 ELSE NextBase(b[i - 1], sz[i - 1])
  BY <1>7
<1> HIDE DEF b
<1>9. ASSUME NEW n \in Nat, n \in R PROVE n + 1 \in R
  <2> SUFFICES ASSUME n + 1 \in 1..Len(sz), n /= 0 PROVE b[n + 1] \in Nat
    BY <1>8
  <2>1. n \in 1..Len(sz) /\ (n + 1) - 1 = n
    OBVIOUS
  <2>2. b[n] + sz[n] \in Nat
    BY <1>9, <2>1
  <2>3. b[n + 1] = Align(b[n] + sz[n])
    BY <1>8, <2>1 DEF NextBase
  <2> QED BY <2>2, <2>3, AlignProperties
<1>10. 0 \in R
  OBVIOUS
<1> HIDE DEF R
<1>11. \A n \in Nat : n \in R
  BY <1>9, <1>10, SetInduction
<1>12. \A i \in 1..Len(sz) : b[i] \in Nat
  BY <1>11 DEF R
<1>13. b \in [1..Len(sz) -> Nat]
  BY <1>7, <1>12 DEF b
<1> QED BY <1>8, <1>13 DEF IsLayout, b

\* Bases are aligned, so that the driver's sum of aligned sizes finds them,
\* and each file begins behind the one before.
LEMMA LayoutProperties ==
    ASSUME NEW sz \in Seq(Nat)
    PROVE  /\ FileBases(sz) \in [1..Len(sz) -> Nat]
           /\ \A i \in 1..Len(sz) :
                 FileBases(sz)[i] = IF i = 1 THEN 0 ELSE FileBases(sz)[i - 1] + Align(sz[i - 1])
           /\ \A i, j \in 1..Len(sz) : i < j => FileBases(sz)[i] + sz[i] <= FileBases(sz)[j]
<1> DEFINE b == FileBases(sz)
<1>1. /\ b \in [1..Len(sz) -> Nat]
      /\ \A i \in 1..Len(sz) : b[i] = IF i = 1 THEN 0 ELSE NextBase(b[i - 1], sz[i - 1])
  BY FileBasesRecursion DEF IsLayout
<1> HIDE DEF b
<1>2. Len(sz) \in Nat /\ \A i \in 1..Len(sz) : sz[i] \in Nat
  OBVIOUS
<1>3. \A i \in 1..Len(sz) : \E q \in Nat : b[i] = q * Alignment
  <2> SUFFICES ASSUME NEW i \in 1..Len(sz) PROVE \E q \in Nat : b[i] = q * Alignment
    OBVIOUS
  <2>1. CASE i = 1
    <3>1. b[i] = 0 * Alignment
      BY <1>1, <2>1, DriverAssumption
    <3> QED BY <3>1
  <2>2. CASE i /= 1
    <3>1. i - 1 \in 1..Len(sz) /\ b[i] = Align(b[i - 1] + sz[i - 1])
      BY <1>1, <2>2 DEF NextBase
    <3>2. b[i - 1] \in Nat /\ sz[i - 1] \in Nat
      BY <1>1, <1>2, <3>1
    <3>3. b[i - 1] + sz[i - 1] \in Nat
      BY <3>2
    <3> QED BY <3>1, <3>3, AlignProperties
  <2> QED BY <2>1, <2>2
<1>4. ASSUME NEW i \in 1..Len(sz), i /= 1 PROVE b[i] = b[i - 1] + Align(sz[i - 1])
  <2>1. i - 1 \in 1..Len(sz) /\ b[i] = Align(b[i - 1] + sz[i - 1])
    BY <1>1, <1>4 DEF NextBase
  <2>2. PICK q \in Nat : b[i - 1] = q * Alignment
    BY <1>3, <2>1
  <2>3. sz[i - 1] \in Nat
    BY <1>2, <2>1
  <2> QED BY <2>1, <2>2, <2>3, AlignProperties
<1> DEFINE S == {n \in Nat : \A i, j \in 1..Len(sz) : i < j /\ j <= n => b[i] + sz[i] <= b[j]}
<1>5. 0 \in S
  OBVIOUS
<1>6. ASSUME NEW n \in Nat, n \in S PROVE n + 1 \in S
  <2> SUFFICES ASSUME NEW i \in 1..Len(sz), n + 1 \in 1..Len(sz), i < n + 1
               PROVE  b[i] + sz[i] <= b[n + 1]
    BY <1>6
  <2>1. n \in 1..Len(sz) /\ (n + 1) - 1 = n /\ n + 1 /= 1
    OBVIOUS
  <2>2. b[n + 1] = b[n] + Align(sz[n])
    BY <1>4, <2>1
  <2>3. Align(sz[n]) \in Nat /\ Align(sz[n]) >= sz[n]
    BY <1>2, <2>1, AlignProperties
  <2>4. b[n] \in Nat /\ b[i] \in Nat /\ sz[n] \in Nat /\ sz[i] \in Nat
    BY <1>1, <1>2, <2>1
  <2>5. CASE i = n
    BY <2>2, <2>3, <2>4, <2>5
  <2>6. CASE i /= n
    <3>1. b[i] + sz[i] <= b[n]
      BY <1>6, <2>1, <2>6
    <3>2. \A x, y, z \in Nat : x <= y => x <= y + z
      OBVIOUS
    <3>3. b[i] + sz[i] \in Nat
      BY ONLY <2>4
    <3> QED BY ONLY <3>1, <3>2, <3>3, <2>2, <2>3, <2>4
  <2> QED BY <2>5, <2>6
<1> HIDE DEF S
<1>7. Len(sz) \in S
  BY <1>2, <1>5, <1>6, SetInduction
<1>8. \A i, j \in 1..Len(sz) : i < j => b[i] + sz[i] <= b[j]
  BY <1>2, <1>7 DEF S
<1> QED BY <1>1, <1>4, <1>8 DEF b

\* The backward scan ends at once where a whole SSTable ends.
LEMMA ScanFindsEnd ==
    ASSUME NEW buf, Len(buf) \in Nat, Len(buf) >= MagicBytes, MagicAt(buf, Len(buf))
    PROVE  FindSStableEnd(buf) = Len(buf)
<1> DEFINE N == Len(buf)
           F(g, n) == [i \in 0..n |-> IF i < MagicBytes THEN 0
                                      ELSE IF MagicAt(buf, i) THEN i ELSE g[i - 1]]
           S == {n \in Nat : \E g : g = F(g, n)}
<1>0. MagicBytes \in Nat \ {0} /\ N \in Nat
  BY DriverAssumption
<1>1. 0 \in S
  <2>1. [i \in 0..0 |-> 0] = F([i \in 0..0 |-> 0], 0)
    BY <1>0
  <2> QED BY <2>1
<1>2. ASSUME NEW n \in Nat, n \in S PROVE n + 1 \in S
  <2>1. PICK g : g = F(g, n)
    BY <1>2
  <2> DEFINE v == IF n + 1 < MagicBytes THEN 0 ELSE IF MagicAt(buf, n + 1) THEN n + 1 ELSE g[n]
             h == [i \in 0..n + 1 |-> IF i = n + 1 THEN v ELSE g[i]]
  <2>2. ASSUME NEW i \in 0..n + 1
        PROVE  h[i] = IF i < MagicBytes THEN 0 ELSE IF MagicAt(buf, i) THEN i ELSE h[i - 1]
    <3>1. CASE i = n + 1
      <4>1. h[i] = v /\ i - 1 = n /\ h[i - 1] = g[n]
        BY <3>1
      <4> QED BY <3>1, <4>1
    <3>2. CASE i /= n + 1
      <4>1. i \in 0..n /\ h[i] = g[i]
        BY <3>2
      <4>2. g[i] = IF i < MagicBytes THEN 0 ELSE IF MagicAt(buf, i) THEN i ELSE g[i - 1]
        BY <2>1, <4>1
      <4>3. CASE i >= MagicBytes
        <5>1. i - 1 \in 0..n + 1 /\ i - 1 /= n + 1
          BY <1>0, <4>1, <4>3
        <5>2. h[i - 1] = g[i - 1]
          BY <5>1
        <5> QED BY <4>1, <4>2, <5>2
      <4>4. CASE i < MagicBytes
        BY <4>1, <4>2, <4>4
      <4> QED BY <1>0, <4>3, <4>4
    <3> QED BY <3>1, <3>2
  <2>3. h = F(h, n + 1)
    BY <2>2
  <2> HIDE DEF h
  <2>4. \E f : f = F(f, n + 1)
    BY <2>3
  <2> QED BY <2>4
<1> HIDE DEF S
<1>3. N \in S
  BY <1>0, <1>1, <1>2, SetInduction
<1>4. PICK g : g = F(g, N)
  BY <1>3 DEF S
<1> DEFINE scan == CHOOSE e : e = F(e, N)
<1>5. FindSStableEnd(buf) = scan[N]
  BY DEF FindSStableEnd
<1>6. scan = F(scan, N)
  BY <1>4
<1>7. scan[N] = IF N < MagicBytes THEN 0 ELSE IF MagicAt(buf, N) THEN N ELSE scan[N - 1]
  <2> HIDE DEF scan
  <2> QED BY <1>0, <1>6
<1> QED BY <1>0, <1>5, <1>7

-----------------------------------------------------------------------------
(* Steps of the thread: types.                                             *)

CallerStep(c) ==
    \/ Call(c) \/ Step(c) \/ PollTimeout(c)
    \/ ReadFileFails(c) \/ PollFails(c) \/ WriteFileFails(c)

\* The registers are programmed in order.
LEMMA RegisterTails ==
    /\ Tail(<<3>>) = <<>> /\ Tail(<<2, 3>>) = <<3>> /\ Tail(<<1, 2, 3>>) = <<2, 3>>
    /\ Head(<<3>>) = 3 /\ Head(<<2, 3>>) = 2 /\ Head(<<1, 2, 3>>) = 1
    /\ Len(<<3>>) = 1 /\ Len(<<2, 3>>) = 2 /\ Len(<<1, 2, 3>>) = 3
<1>1. Tail(<<3>>) = <<>>
  OBVIOUS
<1>2. Tail(<<2, 3>>) = <<3>>
  OBVIOUS
<1>3. Tail(<<1, 2, 3>>) = <<2, 3>>
  OBVIOUS
<1> QED BY <1>1, <1>2, <1>3

\* A transfer starts and goes on within its type.
LEMMA TransferType ==
    /\ \A x \in Transfers : x.p \in Nat /\ x.addr \in Nat /\ x.remaining \in Nat
    /\ \A a, n \in Nat : Begin(a, n) \in Transfers
    /\ \A x \in Transfers : \A n \in 1..x.remaining : Advance(x, n) \in Transfers
    /\ \A d \in Callers : xfer[d] \in Transfers => Moved(d) \subseteq 1..xfer[d].remaining
BY DriverAssumption DEF Transfers, Begin, Advance, Moved, Chunk

\* The same for the variable: a transfer of the thread starts or goes on.
LEMMA TransferBegins ==
    ASSUME xfer \in [Callers -> Transfers], NEW c \in Callers, NEW a \in Nat, NEW n \in Nat,
           xfer' = [xfer EXCEPT ![c] = Begin(a, n)]
    PROVE  xfer' \in [Callers -> Transfers] /\ xfer'[c] = Begin(a, n)
<1>1. Begin(a, n) \in Transfers
  BY TransferType
<1> QED BY <1>1

LEMMA TransferAdvances ==
    ASSUME xfer \in [Callers -> Transfers], NEW c \in Callers, NEW n \in 1..xfer[c].remaining,
           xfer' = [xfer EXCEPT ![c] = Advance(@, n)]
    PROVE  xfer' \in [Callers -> Transfers] /\ xfer'[c] = Advance(xfer[c], n)
<1>1. Advance(xfer[c], n) \in Transfers
  BY TransferType
<1> QED BY <1>1

\* Arithmetic of a chunk within a file of size z at address b.
LEMMA OffsetInFile ==
    ASSUME NEW p \in Nat, NEW r \in Nat, NEW b \in Nat, NEW z \in Nat, p + r = z,
           NEW n \in 1..r, NEW i \in 1..n, NEW a, a = b + p
    PROVE  p + i - 1 \in 0..z - 1 /\ a + i - 1 = b + (p + i - 1)
OBVIOUS

\* While a file is read back, the next bytes of the transfer are the next
\* bytes of the file.
LEMMA BytesArriving ==
    ASSUME IInv, NEW c \in Callers, At(c, "read_back"), NEW n \in Moved(c), NEW i \in 1..n
    PROVE  LET f == dst[Len(outputs[c])]
           IN  /\ Len(outputs[c]) \in 1..Len(dst)
               /\ ddr[xfer[c].addr + i - 1] = OutputByte(f, xfer[c].p + i - 1)
               /\ ddr[xfer[c].addr + i - 1] \in OutputBytes
<1> DEFINE j == Len(outputs[c])
<1>1. xfer[c] \in Transfers
  BY DEF IInv, HostType
<1>2. /\ xfer[c].p \in Nat /\ xfer[c].addr \in Nat /\ xfer[c].remaining \in Nat
      /\ n \in 1..xfer[c].remaining
  BY <1>1, TransferType
<1>3. dst \in Seq(OutputFiles)
  BY DEF IInv, CardType
<1>4. /\ r_status = "done"
      /\ sst_count[c] = Len(dst) /\ Len(sst_sizes[c]) = sst_count[c]
      /\ j \in 1..sst_count[c]
      /\ \A k \in 1..Len(sst_sizes[c]) : sst_sizes[c][k] = dst[k].size
      /\ xfer[c].p + xfer[c].remaining = sst_sizes[c][j]
      /\ xfer[c].addr = dst[j].addr + xfer[c].p
  BY DEF IInv, ReadInv, At
<1> HIDE DEF j
<1>5. j \in 1..Len(dst) /\ xfer[c].p + xfer[c].remaining = dst[j].size
  BY <1>4
<1>6. dst[j] \in OutputFiles
  BY <1>3, <1>5
<1>7. /\ dst[j].addr \in Nat /\ dst[j].size \in Nat /\ dst[j].no \in Nat
      /\ dst[j].of \in Seq(Jobs)
  BY <1>6 DEF OutputFiles
<1>8. \A k \in 0..dst[j].size - 1 : ddr[dst[j].addr + k] = OutputByte(dst[j], k)
  BY <1>4, <1>5 DEF IInv, FilesInv
<1>9. /\ xfer[c].p + i - 1 \in 0..dst[j].size - 1
      /\ xfer[c].addr + i - 1 = dst[j].addr + (xfer[c].p + i - 1)
  <2>1. n \in 1..xfer[c].remaining /\ xfer[c].p \in Nat /\ xfer[c].remaining \in Nat
    BY <1>2
  <2>2. xfer[c].addr = dst[j].addr + xfer[c].p /\ xfer[c].p + xfer[c].remaining = dst[j].size
    BY <1>4, <1>5
  <2>3. dst[j].addr \in Nat /\ dst[j].size \in Nat
    BY <1>7
  <2> QED BY <2>1, <2>2, <2>3, OffsetInFile
<1>10. ddr[xfer[c].addr + i - 1] = OutputByte(dst[j], xfer[c].p + i - 1)
  BY <1>8, <1>9
<1>11. OutputByte(dst[j], xfer[c].p + i - 1) \in OutputBytes
  BY <1>7, <1>9 DEF OutputByte, OutputBytes
<1> QED BY <1>5, <1>10, <1>11 DEF j

\* Every step of the thread keeps the types of the driver's variables.
LEMMA HostTypeStep ==
    ASSUME IInv, NEW c \in Callers, CallerStep(c)
    PROVE  HostType'
<1>0. HostType /\ CardType /\ CommandInv(c)
  BY DEF IInv
<1>pc. pc \in [Callers -> Steps] /\ result \in [Callers -> {"none", "OK", "error"}]
  BY <1>0 DEF HostType
<1>xfer. xfer \in [Callers -> Transfers] /\ side \in [Callers -> Side]
  BY <1>0 DEF HostType
<1>data. data \in [Callers -> [Side -> Seq(SourceBytes)]]
  BY <1>0 DEF HostType
<1>len. \A s \in Side : Len(data[c][s]) \in Nat /\ src_ddr_base(s) \in Nat
  BY <1>data, DriverAssumption DEF src_ddr_base, Side
<1>outs. outputs \in [Callers -> Seq(Seq(OutputBytes))]
  BY <1>0 DEF HostType
<1>sizes. /\ sst_sizes \in [Callers -> Seq(Nat)] /\ \A d \in Callers : Len(sst_sizes[d]) <= MAX_SSTABLES
          /\ sst_count \in [Callers -> Nat] /\ ddr_offset \in [Callers -> Nat]
  BY <1>0 DEF HostType
<1>regs. /\ regs_left \in [Callers -> {<<>>, <<3>>, <<2, 3>>, <<1, 2, 3>>}]
         /\ skipped \in [Callers -> BOOLEAN]
  BY <1>0 DEF HostType
<1>1. CASE Call(c)
  <2>1. pc' \in [Callers -> Steps] /\ result' \in [Callers -> {"none", "OK", "error"}]
    BY <1>1, <1>pc DEF Call, Goto, Return, Steps
  <2>2. calls' \in [Callers -> 0..MaxCalls]
    BY <1>1, <1>0, DriverAssumption DEF Call, HostType
  <2>3. /\ api' \in [Callers -> {"RunOffload", "RunOffloadSplit"}]
        /\ src' \in [Callers -> [Side -> [size : Nat, stated : Nat]]]
    BY <1>1, <1>0, DriverAssumption DEF Call, HostType
  <2>4. side' \in [Callers -> Side] /\ xfer' \in [Callers -> Transfers]
    BY <1>1, <1>xfer DEF Call, Side, Begin, Transfers
  <2>5. data' \in [Callers -> [Side -> Seq(SourceBytes)]]
    BY <1>1, <1>data DEF Call
  <2>6. /\ regs_left' \in [Callers -> {<<>>, <<3>>, <<2, 3>>, <<1, 2, 3>>}]
        /\ skipped' \in [Callers -> BOOLEAN]
    BY <1>1, <1>regs DEF Call
  <2>7. /\ sst_sizes' \in [Callers -> Seq(Nat)] /\ \A d \in Callers : Len(sst_sizes'[d]) <= MAX_SSTABLES
        /\ sst_count' \in [Callers -> Nat] /\ ddr_offset' \in [Callers -> Nat]
    BY <1>1, <1>sizes, DriverAssumption DEF Call
  <2>8. outputs' \in [Callers -> Seq(Seq(OutputBytes))]
    BY <1>1, <1>outs DEF Call
  <2>9. out_file' \in [Callers -> [exists : BOOLEAN, bytes : Seq(OutputBytes)]]
    BY <1>1, <1>0 DEF Call, HostType, NoFile
  <2> QED BY <2>1, <2>2, <2>3, <2>4, <2>5, <2>6, <2>7, <2>8, <2>9 DEF HostType
<1>2. CASE OpenFile(c)
  <2>1. pc' \in [Callers -> Steps] /\ result' \in [Callers -> {"none", "OK", "error"}]
    BY <1>2, <1>pc DEF OpenFile, Goto, Return, Steps
  <2>2. src[c][side[c]].size \in Nat
    BY <1>0, <1>xfer DEF HostType
  <2>3. xfer' \in [Callers -> Transfers]
    BY <1>2, <1>xfer, <2>2 DEF OpenFile, Begin, Transfers
  <2>4. UNCHANGED <<callVars, side, data, regs_left, readVars, out_file>>
    BY <1>2 DEF OpenFile
  <2> QED BY <1>0, <2>1, <2>3, <2>4 DEF HostType, callVars, readVars
<1>3. CASE ReadFile(c)
  <2>1. PICK n \in 1..xfer[c].remaining :
            /\ data' = [data EXCEPT ![c][side[c]] =
                          @ \o [i \in 1..n |-> SourceByte(Job(c), side[c], xfer[c].p + i - 1)]]
            /\ xfer' = [xfer EXCEPT ![c] = Advance(@, n)]
    BY <1>3 DEF ReadFile
  <2>2. xfer' \in [Callers -> Transfers]
    BY <1>xfer, <2>1 DEF Advance, Transfers
  <2>3. /\ side[c] \in Side /\ xfer[c].p \in Nat /\ n \in Nat /\ Job(c) \in Jobs
        /\ data[c][side[c]] \in Seq(SourceBytes)
    BY <1>0, <1>xfer, <1>data, <2>1, DriverAssumption DEF Transfers, Jobs, Job, HostType
  <2>4. \A i \in 1..n : SourceByte(Job(c), side[c], xfer[c].p + i - 1) \in SourceBytes
    BY <2>3 DEF SourceByte, SourceBytes
  <2>5. [i \in 1..n |-> SourceByte(Job(c), side[c], xfer[c].p + i - 1)] \in Seq(SourceBytes)
    BY <2>3, <2>4
  <2>6. data[c][side[c]] \o [i \in 1..n |-> SourceByte(Job(c), side[c], xfer[c].p + i - 1)]
          \in Seq(SourceBytes)
    BY <2>3, <2>5
  <2>7. data' \in [Callers -> [Side -> Seq(SourceBytes)]]
    BY <1>data, <2>1, <2>3, <2>6
  <2>8. UNCHANGED <<pc, callVars, side, regs_left, readVars, result, out_file>>
    BY <1>3 DEF ReadFile
  <2> QED BY <1>0, <2>2, <2>7, <2>8 DEF HostType, callVars, readVars
<1>4. CASE ReadFileDone(c)
  <2>1. pc' \in [Callers -> Steps] /\ result' \in [Callers -> {"none", "OK", "error"}]
    BY <1>4, <1>pc DEF ReadFileDone, Goto, Return, Steps
  <2>2. side' \in [Callers -> Side]
    BY <1>4, <1>xfer DEF ReadFileDone, Side
  <2>3. UNCHANGED <<callVars, xfer, data, regs_left, readVars, out_file>>
    BY <1>4 DEF ReadFileDone
  <2> QED BY <1>0, <2>1, <2>2, <2>3 DEF HostType, callVars, readVars
<1>5. CASE Open(c)
  <2>1. pc' \in [Callers -> Steps] /\ result' \in [Callers -> {"none", "OK", "error"}]
    BY <1>5, <1>pc DEF Open, Fails, Goto, Return, Steps
  <2>2. side' \in [Callers -> Side] /\ xfer' \in [Callers -> Transfers]
    <3>1. /\ UNCHANGED side \/ side' = [side EXCEPT ![c] = 0]
          /\ \/ UNCHANGED xfer
             \/ xfer' = [xfer EXCEPT ![c] = Begin(src_ddr_base(0), Len(data[c][0]))]
      BY <1>5 DEF Open, Fails
    <3>2. src_ddr_base(0) \in Nat /\ Len(data[c][0]) \in Nat
      BY <1>len DEF Side
    <3> QED BY <1>xfer, <3>1, <3>2, TransferBegins DEF Side
  <2>3. UNCHANGED <<callVars, data, regs_left, readVars, out_file>>
    BY <1>5 DEF Open, Fails
  <2> QED BY <1>0, <2>1, <2>2, <2>3 DEF HostType, callVars, readVars
<1>6. CASE DmaToDevice(c)
  <2>1. pc' \in [Callers -> Steps] /\ result' \in [Callers -> {"none", "OK", "error"}]
    BY <1>6, <1>pc DEF DmaToDevice, Fails, Goto, Return, Steps
  <2>2. xfer' \in [Callers -> Transfers]
    <3>1. \/ UNCHANGED xfer
          \/ \E n \in Moved(c) : xfer' = [xfer EXCEPT ![c] = Advance(@, n)]
      BY <1>6 DEF DmaToDevice, Fails
    <3>2. Moved(c) \subseteq 1..xfer[c].remaining
      BY <1>xfer, TransferType
    <3> QED BY <1>xfer, <3>1, <3>2, TransferAdvances
  <2>3. UNCHANGED <<callVars, side, data, regs_left, readVars, out_file>>
    BY <1>6 DEF DmaToDevice, Fails
  <2> QED BY <1>0, <2>1, <2>2, <2>3 DEF HostType, callVars, readVars
<1>7. CASE DmaToDeviceDone(c)
  <2>1. pc' \in [Callers -> Steps]
    BY <1>7, <1>pc DEF DmaToDeviceDone, Goto, Steps
  <2>2. side' \in [Callers -> Side] /\ xfer' \in [Callers -> Transfers]
    <3>1. /\ UNCHANGED side \/ side' = [side EXCEPT ![c] = 1]
          /\ \/ UNCHANGED xfer
             \/ xfer' = [xfer EXCEPT ![c] = Begin(src_ddr_base(1), Len(data[c][1]))]
      BY <1>7 DEF DmaToDeviceDone
    <3>2. src_ddr_base(1) \in Nat /\ Len(data[c][1]) \in Nat
      BY <1>len DEF Side
    <3> QED BY <1>xfer, <3>1, <3>2, TransferBegins DEF Side
  <2>3. UNCHANGED <<callVars, data, regs_left, readVars, result, out_file>>
    BY <1>7 DEF DmaToDeviceDone
  <2> QED BY <1>0, <2>1, <2>2, <2>3 DEF HostType, callVars, readVars
<1>8. CASE Clear(c) \/ ClearOff(c) \/ Start(c)
  <2>1. pc' \in [Callers -> Steps]
    BY <1>8, <1>pc DEF Clear, ClearOff, Start, CtrlStep, Goto, Steps
  <2>2. skipped' \in [Callers -> BOOLEAN]
    BY <1>8, <1>regs DEF Clear, ClearOff, Start, CtrlStep
  <2>3. [i \in 1..Len(ConfigRegs) |-> i] = <<1, 2, 3>>
    BY DEF ConfigRegs
  <2>4. regs_left' \in [Callers -> {<<>>, <<3>>, <<2, 3>>, <<1, 2, 3>>}]
    BY <1>8, <1>regs, <2>3 DEF Clear, ClearOff, Start
  <2>5. UNCHANGED <<calls, api, src, moveVars, readVars, result, out_file>>
    BY <1>8 DEF Clear, ClearOff, Start, CtrlStep
  <2> QED BY <1>0, <2>1, <2>2, <2>4, <2>5 DEF HostType, moveVars, readVars
<1>9. CASE Program(c)
  <2>1. pc' \in [Callers -> Steps]
    BY <1>9, <1>pc DEF Program, Goto, Steps
  <2>2. skipped' \in [Callers -> BOOLEAN]
    BY <1>9, <1>regs DEF Program
  <2>3. regs_left[c] \in {<<3>>, <<2, 3>>, <<1, 2, 3>>}
    BY <1>9, <1>0, <1>regs DEF Program, At, CommandInv
  <2>4. Tail(regs_left[c]) \in {<<>>, <<3>>, <<2, 3>>, <<1, 2, 3>>}
    BY <2>3, RegisterTails
  <2>5. regs_left' \in [Callers -> {<<>>, <<3>>, <<2, 3>>, <<1, 2, 3>>}]
    BY <1>9, <1>regs, <2>4 DEF Program
  <2>6. UNCHANGED <<calls, api, src, moveVars, readVars, result, out_file>>
    BY <1>9 DEF Program
  <2> QED BY <1>0, <2>1, <2>2, <2>5, <2>6 DEF HostType, moveVars, readVars
<1>10. CASE Poll(c) \/ PollTimeout(c) \/ PollFails(c)
  <2>1. pc' \in [Callers -> Steps] /\ result' \in [Callers -> {"none", "OK", "error"}]
    BY <1>10, <1>pc DEF Poll, PollTimeout, PollFails, Fails, Goto, Return, Steps
  <2>2. UNCHANGED <<callVars, side, xfer, data, regs_left, readVars, out_file>>
    BY <1>10 DEF Poll, PollTimeout, PollFails, Fails
  <2> QED BY <1>0, <2>1, <2>2 DEF HostType, callVars, readVars
<1>11. CASE ReadCount(c)
  <2>1. pc' \in [Callers -> Steps] /\ result' \in [Callers -> {"none", "OK", "error"}]
    BY <1>11, <1>pc DEF ReadCount, Fails, Goto, Return, Steps
  <2>2. Len(dst) \in Nat
    BY <1>0 DEF CardType
  <2>3. /\ sst_sizes' \in [Callers -> Seq(Nat)] /\ \A d \in Callers : Len(sst_sizes'[d]) <= MAX_SSTABLES
        /\ sst_count' \in [Callers -> Nat] /\ ddr_offset' \in [Callers -> Nat]
    <3>1. /\ \/ UNCHANGED <<sst_count, sst_sizes>>
             \/ /\ sst_count' = [sst_count EXCEPT ![c] = Len(dst)]
                /\ sst_sizes' = [sst_sizes EXCEPT ![c] = <<>>]
          /\ UNCHANGED ddr_offset
      BY <1>11 DEF ReadCount, Fails, readVars
    <3>2. sst_count' \in [Callers -> Nat] /\ ddr_offset' \in [Callers -> Nat]
      BY <3>1, <1>sizes, <2>2
    <3>3. sst_sizes' \in [Callers -> Seq(Nat)]
      <4>1. <<>> \in Seq(Nat)
        OBVIOUS
      <4>2. sst_sizes' = sst_sizes \/ sst_sizes' = [sst_sizes EXCEPT ![c] = <<>>]
        BY <3>1
      <4> QED BY <1>sizes, <4>1, <4>2
    <3>4. \A d \in Callers : sst_sizes'[d] = sst_sizes[d] \/ sst_sizes'[d] = <<>>
      <4>1. CASE UNCHANGED sst_sizes
        BY <4>1
      <4>2. CASE sst_sizes' = [sst_sizes EXCEPT ![c] = <<>>]
        <5>1. sst_sizes'[c] = <<>> /\ \A d \in Callers : d /= c => sst_sizes'[d] = sst_sizes[d]
          BY <4>2, <1>sizes
        <5> QED BY <5>1
      <4> QED BY <3>1, <4>1, <4>2
    <3>5. \A d \in Callers : Len(sst_sizes'[d]) <= MAX_SSTABLES
      BY <3>4, <1>sizes, DriverAssumption
    <3> QED BY <3>2, <3>3, <3>5
  <2>4. UNCHANGED <<callVars, side, xfer, data, regs_left, outputs, out_file>>
    BY <1>11 DEF ReadCount, Fails, readVars
  <2> QED BY <1>0, <2>1, <2>3, <2>4 DEF HostType, callVars
<1>12. CASE ReadSize(c)
  <2>1. pc' \in [Callers -> Steps] /\ result' \in [Callers -> {"none", "OK", "error"}]
    BY <1>12, <1>pc DEF ReadSize, Fails, Goto, Return, Steps
  <2> DEFINE i == Len(sst_sizes[c]) + 1
             szs == Append(sst_sizes[c], SizeReg(i))
  <2>2. i \in Nat /\ i >= 1 /\ (SizeReg(i) /= 0 => i <= MAX_SSTABLES /\ i \in 1..Len(dst))
    BY <1>0, <1>sizes DEF SizeReg, CardType
  <2>3. SizeReg(i) \in Nat
    <3>0. \A k \in 1..Len(dst) : dst[k] \in OutputFiles
      BY <1>0 DEF CardType
    <3>1. \A k \in 1..Len(dst) : dst[k].size \in Nat
      BY <3>0 DEF OutputFiles
    <3> QED BY <2>2, <3>1 DEF SizeReg
  <2> HIDE DEF i
  <2>4. szs \in Seq(Nat) /\ Len(szs) = i /\ szs[1] \in Nat
    BY <1>sizes, <2>2, <2>3 DEF i
  <2>5. /\ UNCHANGED sst_count
        /\ \/ UNCHANGED <<sst_sizes, xfer, ddr_offset, outputs>>
           \/ /\ SizeReg(i) /= 0
              /\ sst_sizes' = [sst_sizes EXCEPT ![c] = szs]
              /\ \/ UNCHANGED <<xfer, ddr_offset, outputs>>
                 \/ /\ ddr_offset' = [ddr_offset EXCEPT ![c] = 0]
                    /\ xfer' = [xfer EXCEPT ![c] = Begin(dst_ddr_base, sst_sizes'[c][1])]
                    /\ outputs' = [outputs EXCEPT ![c] = <<<<>>>>]
    BY <1>12 DEF ReadSize, Fails, readVars, i
  <2> HIDE DEF szs
  <2>6. /\ sst_sizes' \in [Callers -> Seq(Nat)] /\ \A d \in Callers : Len(sst_sizes'[d]) <= MAX_SSTABLES
        /\ sst_count' \in [Callers -> Nat] /\ ddr_offset' \in [Callers -> Nat]
    <3>1. sst_sizes' \in [Callers -> Seq(Nat)]
      <4>1. sst_sizes' = sst_sizes \/ sst_sizes' = [sst_sizes EXCEPT ![c] = szs]
        BY <2>5
      <4> QED BY <1>sizes, <2>4, <4>1
    <3>2. sst_count' \in [Callers -> Nat] /\ ddr_offset' \in [Callers -> Nat]
      <4>1. ddr_offset' = ddr_offset \/ ddr_offset' = [ddr_offset EXCEPT ![c] = 0]
        BY <2>5
      <4>2. sst_count' = sst_count
        BY <2>5
      <4>3. ddr_offset \in [Callers -> Nat] /\ sst_count \in [Callers -> Nat]
        BY <1>sizes
      <4>4. ddr_offset' \in [Callers -> Nat]
        BY <4>1, <4>3
      <4> QED BY <4>2, <4>3, <4>4
    <3>3. \A d \in Callers : sst_sizes'[d] = sst_sizes[d] \/ (sst_sizes'[d] = szs /\ SizeReg(i) /= 0)
      <4>1. CASE UNCHANGED sst_sizes
        BY <4>1
      <4>2. CASE sst_sizes' = [sst_sizes EXCEPT ![c] = szs] /\ SizeReg(i) /= 0
        <5>1. sst_sizes'[c] = szs /\ \A d \in Callers : d /= c => sst_sizes'[d] = sst_sizes[d]
          BY <4>2, <1>sizes
        <5> QED BY <4>2, <5>1
      <4> QED BY <2>5, <4>1, <4>2
    <3>4. \A d \in Callers : Len(sst_sizes'[d]) <= MAX_SSTABLES
      BY <3>3, <2>2, <2>4, <1>sizes
    <3> QED BY <3>1, <3>2, <3>4
  <2>7. xfer' \in [Callers -> Transfers] /\ outputs' \in [Callers -> Seq(Seq(OutputBytes))]
    <3>1. dst_ddr_base \in Nat
      BY DriverAssumption DEF dst_ddr_base
    <3>2. sst_sizes' = [sst_sizes EXCEPT ![c] = szs] => sst_sizes'[c][1] \in Nat
      BY <1>sizes, <2>4
    <3>3. xfer' \in [Callers -> Transfers]
      BY <2>5, <3>1, <3>2, <1>xfer, TransferBegins
    <3>4. <<<<>>>> \in Seq(Seq(OutputBytes))
      OBVIOUS
    <3>5. outputs' \in [Callers -> Seq(Seq(OutputBytes))]
      BY <2>5, <3>4, <1>outs
    <3> QED BY <3>3, <3>5
  <2>8. UNCHANGED <<callVars, side, data, regs_left, out_file>>
    BY <1>12 DEF ReadSize, Fails
  <2> QED BY <1>0, <2>1, <2>6, <2>7, <2>8 DEF HostType, callVars
<1>13. CASE DmaFromDevice(c)
  <2>1. pc' \in [Callers -> Steps] /\ result' \in [Callers -> {"none", "OK", "error"}]
    BY <1>13, <1>pc DEF DmaFromDevice, Fails, Goto, Return, Steps
  <2>2. xfer' \in [Callers -> Transfers]
    BY <1>13, <1>xfer, TransferType DEF DmaFromDevice, Fails
  <2>3. outputs' \in [Callers -> Seq(Seq(OutputBytes))]
    <3>1. CASE UNCHANGED outputs
      BY <3>1, <1>outs
    <3>2. ASSUME At(c, "read_back"), NEW n \in Moved(c),
                 outputs' = [outputs EXCEPT ![c][Len(outputs[c])] =
                               @ \o [i \in 1..n |-> ddr[xfer[c].addr + i - 1]]]
          PROVE  outputs' \in [Callers -> Seq(Seq(OutputBytes))]
      <4> DEFINE got == [i \in 1..n |-> ddr[xfer[c].addr + i - 1]]
                 f == Len(outputs[c])
      <4>1. n \in Nat /\ f \in 1..Len(outputs[c])
        BY <3>2, <1>0, <1>xfer, <1>outs, TransferType DEF IInv, ReadInv, At
      <4>2. \A i \in 1..n : ddr[xfer[c].addr + i - 1] \in OutputBytes
        BY <3>2, <1>0, BytesArriving
      <4>3. got \in Seq(OutputBytes)
        BY <4>1, <4>2
      <4>4. outputs[c] \in Seq(Seq(OutputBytes)) /\ outputs[c][f] \in Seq(OutputBytes)
        BY <1>outs, <4>1
      <4>5. outputs[c][f] \o got \in Seq(OutputBytes)
        BY <4>3, <4>4
      <4> HIDE DEF got, f
      <4>6. [outputs[c] EXCEPT ![f] = outputs[c][f] \o got] \in Seq(Seq(OutputBytes))
        BY <4>1, <4>4, <4>5
      <4>7. outputs' = [outputs EXCEPT ![c] = [outputs[c] EXCEPT ![f] = outputs[c][f] \o got]]
        BY <3>2 DEF f, got
      <4> QED BY <1>outs, <4>6, <4>7
    <3> QED BY <1>13, <3>1, <3>2 DEF DmaFromDevice, Fails, readVars
  <2>4. UNCHANGED <<callVars, side, data, regs_left, sst_count, sst_sizes, ddr_offset, out_file>>
    BY <1>13 DEF DmaFromDevice, Fails, readVars
  <2> QED BY <1>0, <2>1, <2>2, <2>3, <2>4 DEF HostType, callVars
<1>14. CASE DmaFromDeviceDone(c)
  <2>1. pc' \in [Callers -> Steps] /\ result' \in [Callers -> {"none", "OK", "error"}]
    BY <1>14, <1>pc DEF DmaFromDeviceDone, Goto, Return, Steps
  <2> DEFINE i == Len(outputs[c])
             next == ddr_offset[c] + Align(sst_sizes[c][i])
  <2>2. /\ i \in 1..Len(sst_sizes[c])
        /\ Len(sst_sizes[c]) = sst_count[c]
    BY <1>14, <1>sizes, <1>outs DEF IInv, ReadInv, DmaFromDeviceDone, At
  <2>3. \A k \in 1..Len(sst_sizes[c]) : sst_sizes[c][k] \in Nat
    BY <1>sizes
  <2>4. next \in Nat
    <3>1. sst_sizes[c][i] \in Nat
      BY <2>2, <2>3
    <3>2. Align(sst_sizes[c][i]) \in Nat
      BY <3>1, AlignProperties
    <3> QED BY <3>2, <1>sizes
  <2>5. /\ ddr_offset' = [ddr_offset EXCEPT ![c] = next]
        /\ \/ UNCHANGED <<xfer, outputs>>
           \/ /\ i < sst_count[c]
              /\ xfer' = [xfer EXCEPT ![c] = Begin(dst_ddr_base + next, sst_sizes[c][i + 1])]
              /\ outputs' = [outputs EXCEPT ![c] = Append(@, <<>>)]
    BY <1>14 DEF DmaFromDeviceDone
  <2> HIDE DEF next
  <2>6. ddr_offset' \in [Callers -> Nat]
    BY <1>sizes, <2>4, <2>5
  <2>7. xfer' \in [Callers -> Transfers]
    <3>1. dst_ddr_base + next \in Nat
      BY <2>4, DriverAssumption DEF dst_ddr_base
    <3>2. i < sst_count[c] => i + 1 \in 1..Len(sst_sizes[c])
      BY <1>sizes, <2>2
    <3>3. i < sst_count[c] => sst_sizes[c][i + 1] \in Nat
      BY <2>3, <3>2
    <3> QED BY <1>xfer, <2>5, <3>1, <3>3, TransferBegins
  <2>8. outputs' \in [Callers -> Seq(Seq(OutputBytes))]
    <3>1. outputs[c] \in Seq(Seq(OutputBytes)) /\ <<>> \in Seq(OutputBytes)
      BY <1>outs
    <3>2. Append(outputs[c], <<>>) \in Seq(Seq(OutputBytes))
      BY <3>1
    <3> QED BY <1>outs, <2>5, <3>2
  <2>9. UNCHANGED <<callVars, side, data, regs_left, sst_count, sst_sizes, out_file>>
    BY <1>14 DEF DmaFromDeviceDone
  <2> QED BY <1>0, <2>1, <2>6, <2>7, <2>8, <2>9 DEF HostType, callVars
<1>15. CASE CreateFile(c) \/ WriteFile(c) \/ SyncFile(c)
  <2>1. pc' \in [Callers -> Steps] /\ result' \in [Callers -> {"none", "OK", "error"}]
    BY <1>15, <1>pc DEF CreateFile, WriteFile, SyncFile, Goto, Return, Steps
  <2>2. pc[c] \in {"create", "write_file"} => outputs[c][1] \in Seq(OutputBytes)
    <3>1. pc[c] \in {"create", "write_file"} => 1 \in 1..Len(outputs[c])
      BY <1>sizes, <1>outs DEF IInv, ReadInv, AllRead
    <3> QED BY <1>outs, <3>1
  <2>3. xfer' \in [Callers -> Transfers]
    <3>1. \/ UNCHANGED xfer
          \/ pc[c] = "create" /\ xfer' = [xfer EXCEPT ![c] = Begin(0, Len(outputs[c][1]))]
          \/ \E n \in 1..xfer[c].remaining : xfer' = [xfer EXCEPT ![c] = Advance(@, n)]
      BY <1>15 DEF CreateFile, WriteFile, SyncFile, At
    <3>2. pc[c] = "create" => Len(outputs[c][1]) \in Nat
      BY <2>2
    <3> QED BY <1>xfer, <3>1, <3>2, TransferBegins, TransferAdvances
  <2>4. out_file' \in [Callers -> [exists : BOOLEAN, bytes : Seq(OutputBytes)]]
    <3>0. out_file \in [Callers -> [exists : BOOLEAN, bytes : Seq(OutputBytes)]]
      BY <1>0 DEF HostType
    <3>1. CASE UNCHANGED out_file
      BY <3>0, <3>1
    <3>2. CASE out_file' = [out_file EXCEPT ![c] = [exists |-> TRUE, bytes |-> <<>>]]
      BY <3>0, <3>2
    <3>3. ASSUME At(c, "write_file"), NEW n \in 1..xfer[c].remaining,
                 out_file' = [out_file EXCEPT ![c].bytes =
                                @ \o SubSeq(outputs[c][1], xfer[c].p + 1, xfer[c].p + n)]
          PROVE  out_file' \in [Callers -> [exists : BOOLEAN, bytes : Seq(OutputBytes)]]
      <4>1. /\ xfer[c].p \in Nat /\ xfer[c].remaining \in Nat
            /\ xfer[c].p + xfer[c].remaining = Len(outputs[c][1])
            /\ outputs[c][1] \in Seq(OutputBytes)
        BY <3>3, <1>xfer, <2>2, TransferType DEF IInv, ReadInv, At
      <4>2. SubSeq(outputs[c][1], xfer[c].p + 1, xfer[c].p + n) \in Seq(OutputBytes)
        <5>1. \A k \in xfer[c].p + 1..xfer[c].p + n : k \in 1..Len(outputs[c][1])
          <6>1. \A x, r \in Nat : \A l \in 1..r : \A k \in x + 1..x + l : k \in 1..x + r
            OBVIOUS
          <6> QED BY ONLY <4>1, <6>1, n \in 1..xfer[c].remaining
        <5> QED BY <4>1, <5>1, SubSeqProperties
      <4> DEFINE bs == out_file[c].bytes \o SubSeq(outputs[c][1], xfer[c].p + 1, xfer[c].p + n)
      <4>3. bs \in Seq(OutputBytes)
        BY <3>0, <4>2
      <4>4. out_file' = [out_file EXCEPT ![c].bytes = bs]
        BY <3>3
      <4> HIDE DEF bs
      <4> QED BY <3>0, <4>3, <4>4
    <3> QED BY <1>15, <3>1, <3>2, <3>3 DEF CreateFile, WriteFile, SyncFile
  <2>5. UNCHANGED <<callVars, side, data, regs_left, readVars>>
    BY <1>15 DEF CreateFile, WriteFile, SyncFile
  <2> QED BY <1>0, <2>1, <2>3, <2>4, <2>5 DEF HostType, callVars, readVars
<1>16. CASE ReadFileFails(c) \/ WriteFileFails(c)
  <2>1. pc' \in [Callers -> Steps] /\ result' \in [Callers -> {"none", "OK", "error"}]
    BY <1>16, <1>pc DEF ReadFileFails, WriteFileFails, Goto, Return, Steps
  <2>2. UNCHANGED <<callVars, side, xfer, data, regs_left, readVars, out_file>>
    BY <1>16 DEF ReadFileFails, WriteFileFails
  <2> QED BY <1>0, <2>1, <2>2 DEF HostType, callVars, readVars
<1> QED BY <1>1, <1>2, <1>3, <1>4, <1>5, <1>6, <1>7, <1>8, <1>9, <1>10, <1>11, <1>12,
           <1>13, <1>14, <1>15, <1>16 DEF CallerStep, Step

-----------------------------------------------------------------------------
(* Steps of the thread: the card.                                          *)

\* Where the areas lie.
LEMMA Areas ==
    /\ src_ddr_base(0) = 0 /\ src_ddr_base(1) = MaxSrcBytes /\ dst_ddr_base = 2 * MaxSrcBytes
    /\ MaxSrcBytes \in Nat /\ MaxSrcBytes > 0 /\ DstBytes \in Nat
    /\ Addresses = 0..2 * MaxSrcBytes + DstBytes - 1
    /\ \A s \in Side : s = 0 \/ s = 1
BY DriverAssumption DEF src_ddr_base, dst_ddr_base, Addresses, Side

\* A chunk goes where it belongs, within the area of its source, and changes
\* nothing else.
LEMMA DmaEffect ==
    ASSUME IInv, NEW c \in Callers, At(c, "dma"), NEW n \in Moved(c),
           ddr' = [a \in Addresses |->
                     IF a \in xfer[c].addr..xfer[c].addr + n - 1
                     THEN data[c][side[c]][xfer[c].p + a - xfer[c].addr + 1]
                     ELSE ddr[a]]
    PROVE  LET b == src_ddr_base(side[c])
               p == xfer[c].p
           IN  /\ p \in Nat /\ n \in Nat /\ n >= 1
               /\ p + n <= Len(data[c][side[c]]) /\ Len(data[c][side[c]]) <= MaxSrcBytes
               /\ \A a \in Addresses : a \in b + p..b + p + n - 1 =>
                     ddr'[a] = SourceByte(Job(c), side[c], a - b)
               /\ \A a \in Addresses : a \notin b + p..b + p + n - 1 => ddr'[a] = ddr[a]
<1> DEFINE b == src_ddr_base(side[c])
           p == xfer[c].p
           sd == side[c]
           d == data[c][sd]
<1>1. sd \in Side /\ d \in Seq(SourceBytes) /\ xfer[c] \in Transfers
  BY DEF IInv, HostType
<1>2. p \in Nat /\ xfer[c].remaining \in Nat /\ n \in 1..xfer[c].remaining
  BY <1>1, TransferType
<1>3. /\ p + xfer[c].remaining = Len(d)
      /\ xfer[c].addr = b + p
  BY DEF IInv, SourceInv, At
<1>4. Len(d) = src[c][sd].stated /\ src[c][sd].stated <= MaxSrcBytes
  BY <1>1 DEF IInv, SourceInv, At, CoreSteps, SizesAsStated
<1>5. \A i \in 1..Len(d) : d[i] = SourceByte(Job(c), sd, i - 1)
  BY <1>1 DEF IInv, SourceInv, At
<1>6. b \in Nat
  BY <1>1, Areas
<1>7. Len(d) \in Nat
  BY <1>1
<1> HIDE DEF b, p, sd, d
<1>8. p + n <= Len(d) /\ Len(d) <= MaxSrcBytes /\ n \in Nat /\ n >= 1
  BY <1>2, <1>3, <1>4, <1>7
<1>9. ddr' = [a \in Addresses |-> IF a \in b + p..b + p + n - 1
                                 THEN d[p + a - (b + p) + 1] ELSE ddr[a]]
  BY <1>3 DEF d, sd, p
<1>10. ASSUME NEW a \in Addresses, a \in b + p..b + p + n - 1
       PROVE  ddr'[a] = SourceByte(Job(c), sd, a - b)
  <2>1. p + a - (b + p) + 1 = (a - b) + 1 /\ (a - b) + 1 \in 1..Len(d) /\ ((a - b) + 1) - 1 = a - b
    BY <1>2, <1>6, <1>7, <1>8, <1>10
  <2>2. ddr'[a] = d[(a - b) + 1]
    BY <1>9, <1>10, <2>1
  <2> QED BY <1>5, <2>1, <2>2
<1>11. \A a \in Addresses : a \notin b + p..b + p + n - 1 => ddr'[a] = ddr[a]
  BY <1>9
<1> QED BY <1>2, <1>8, <1>10, <1>11 DEF b, p, sd, d

\* The card through the steps of the thread: types, the status of the last
\* run and the output files stay as they should be.
LEMMA CardStep ==
    ASSUME IInv, NEW c \in Callers, CallerStep(c)
    PROVE  CardType' /\ EngineInv' /\ FilesInv'
<1>0. HostType /\ CardType /\ EngineInv /\ FilesInv
  BY DEF IInv
<1>1. CASE UNCHANGED cardVars
  BY <1>0, <1>1 DEF cardVars, CardType, EngineInv, FilesInv
<1>2. ASSUME At(c, "dma"), NEW n \in Moved(c),
             ddr' = [a \in Addresses |->
                       IF a \in xfer[c].addr..xfer[c].addr + n - 1
                       THEN data[c][side[c]][xfer[c].p + a - xfer[c].addr + 1]
                       ELSE ddr[a]],
             UNCHANGED <<cfg, r_ctrl, r_status, engine, seen, dst>>
      PROVE  CardType' /\ EngineInv' /\ FilesInv'
  <2> DEFINE b == src_ddr_base(side[c])
             p == xfer[c].p
  <2>1. /\ p \in Nat /\ n \in Nat /\ n >= 1 /\ p + n <= MaxSrcBytes
        /\ \A a \in Addresses : a \in b + p..b + p + n - 1 =>
              ddr'[a] = SourceByte(Job(c), side[c], a - b)
        /\ \A a \in Addresses : a \notin b + p..b + p + n - 1 => ddr'[a] = ddr[a]
    <3>1. Len(data[c][side[c]]) \in Nat /\ MaxSrcBytes \in Nat
      BY <1>0, Areas DEF HostType
    <3>2. /\ p \in Nat /\ n \in Nat /\ n >= 1
          /\ p + n <= Len(data[c][side[c]]) /\ Len(data[c][side[c]]) <= MaxSrcBytes
          /\ \A a \in Addresses : a \in b + p..b + p + n - 1 =>
                ddr'[a] = SourceByte(Job(c), side[c], a - b)
          /\ \A a \in Addresses : a \notin b + p..b + p + n - 1 => ddr'[a] = ddr[a]
      BY ONLY IInv, c \in Callers, <1>2, DmaEffect
    <3>3. \A k, l, m, x \in Nat : x + k <= l /\ l <= m => x + k <= m
      OBVIOUS
    <3> HIDE DEF b, p
    <3>4. p + n <= MaxSrcBytes
      BY ONLY <3>1, <3>2, <3>3
    <3> QED BY ONLY <3>2, <3>4
  <2>2. side[c] \in Side /\ Job(c) \in Jobs
    BY <1>0 DEF HostType, Job, Jobs
  <2>3. b \in Nat /\ b + p + n <= dst_ddr_base /\ dst_ddr_base \in Nat
    BY <2>1, <2>2, Areas
  <2> HIDE DEF b, p
  <2>4. \A a \in Addresses : a \in Nat
    BY Areas
  <2>5. ASSUME NEW a \in Addresses, a \in b + p..b + p + n - 1
        PROVE  ddr'[a] \in SourceBytes
    <3>1. a - b \in Nat
      BY <2>1, <2>3, <2>4, <2>5
    <3>2. ddr'[a] = SourceByte(Job(c), side[c], a - b)
      BY <2>1, <2>5
    <3> QED BY <2>2, <3>1, <3>2 DEF SourceByte, SourceBytes
  <2>6. \A a \in Addresses : ddr'[a] = ddr[a] \/ ddr'[a] \in SourceBytes
    BY <2>1, <2>5
  <2>7. ddr' \in [Addresses -> SourceBytes \cup OutputBytes]
    BY <1>0, <1>2, <2>6 DEF CardType
  <2>8. CardType'
    BY <1>0, <1>2, <2>6, <2>7 DEF CardType, dst_ddr_base
  <2>9. EngineInv'
    BY <1>0, <1>2 DEF EngineInv
  <2>10. FilesInv'
    <3> SUFFICES ASSUME r_status = "done", NEW i \in 1..Len(dst), NEW k \in 0..dst[i].size - 1
                 PROVE  ddr'[dst[i].addr + k] = ddr[dst[i].addr + k]
      <4>1. r_status' = r_status /\ dst' = dst /\ FilesInv
        BY <1>0, <1>2
      <4> QED BY <4>1 DEF FilesInv, OutputByte, dst_ddr_base
    <3>1. dst[i] \in OutputFiles
      BY <1>0 DEF CardType
    <3>2. dst[i].addr \in Nat /\ dst[i].size \in Nat
      BY <3>1 DEF OutputFiles
    <3>3. dst[i].addr >= dst_ddr_base /\ dst[i].addr + dst[i].size <= dst_ddr_base + DstBytes
      BY <1>0 DEF FilesInv
    <3>4. dst[i].addr + k \in Addresses /\ dst[i].addr + k \notin b + p..b + p + n - 1
      <4>1. dst[i].addr + k \in Nat /\ dst[i].addr + k >= dst_ddr_base
        BY <2>3, <3>2, <3>3
      <4>2. dst[i].addr + k < dst_ddr_base + DstBytes
        <5>1. \A x, y, l \in Nat : \A z \in 0..y - 1 : x + y <= l => x + z < l
          OBVIOUS
        <5>2. dst_ddr_base + DstBytes \in Nat
          BY <2>3, Areas
        <5> QED BY ONLY <3>2, <3>3, <5>1, <5>2, k \in 0..dst[i].size - 1
      <4>3. dst[i].addr + k \in Addresses
        BY <4>1, <4>2, Areas
      <4>4. p \in Nat /\ n \in Nat
        BY <2>1
      <4> QED BY <2>3, <4>1, <4>3, <4>4
    <3> QED BY <2>1, <3>4
  <2> QED BY <2>8, <2>9, <2>10
<1>3. ASSUME NEW v \in {0, 1, 2}, WriteCtrl(v)
      PROVE  CardType' /\ EngineInv' /\ FilesInv'
  <2>1. \A s \in Side : Loaded(s) \in Jobs
    <3>1. \A s \in Side : src_ddr_base(s) \in Addresses /\ src_ddr_base(s) < dst_ddr_base
      BY Areas
    <3>2. \A s \in Side : ddr[src_ddr_base(s)] \in SourceBytes
      BY <1>0, <3>1 DEF CardType
    <3> QED BY <3>2 DEF Loaded, SourceBytes, Jobs
  <2>2. seen' \in [Side -> Jobs] /\ dst' \in Seq(OutputFiles)
    <3>1. seen' = seen \/ seen' = [s \in Side |-> Loaded(s)]
      BY <1>3 DEF WriteCtrl
    <3>2. dst' = dst \/ dst' = <<>>
      BY <1>3 DEF WriteCtrl
    <3>3. seen \in [Side -> Jobs] /\ dst \in Seq(OutputFiles)
      BY <1>0 DEF CardType
    <3>4. seen' \in [Side -> Jobs]
      BY <2>1, <3>1, <3>3
    <3>5. <<>> \in Seq(OutputFiles)
      OBVIOUS
    <3> QED BY <3>2, <3>3, <3>4, <3>5
  <2>3. /\ r_ctrl' \in {0, 1, 2} /\ r_status' \in {"none", "done", "error"}
        /\ engine' \in {"idle", "run"}
    BY <1>0, <1>3 DEF CardType, WriteCtrl
  <2>4. CardType'
    BY <1>0, <1>3, <2>2, <2>3 DEF CardType, WriteCtrl, dst_ddr_base
  <2>5. EngineInv'
    BY <1>0, <1>3 DEF EngineInv, WriteCtrl
  <2>6. r_status' = "done" => UNCHANGED <<r_status, dst, ddr>>
    BY <1>3 DEF WriteCtrl
  <2>7. FilesInv'
    BY <1>0, <2>6 DEF FilesInv, dst_ddr_base, OutputByte
  <2> QED BY <2>4, <2>5, <2>7
<1>4. CASE Program(c)
  <2>1. regs_left[c] \in {<<3>>, <<2, 3>>, <<1, 2, 3>>}
    BY <1>0, <1>4 DEF IInv, CommandInv, HostType, Program, At
  <2>2. Head(regs_left[c]) \in 1..3
    BY <2>1, RegisterTails
  <2>3. RegValue(c, Head(regs_left[c])) \in Nat /\ Job(c) \in Jobs
    <3>1. \A s \in Side : Len(data[c][s]) \in Nat
      BY <1>0 DEF HostType
    <3>2. Job(c) \in Jobs
      BY <1>0 DEF HostType, Job, Jobs
    <3>3. \A r \in {1, 2} : r - 1 \in Side
      BY DEF Side
    <3> QED BY <3>1, <3>2, <3>3, Areas DEF RegValue
  <2>4. cfg' \in [1..3 -> [job : Jobs, value : Nat]]
    <3>1. \/ UNCHANGED cfg
          \/ cfg' = [cfg EXCEPT ![Head(regs_left[c])] =
                       [job |-> Job(c), value |-> RegValue(c, Head(regs_left[c]))]]
      BY <1>4 DEF Program
    <3>2. cfg \in [1..3 -> [job : Jobs, value : Nat]]
      BY <1>0 DEF CardType
    <3> QED BY <2>2, <2>3, <3>1, <3>2
  <2>5. UNCHANGED <<ddr, r_ctrl, r_status, engine, seen, dst>>
    BY <1>4 DEF Program
  <2> QED BY <1>0, <2>4, <2>5 DEF CardType, EngineInv, FilesInv, OutputByte, dst_ddr_base
<1>5. CASE Clear(c) \/ ClearOff(c) \/ Start(c)
  <2>1. UNCHANGED cardVars \/ \E v \in {0, 1, 2} : WriteCtrl(v)
    BY <1>5 DEF Clear, ClearOff, Start, CtrlStep
  <2> QED BY <1>1, <1>3, <2>1
<1>6. CASE DmaToDevice(c)
  BY <1>1, <1>2, <1>6 DEF DmaToDevice, Fails
<1>7. CASE OpenFile(c) \/ ReadFile(c) \/ ReadFileDone(c) \/ ReadFileFails(c) \/ Call(c)
  BY <1>1, <1>7 DEF OpenFile, ReadFile, ReadFileDone, ReadFileFails, Call
<1>8. CASE Open(c) \/ DmaToDeviceDone(c) \/ Poll(c) \/ PollTimeout(c) \/ PollFails(c)
  BY <1>1, <1>8 DEF Open, Fails, DmaToDeviceDone, Poll, PollTimeout, PollFails
<1>9. CASE ReadCount(c) \/ ReadSize(c) \/ DmaFromDevice(c) \/ DmaFromDeviceDone(c)
  BY <1>1, <1>9 DEF ReadCount, ReadSize, DmaFromDevice, DmaFromDeviceDone, Fails
<1>10. CASE CreateFile(c) \/ WriteFile(c) \/ SyncFile(c) \/ WriteFileFails(c)
  BY <1>1, <1>10 DEF CreateFile, WriteFile, SyncFile, WriteFileFails
<1> QED BY <1>4, <1>5, <1>6, <1>7, <1>8, <1>9, <1>10 DEF CallerStep, Step

-----------------------------------------------------------------------------
(* Steps of the thread: the sources.                                       *)

\* Reading the source files and loading them, in whatever pieces, keeps
\* SourceInv; later steps leave the source areas alone.
LEMMA SourceStep ==
    ASSUME IInv, NEW c \in Callers, CallerStep(c)
    PROVE  SourceInv(c)'
<1>0. SourceInv(c) /\ HostType /\ CommandInv(c)
  BY DEF IInv
<1>pc. pc \in [Callers -> Steps]
  BY <1>0 DEF HostType
<1>side. side \in [Callers -> Side] /\ side[c] \in Side
  BY <1>0 DEF HostType
<1>xfer. xfer \in [Callers -> Transfers] /\ xfer[c] \in Transfers
  BY <1>0 DEF HostType
<1>data. /\ data \in [Callers -> [Side -> Seq(SourceBytes)]]
         /\ \A s \in Side : data[c][s] \in Seq(SourceBytes) /\ Len(data[c][s]) \in Nat
  BY <1>0 DEF HostType
<1> DEFINE Later == CoreSteps \ {"open", "dma"}
<1>1. ASSUME pc'[c] = "idle" PROVE SourceInv(c)'
  BY <1>1 DEF SourceInv, CoreSteps
<1>2. ASSUME pc[c] /= "idle", pc'[c] \in {"create", "write_file", "fsync"},
             UNCHANGED <<calls, src, data>>
      PROVE  SourceInv(c)'
  BY <1>0, <1>2 DEF SourceInv, CoreSteps, Job
<1>3. ASSUME pc[c] \in Later, pc'[c] \in Later, UNCHANGED <<calls, src, data, ddr>>
      PROVE  SourceInv(c)'
  BY <1>0, <1>3 DEF SourceInv, CoreSteps, Job, SizesAsStated, WholeSources, LoadedTo, src_ddr_base
<1>4. CASE Call(c)
  <2>1. /\ pc'[c] \in {"open_file", "idle"} /\ side'[c] = 0
        /\ \A s \in Side : data'[c][s] = <<>>
    BY <1>4, <1>pc, <1>side, <1>data DEF Call, Goto, Return
  <2>2. pc'[c] = "open_file" => \A s \in Side : src'[c][s].stated <= MaxSrcBytes
    <3>1. PICK f \in SourceFiles : /\ src' = [src EXCEPT ![c] = f]
                                   /\ IF CanOffload(f) THEN Goto(c, "open_file")
                                                       ELSE Return(c, "error")
      BY <1>4 DEF Call
    <3>2. src \in [Callers -> [Side -> [size : Nat, stated : Nat]]]
      BY <1>0 DEF HostType
    <3>3. pc'[c] = "open_file" => CanOffload(f)
      BY <3>1, <1>pc DEF Goto, Return
    <3>4. src'[c] = f
      BY <3>1, <3>2
    <3> QED BY <3>3, <3>4 DEF CanOffload
  <2> QED BY <2>1, <2>2 DEF SourceInv, CoreSteps, Side
<1>5. CASE OpenFile(c)
  <2>1. pc'[c] = "idle" \/
        (pc'[c] = "read_file" /\ xfer'[c] = Begin(0, src[c][side[c]].size))
    BY <1>5, <1>pc, <1>xfer DEF OpenFile, Goto, Return
  <2>2. pc[c] = "open_file" /\ UNCHANGED <<calls, src, data, side>>
    BY <1>5 DEF OpenFile, At, callVars
  <2>3. data[c][side[c]] = <<>> /\ (side[c] = 0 => data[c][1] = <<>>)
    BY <1>0, <2>2 DEF SourceInv
  <2>4. ASSUME pc'[c] = "read_file", xfer'[c] = Begin(0, src[c][side[c]].size)
        PROVE  SourceInv(c)'
    <3>1. xfer'[c].p = 0
      BY <2>4 DEF Begin
    <3> QED BY <1>0, <2>2, <2>3, <2>4, <3>1 DEF SourceInv, CoreSteps, Job
  <2> QED BY <1>1, <2>1, <2>4
<1>6. CASE ReadFile(c)
  <2>1. PICK n \in 1..xfer[c].remaining :
            /\ data' = [data EXCEPT ![c][side[c]] =
                          @ \o [i \in 1..n |-> SourceByte(Job(c), side[c], xfer[c].p + i - 1)]]
            /\ xfer' = [xfer EXCEPT ![c] = Advance(@, n)]
    BY <1>6 DEF ReadFile
  <2>2. pc[c] = "read_file" /\ UNCHANGED <<pc, calls, src, side>>
    BY <1>6 DEF ReadFile, At, callVars
  <2> DEFINE d == data[c][side[c]]
             got == [i \in 1..n |-> SourceByte(Job(c), side[c], xfer[c].p + i - 1)]
             p == xfer[c].p
  <2>3. Len(d) = p /\ p \in Nat /\ n \in Nat /\ d \in Seq(SourceBytes)
    BY <1>0, <1>xfer, <1>side, <1>data, <2>1, <2>2 DEF SourceInv, Transfers
  <2>4. /\ data'[c][side[c]] = d \o got
        /\ \A s \in Side : s /= side[c] => data'[c][s] = data[c][s]
    BY <1>data, <1>side, <2>1
  <2>5. xfer'[c].p = p + n
    BY <1>xfer, <2>1 DEF Advance
  <2>6. \A i \in 1..Len(d) : d[i] = SourceByte(Job(c), side[c], i - 1)
    BY <1>0, <1>side, <2>2 DEF SourceInv
  <2>7. got \in Seq(SourceBytes) /\ Len(got) = n
    <3>1. Job(c) \in Jobs /\ side[c] \in Side
      BY <1>0 DEF HostType, Job, Jobs
    <3>2. \A i \in 1..n : SourceByte(Job(c), side[c], p + i - 1) \in SourceBytes
      BY <2>3, <3>1 DEF SourceByte, SourceBytes
    <3> QED BY <2>3, <3>2
  <2>got. \A i \in 1..n : got[i] = SourceByte(Job(c), side[c], p + i - 1)
    OBVIOUS
  <2> HIDE DEF d, got, p
  <2>8. Len(d \o got) = p + n
    BY <2>3, <2>7
  <2>9. ASSUME NEW i \in 1..p + n PROVE (d \o got)[i] = SourceByte(Job(c), side[c], i - 1)
    <3>1. CASE i <= p
      BY <3>1, <2>3, <2>6, <2>7
    <3>2. CASE i > p
      <4>1. (d \o got)[i] = got[i - p] /\ i - p \in 1..n
        BY <3>2, <2>3, <2>7
      <4>2. p + (i - p) - 1 = i - 1
        BY <2>3
      <4> QED BY <4>1, <4>2, <2>got
    <3>3. i <= p \/ i > p
      BY <2>3
    <3> QED BY <3>1, <3>2, <3>3
  <2>10. \A s \in Side : \A i \in 1..Len(data'[c][s]) : data'[c][s][i] = SourceByte(Job(c), s, i - 1)
    BY <1>0, <2>2, <2>4, <2>8, <2>9 DEF SourceInv
  <2>11. side[c] = 0 => data'[c][1] = <<>>
    BY <1>0, <2>2, <2>4 DEF SourceInv, Side
  <2>12. /\ Len(data'[c][side[c]]) = xfer'[c].p
         /\ \A s \in Side : src[c][s].stated <= MaxSrcBytes
    BY <1>0, <2>2, <2>4, <2>5, <2>8 DEF SourceInv
  <2> QED BY <2>2, <2>10, <2>11, <2>12 DEF SourceInv, CoreSteps, Job
<1>7. CASE ReadFileDone(c)
  <2>1. pc[c] = "read_file" /\ UNCHANGED <<calls, src, data>>
    BY <1>7 DEF ReadFileDone, At, callVars
  <2>2. \/ pc'[c] = "idle"
        \/ side[c] = 0 /\ pc'[c] = "open_file" /\ side'[c] = 1
        \/ pc'[c] = "open" /\ SizesAsStated(c)
    BY <1>7, <1>pc, <1>side DEF ReadFileDone, Goto, Return
  <2>3. CASE side[c] = 0 /\ pc'[c] = "open_file" /\ side'[c] = 1
    BY <1>0, <2>1, <2>3 DEF SourceInv, CoreSteps, Job
  <2>4. CASE pc'[c] = "open" /\ SizesAsStated(c)
    BY <1>0, <2>1, <2>4 DEF SourceInv, CoreSteps, Job, SizesAsStated
  <2> QED BY <1>1, <2>2, <2>3, <2>4
<1>8. CASE Open(c)
  <2>1. UNCHANGED <<calls, src, data>>
    BY <1>8 DEF Open, Fails, callVars
  <2>2. pc[c] = "open"
    BY <1>8 DEF Open, Fails, At
  <2>3. \/ pc'[c] = "idle"
        \/ pc'[c] = "open"
        \/ /\ pc'[c] = "dma" /\ side'[c] = 0
           /\ xfer'[c] = Begin(src_ddr_base(0), Len(data[c][0]))
    BY <1>8, <2>2, <1>pc, <1>side, <1>xfer DEF Open, Fails, Goto, Return
  <2>4. CASE pc'[c] = "open"
    BY <1>0, <2>1, <2>2, <2>4 DEF SourceInv, CoreSteps, Job, SizesAsStated
  <2>5. ASSUME pc'[c] = "dma", side'[c] = 0, xfer'[c] = Begin(src_ddr_base(0), Len(data[c][0]))
        PROVE  SourceInv(c)'
    <3>1. xfer'[c].p = 0 /\ xfer'[c].addr = src_ddr_base(0) /\ xfer'[c].remaining = Len(data[c][0])
      BY <2>5 DEF Begin
    <3>2. /\ xfer'[c].p + xfer'[c].remaining = Len(data[c][0])
          /\ xfer'[c].addr = src_ddr_base(0) + xfer'[c].p
      BY <3>1, <1>data, Areas DEF Side
    <3>3. LoadedTo(c, 0, 0)'
      BY DEF LoadedTo
    <3>4. SizesAsStated(c)'
      BY <1>0, <2>1, <2>2 DEF SourceInv, CoreSteps, SizesAsStated
    <3>5. \A s \in Side : /\ src'[c][s].stated <= MaxSrcBytes
                          /\ \A i \in 1..Len(data'[c][s]) :
                                data'[c][s][i] = SourceByte(Job(c)', s, i - 1)
      BY <1>0, <2>1, <2>2 DEF SourceInv, Job
    <3> QED BY <2>1, <2>5, <3>1, <3>2, <3>3, <3>4, <3>5 DEF SourceInv, CoreSteps, src_ddr_base
  <2> QED BY <1>1, <2>3, <2>4, <2>5
<1>9. CASE DmaToDevice(c)
  <2>1. UNCHANGED <<calls, src, data, side>>
    BY <1>9 DEF DmaToDevice, Fails, callVars
  <2>2. pc[c] = "dma"
    BY <1>9 DEF DmaToDevice, Fails, At
  <2>3. CASE Fails(c, "dma", "dma")
    BY <1>1, <1>pc, <2>3 DEF Fails, Return, Goto
  <2>4. ASSUME NEW n \in Moved(c),
               ddr' = [a \in Addresses |->
                         IF a \in xfer[c].addr..xfer[c].addr + n - 1
                         THEN data[c][side[c]][xfer[c].p + a - xfer[c].addr + 1]
                         ELSE ddr[a]],
               xfer' = [xfer EXCEPT ![c] = Advance(@, n)], UNCHANGED pc
        PROVE  SourceInv(c)'
    <3> DEFINE s == side[c]
               b == src_ddr_base(s)
               p == xfer[c].p
               m == Len(data[c][s])
    <3>1. /\ p \in Nat /\ n \in Nat /\ n >= 1 /\ p + n <= m /\ m <= MaxSrcBytes
          /\ \A a \in Addresses : a \in b + p..b + p + n - 1 => ddr'[a] = SourceByte(Job(c), s, a - b)
          /\ \A a \in Addresses : a \notin b + p..b + p + n - 1 => ddr'[a] = ddr[a]
      BY <2>2, <2>4, DmaEffect DEF At
    <3>2. /\ xfer'[c].p = p + n /\ xfer'[c].addr = xfer[c].addr + n
          /\ xfer'[c].remaining = xfer[c].remaining - n
      BY <1>xfer, <2>4 DEF Advance
    <3>3. xfer[c].addr = b + p /\ p + xfer[c].remaining = m /\ xfer[c].remaining \in Nat
      BY <1>0, <1>xfer, <2>2, TransferType DEF SourceInv
    <3>4. s \in Side /\ b \in Nat /\ m \in Nat
      <4>1. \A t \in Side : src_ddr_base(t) \in Nat
        BY Areas
      <4> QED BY <1>side, <1>data, <4>1
    <3>old. LoadedTo(c, s, p) /\ (s = 1 => LoadedTo(c, 0, Len(data[c][0])))
      BY <1>0, <2>2 DEF SourceInv
    <3>src. \A t \in Side : Len(data[c][t]) = src[c][t].stated /\ src[c][t].stated <= MaxSrcBytes
      BY <1>0, <2>2 DEF SourceInv, CoreSteps, SizesAsStated
    <3>bytes. \A t \in Side : \A i \in 1..Len(data[c][t]) : data[c][t][i] = SourceByte(Job(c), t, i - 1)
      BY <1>0, <2>2 DEF SourceInv
    <3> HIDE DEF s, b, p, m
    <3>5. ASSUME NEW i \in 0..p + n - 1 PROVE ddr'[b + i] = SourceByte(Job(c), s, i)
      <4>1. b + i \in Addresses /\ (b + i) - b = i
        BY <3>1, <3>4, Areas DEF b
      <4>2. CASE i < p
        <5>1. i \in 0..p - 1 /\ b + i \notin b + p..b + p + n - 1
          BY <4>2, <3>1, <3>4
        <5>2. ddr[b + i] = SourceByte(Job(c), s, i)
          BY <5>1, <3>old DEF LoadedTo, b
        <5> QED BY <4>1, <5>1, <5>2, <3>1
      <4>3. CASE i >= p
        <5>1. b + i \in b + p..b + p + n - 1
          BY <4>3, <3>1, <3>4
        <5> QED BY <4>1, <5>1, <3>1
      <4> QED BY <4>2, <4>3, <3>1
    <3>6. LoadedTo(c, side[c], xfer[c].p)'
      <4>1. side'[c] = s /\ Job(c)' = Job(c) /\ xfer'[c].p = p + n
        BY <2>1, <3>2 DEF s, Job
      <4>2. \A i \in 0..p + n - 1 : ddr'[b + i] = SourceByte(Job(c), s, i)
        BY <3>5
      <4>3. src_ddr_base(side[c])' = b
        BY <4>1 DEF b, src_ddr_base
      <4>4. p \in Nat /\ n \in Nat
        BY <3>1
      <4> QED BY <4>1, <4>2, <4>3, <4>4 DEF LoadedTo
    <3>7. s = 1 => LoadedTo(c, 0, Len(data[c][0]))'
      <4> SUFFICES ASSUME s = 1, NEW i \in 0..Len(data[c][0]) - 1
                   PROVE  ddr'[src_ddr_base(0) + i] = ddr[src_ddr_base(0) + i]
        BY <2>1, <3>old DEF LoadedTo, Job, src_ddr_base
      <4>1. Len(data[c][0]) \in Nat /\ Len(data[c][0]) <= MaxSrcBytes
        BY <3>src, <1>data DEF Side
      <4>2. b = MaxSrcBytes /\ src_ddr_base(0) + i = i
        BY <4>1, Areas DEF b
      <4>3. i \in Addresses /\ i \notin b + p..b + p + n - 1
        BY <4>1, <4>2, <3>1, Areas
      <4> QED BY <3>1, <4>2, <4>3
    <3>8. /\ xfer'[c].p + xfer'[c].remaining = Len(data'[c][side'[c]])
          /\ xfer'[c].addr = src_ddr_base(side'[c]) + xfer'[c].p
      <4>1. (p + n) + (xfer[c].remaining - n) = m /\ (b + p) + n = b + (p + n)
        BY <3>1, <3>3, <3>4
      <4> QED BY <2>1, <3>2, <3>3, <4>1 DEF s, b, m
    <3>9. /\ SizesAsStated(c)'
          /\ \A t \in Side : /\ src'[c][t].stated <= MaxSrcBytes
                            /\ \A i \in 1..Len(data'[c][t]) :
                                  data'[c][t][i] = SourceByte(Job(c)', t, i - 1)
      BY <2>1, <3>src, <3>bytes DEF SizesAsStated, Job
    <3>10. side'[c] = 1 => LoadedTo(c, 0, Len(data[c][0]))'
      BY <2>1, <3>7 DEF s
    <3>11. pc'[c] = "dma"
      BY <2>2, <2>4
    <3> QED BY <3>6, <3>8, <3>9, <3>10, <3>11 DEF SourceInv, CoreSteps, src_ddr_base
  <2> QED BY <1>9, <2>3, <2>4 DEF DmaToDevice
<1>10. CASE DmaToDeviceDone(c)
  <2>1. UNCHANGED <<calls, src, data, ddr>> /\ pc[c] = "dma" /\ xfer[c].remaining = 0
    BY <1>10 DEF DmaToDeviceDone, callVars, cardVars, At
  <2>2. \/ /\ side[c] = 0 /\ side'[c] = 1 /\ pc'[c] = "dma"
           /\ xfer'[c] = Begin(src_ddr_base(1), Len(data[c][1]))
        \/ side[c] = 1 /\ pc'[c] = "clear"
    BY <1>10, <2>1, <1>pc, <1>side, <1>xfer DEF DmaToDeviceDone, Goto
  <2>3. LoadedTo(c, side[c], Len(data[c][side[c]]))
    <3>1. xfer[c].p = Len(data[c][side[c]])
      BY <1>0, <1>xfer, <2>1, TransferType DEF SourceInv
    <3> QED BY <1>0, <2>1, <3>1 DEF SourceInv
  <2>4. \A s \in Side : /\ src'[c][s].stated <= MaxSrcBytes
                        /\ \A i \in 1..Len(data'[c][s]) :
                              data'[c][s][i] = SourceByte(Job(c)', s, i - 1)
    BY <1>0, <2>1 DEF SourceInv, Job
  <2>5. SizesAsStated(c)'
    BY <1>0, <2>1 DEF SourceInv, CoreSteps, SizesAsStated
  <2>6. ASSUME side[c] = 0, side'[c] = 1, pc'[c] = "dma",
               xfer'[c] = Begin(src_ddr_base(1), Len(data[c][1]))
        PROVE  SourceInv(c)'
    <3>1. xfer'[c].p = 0 /\ xfer'[c].addr = src_ddr_base(1) /\ xfer'[c].remaining = Len(data[c][1])
      BY <2>6 DEF Begin
    <3>2. /\ xfer'[c].p + xfer'[c].remaining = Len(data[c][1])
          /\ xfer'[c].addr = src_ddr_base(1) + xfer'[c].p
      BY <3>1, <1>data, Areas DEF Side
    <3>3. LoadedTo(c, 1, 0)' /\ LoadedTo(c, 0, Len(data[c][0]))'
      BY <2>1, <2>3, <2>6 DEF LoadedTo, Job, src_ddr_base
    <3> QED BY <2>1, <2>4, <2>5, <2>6, <3>1, <3>2, <3>3 DEF SourceInv, CoreSteps, src_ddr_base
  <2>7. ASSUME side[c] = 1, pc'[c] = "clear" PROVE SourceInv(c)'
    <3>1. LoadedTo(c, 1, Len(data[c][1])) /\ LoadedTo(c, 0, Len(data[c][0]))
      BY <1>0, <2>1, <2>3, <2>7 DEF SourceInv
    <3>2. WholeSources(c)'
      BY <2>1, <3>1 DEF WholeSources, LoadedTo, Job, src_ddr_base, Side
    <3> QED BY <2>4, <2>5, <2>7, <3>2 DEF SourceInv, CoreSteps
  <2> QED BY <2>2, <2>6, <2>7
<1>11. CASE Clear(c) \/ ClearOff(c) \/ Start(c)
  <2>1. UNCHANGED <<calls, src, data, ddr>>
    BY <1>11 DEF Clear, ClearOff, Start, CtrlStep, WriteCtrl, moveVars, cardVars
  <2>2. pc[c] \in Later /\ pc'[c] \in Later
    BY <1>11, <1>pc DEF Clear, ClearOff, Start, CtrlStep, At, Goto, CoreSteps
  <2> QED BY <1>3, <2>1, <2>2
<1>12. CASE Program(c)
  <2>1. UNCHANGED <<calls, src, data, ddr>>
    BY <1>12 DEF Program, moveVars
  <2>2. pc[c] \in Later /\ pc'[c] \in Later
    BY <1>12, <1>pc DEF Program, At, Goto, CoreSteps
  <2> QED BY <1>3, <2>1, <2>2
<1>13. CASE Poll(c) \/ PollTimeout(c) \/ PollFails(c)
  <2>1. UNCHANGED <<calls, src, data, ddr>>
    BY <1>13 DEF Poll, PollTimeout, PollFails, Fails, callVars, cardVars
  <2>2. pc[c] \in Later /\ pc'[c] \in Later \cup {"idle"}
    BY <1>13, <1>pc DEF Poll, PollTimeout, PollFails, Fails, At, Goto, Return, CoreSteps
  <2> QED BY <1>1, <1>3, <2>1, <2>2
<1>14. CASE ReadCount(c) \/ ReadSize(c) \/ DmaFromDevice(c)
  <2>1. UNCHANGED <<calls, src, data, ddr>>
    BY <1>14 DEF ReadCount, ReadSize, DmaFromDevice, Fails, callVars, cardVars
  <2>2. pc[c] \in Later /\ pc'[c] \in Later \cup {"idle"}
    BY <1>14, <1>pc DEF ReadCount, ReadSize, DmaFromDevice, Fails, At, Goto, Return, CoreSteps
  <2> QED BY <1>1, <1>3, <2>1, <2>2
<1>15. CASE DmaFromDeviceDone(c)
  <2>1. UNCHANGED <<calls, src, data, ddr>>
    BY <1>15 DEF DmaFromDeviceDone, callVars, cardVars
  <2>2. pc[c] \in Later /\ pc'[c] \in {"read_back", "create", "idle"}
    BY <1>15, <1>pc DEF DmaFromDeviceDone, At, Goto, Return, CoreSteps
  <2>3. pc[c] /= "idle" /\ "read_back" \in Later
    BY <2>2 DEF CoreSteps
  <2> QED BY <1>1, <1>2, <1>3, <2>1, <2>2, <2>3
<1>16. CASE CreateFile(c) \/ WriteFile(c) \/ SyncFile(c)
  <2>1. UNCHANGED <<calls, src, data>>
    BY <1>16 DEF CreateFile, WriteFile, SyncFile, callVars
  <2>2. pc[c] /= "idle" /\ pc'[c] \in {"write_file", "fsync", "idle"}
    BY <1>16, <1>pc DEF CreateFile, WriteFile, SyncFile, At, Goto, Return
  <2> QED BY <1>1, <1>2, <2>1, <2>2
<1>17. CASE ReadFileFails(c) \/ WriteFileFails(c)
  BY <1>1, <1>17, <1>pc DEF ReadFileFails, WriteFileFails, Return, Goto
<1> QED BY <1>4, <1>5, <1>6, <1>7, <1>8, <1>9, <1>10, <1>11, <1>12, <1>13, <1>14, <1>15,
           <1>16, <1>17 DEF CallerStep, Step

-----------------------------------------------------------------------------
(* Steps of the thread: registers and the engine.                          *)

\* Both source areas hold the call's SSTables and both size registers its
\* sizes: what the engine finds there is the job, unless a source is empty.
LEMMA EngineSees ==
    ASSUME IInv, NEW c \in Callers, WholeSources(c), \A r \in 1..3 : OwnReg(c, r)
    PROVE  (\A s \in Side : Loaded(s) = Job(c)) \/ Rejected
<1> SUFFICES ASSUME ~Rejected, NEW s \in Side PROVE Loaded(s) = Job(c)
  OBVIOUS
<1>1. s + 1 \in {1, 2} /\ s + 1 \in 1..3 /\ (s + 1) - 1 = s
  BY DEF Side
<1>2. Len(data[c][s]) \in Nat
  BY DEF IInv, HostType
<1>3. cfg[s + 1].value = Len(data[c][s])
  BY <1>1 DEF OwnReg, RegValue
<1>4. cfg[s + 1].value /= 0
  BY DEF Rejected
<1>5. \A i \in 0..Len(data[c][s]) - 1 : ddr[src_ddr_base(s) + i] = SourceByte(Job(c), s, i)
  BY DEF WholeSources, LoadedTo
<1>6. src_ddr_base(s) + 0 = src_ddr_base(s) /\ 0 \in 0..Len(data[c][s]) - 1
  BY <1>2, <1>3, <1>4, Areas
<1>7. ddr[src_ddr_base(s)] = SourceByte(Job(c), s, 0)
  BY <1>5, <1>6
<1>8. ddr[src_ddr_base(s)].job = Job(c)
  BY <1>7 DEF SourceByte
<1> QED BY <1>3, <1>5, <1>8 DEF Loaded

\* Clearing, programming and starting the card keep CommandInv.
LEMMA CommandStep ==
    ASSUME IInv, NEW c \in Callers, CallerStep(c)
    PROVE  CommandInv(c)'
<1>0. CommandInv(c) /\ SourceInv(c) /\ HostType /\ CardType /\ EngineInv
  BY DEF IInv
<1>pc. pc \in [Callers -> Steps] /\ skipped \in [Callers -> BOOLEAN]
  BY <1>0 DEF HostType
<1>regs. regs_left \in [Callers -> {<<>>, <<3>>, <<2, 3>>, <<1, 2, 3>>}]
  BY <1>0 DEF HostType
<1> DEFINE Commanded == {"clear_off", "program", "start", "poll", "count", "sizes", "read_back"}
<1>1. ASSUME pc'[c] \notin Commanded PROVE CommandInv(c)'
  BY <1>1 DEF CommandInv
<1>2. ASSUME pc[c] \in {"poll", "count", "sizes", "read_back"},
             pc'[c] \in {"count", "sizes", "read_back"},
             UNCHANGED <<skipped, calls, cardVars>>
      PROVE  CommandInv(c)'
  BY <1>0, <1>2 DEF CommandInv, cardVars, OwnFiles, Job
<1>3. CASE Clear(c)
  <2>1. pc'[c] = "clear_off"
    BY <1>3, <1>pc DEF Clear, CtrlStep, Goto
  <2>2. ~skipped'[c] => engine' = "idle" /\ r_status' = "none"
    BY <1>3, <1>pc, <1>0 DEF Clear, CtrlStep, WriteCtrl, EngineInv
  <2> QED BY <2>1, <2>2 DEF CommandInv
<1>4. CASE ClearOff(c)
  <2>1. pc[c] = "clear_off" /\ pc'[c] = "program"
    BY <1>4, <1>pc DEF ClearOff, CtrlStep, Goto, At
  <2>2. [i \in 1..Len(ConfigRegs) |-> i] = <<1, 2, 3>>
    BY DEF ConfigRegs
  <2>3. regs_left'[c] = <<1, 2, 3>>
    BY <1>4, <1>regs, <2>2 DEF ClearOff
  <2>4. ~skipped'[c] => ~skipped[c] /\ WriteCtrl(0)
    BY <1>4, <1>pc DEF ClearOff, CtrlStep
  <2>5. ~skipped'[c] => r_ctrl' = 0 /\ engine' = "idle" /\ r_status' = "none"
    BY <1>0, <2>1, <2>4 DEF WriteCtrl, CommandInv
  <2>6. regs_left'[c] /= <<>> /\ \A r \in 1..3 : ~(r < Head(regs_left'[c]))
    BY <2>3, RegisterTails
  <2> QED BY <2>1, <2>5, <2>6 DEF CommandInv
<1>5. CASE Program(c)
  <2>1. pc[c] = "program" /\ UNCHANGED <<calls, api, data, r_ctrl, r_status, engine>>
    BY <1>5 DEF Program, At, moveVars
  <2>2. regs_left[c] \in {<<3>>, <<2, 3>>, <<1, 2, 3>>}
    BY <1>0, <1>regs, <2>1 DEF CommandInv
  <2>3. regs_left'[c] = Tail(regs_left[c])
    BY <1>5, <1>regs DEF Program
  <2>4. pc'[c] = IF Len(regs_left[c]) = 1 THEN "start" ELSE "program"
    BY <1>5, <1>pc DEF Program, Goto
  <2> DEFINE h == Head(regs_left[c])
  <2>5. h \in 1..3
    BY <2>2, RegisterTails
  <2>6. /\ pc'[c] = "program" => regs_left'[c] /= <<>> /\ Head(regs_left'[c]) = h + 1
        /\ pc'[c] = "start" => h = 3
        /\ pc'[c] \in {"program", "start"}
    <3>1. CASE regs_left[c] = <<3>>
      BY <3>1, <2>3, <2>4, RegisterTails
    <3>2. CASE regs_left[c] = <<2, 3>>
      BY <3>2, <2>3, <2>4, RegisterTails
    <3>3. CASE regs_left[c] = <<1, 2, 3>>
      BY <3>3, <2>3, <2>4, RegisterTails
    <3> QED BY <2>2, <3>1, <3>2, <3>3
  <2> HIDE DEF h
  <2>7. ~skipped'[c] =>
          /\ ~skipped[c]
          /\ cfg' = [cfg EXCEPT ![h] = [job |-> Job(c), value |-> RegValue(c, h)]]
    BY <1>5, <1>pc DEF Program, h
  <2>8. ASSUME ~skipped'[c], NEW r \in 1..3, r <= h PROVE OwnReg(c, r)'
    <3>1. Job(c)' = Job(c) /\ RegValue(c, r)' = RegValue(c, r)
      BY <2>1 DEF Job, RegValue
    <3>2. cfg \in [1..3 -> [job : Jobs, value : Nat]]
      BY <1>0 DEF CardType
    <3>3. CASE r = h
      <4>1. cfg'[r] = [job |-> Job(c), value |-> RegValue(c, r)]
        BY <2>5, <2>7, <2>8, <3>2, <3>3
      <4> QED BY <3>1, <4>1 DEF OwnReg
    <3>4. CASE r /= h
      <4>1. cfg'[r] = cfg[r]
        BY <2>5, <2>7, <2>8, <3>2, <3>4
      <4>2. r < h
        BY <2>5, <2>8, <3>4
      <4>3. OwnReg(c, r)
        BY <1>0, <2>1, <2>7, <2>8, <4>2 DEF CommandInv, h
      <4> QED BY <3>1, <4>1, <4>3 DEF OwnReg
    <3> QED BY <3>3, <3>4
  <2>9. ~skipped'[c] => r_ctrl' = 0 /\ engine' = "idle" /\ r_status' = "none"
    BY <1>0, <2>1, <2>7 DEF CommandInv
  <2>10. ASSUME ~skipped'[c], NEW r \in 1..3,
                pc'[c] = "start" \/ (pc'[c] = "program" /\ r < Head(regs_left'[c]))
         PROVE  OwnReg(c, r)'
    <3>1. r <= h
      BY <2>5, <2>6, <2>10
    <3> QED BY <2>8, <2>10, <3>1
  <2> QED BY <2>6, <2>9, <2>10 DEF CommandInv
<1>6. CASE Start(c)
  <2>1. pc[c] = "start" /\ pc'[c] = "poll" /\ UNCHANGED <<calls, api, data>>
    BY <1>6, <1>pc DEF Start, CtrlStep, Goto, At, moveVars
  <2> SUFFICES ASSUME ~skipped'[c] PROVE CommandInv(c)'
    BY <2>1 DEF CommandInv
  <2>2. ~skipped[c] /\ WriteCtrl(1)
    BY <1>6, <1>pc DEF Start, CtrlStep
  <2>3. r_ctrl = 0 /\ engine = "idle" /\ \A r \in 1..3 : OwnReg(c, r)
    BY <1>0, <2>1, <2>2 DEF CommandInv
  <2>4. r_status' = "none" /\ seen' = [s \in Side |-> Loaded(s)] /\ UNCHANGED cfg
    BY <2>2, <2>3 DEF WriteCtrl
  <2>5. \A r \in 1..3 : OwnReg(c, r)'
    BY <2>1, <2>3, <2>4 DEF OwnReg, Job, RegValue
  <2>6. WholeSources(c)
    BY <1>0, <2>1 DEF SourceInv, CoreSteps
  <2>7. seen' = [s \in Side |-> Job(c)] \/ Rejected
    BY <2>3, <2>4, <2>6, EngineSees
  <2>8. (seen = [s \in Side |-> Job(c)] \/ Rejected)'
    BY <2>1, <2>4, <2>7 DEF Rejected, Job
  <2> QED BY <2>1, <2>4, <2>5, <2>8 DEF CommandInv
<1>7. CASE Poll(c) \/ PollTimeout(c) \/ PollFails(c)
  <2>1. pc[c] = "poll" /\ pc'[c] \in {"count", "idle"}
    BY <1>7, <1>pc DEF Poll, PollTimeout, PollFails, Fails, Goto, Return, At
  <2>2. UNCHANGED <<skipped, calls, cardVars>>
    BY <1>7 DEF Poll, PollTimeout, PollFails, Fails, callVars
  <2> QED BY <1>1, <1>2, <2>1, <2>2
<1>8. CASE ReadCount(c) \/ ReadSize(c) \/ DmaFromDevice(c)
  <2>1. pc[c] \in {"count", "sizes", "read_back"} /\ pc'[c] \in {"sizes", "read_back", "idle"}
    BY <1>8, <1>pc DEF ReadCount, ReadSize, DmaFromDevice, Fails, Goto, Return, At
  <2>2. UNCHANGED <<skipped, calls, cardVars>>
    BY <1>8 DEF ReadCount, ReadSize, DmaFromDevice, Fails, callVars
  <2> QED BY <1>1, <1>2, <2>1, <2>2
<1>9. CASE DmaFromDeviceDone(c)
  <2>1. pc[c] = "read_back" /\ pc'[c] \in {"read_back", "create", "idle"}
    BY <1>9, <1>pc DEF DmaFromDeviceDone, Goto, Return, At
  <2>2. UNCHANGED <<skipped, calls, cardVars>>
    BY <1>9 DEF DmaFromDeviceDone, callVars
  <2> QED BY <1>1, <1>2, <2>1, <2>2
<1>10. CASE Call(c) \/ OpenFile(c) \/ ReadFile(c) \/ ReadFileDone(c) \/ ReadFileFails(c)
  <2>1. pc'[c] \in {"idle", "open_file", "read_file", "open"}
    BY <1>10, <1>pc DEF Call, OpenFile, ReadFile, ReadFileDone, ReadFileFails, Goto, Return, At
  <2> QED BY <1>1, <2>1
<1>11. CASE Open(c) \/ DmaToDevice(c) \/ DmaToDeviceDone(c)
  <2>1. pc'[c] \in {"idle", "open", "dma", "clear"}
    BY <1>11, <1>pc DEF Open, DmaToDevice, DmaToDeviceDone, Fails, Goto, Return, At
  <2> QED BY <1>1, <2>1
<1>12. CASE CreateFile(c) \/ WriteFile(c) \/ SyncFile(c) \/ WriteFileFails(c)
  <2>1. pc'[c] \in {"idle", "write_file", "fsync"}
    BY <1>12, <1>pc DEF CreateFile, WriteFile, SyncFile, WriteFileFails, Goto, Return, At
  <2> QED BY <1>1, <2>1
<1> QED BY <1>3, <1>4, <1>5, <1>6, <1>7, <1>8, <1>9, <1>10, <1>11, <1>12 DEF CallerStep, Step

-----------------------------------------------------------------------------
(* Steps of the thread: reading back and writing the output file.          *)

\* The values of outputs that a step of the transfer leaves behind.
LEMMA BufferGrows ==
    ASSUME NEW o \in Seq(Seq(OutputBytes)), Len(o) >= 1, NEW got \in Seq(OutputBytes),
           NEW q, q = [o EXCEPT ![Len(o)] = o[Len(o)] \o got]
    PROVE  /\ Len(q) = Len(o)
           /\ \A k \in 1..Len(o) - 1 : q[k] = o[k]
           /\ q[Len(o)] = o[Len(o)] \o got
<1>1. Len(o) \in 1..Len(o) /\ o[Len(o)] \in Seq(OutputBytes)
  OBVIOUS
<1>2. o[Len(o)] \o got \in Seq(OutputBytes)
  BY <1>1
<1> DEFINE z == o[Len(o)] \o got
<1> HIDE DEF z
<1>3. q = [o EXCEPT ![Len(o)] = z] /\ z \in Seq(OutputBytes)
  BY <1>2 DEF z
<1>4. Len(q) = Len(o) /\ \A k \in 1..Len(o) : q[k] = IF k = Len(o) THEN z ELSE o[k]
  <2> DEFINE n == Len(o)
             S == Seq(OutputBytes)
  <2>1. n \in 1..Len(o) /\ z \in S /\ o \in Seq(S) /\ q = [o EXCEPT ![n] = z]
    BY <1>1, <1>3
  <2> HIDE DEF n, S
  <2>2. Len(q) = Len(o)
    BY <2>1, ExceptSeq
  <2>3. ASSUME NEW k \in 1..Len(o) PROVE q[k] = IF k = n THEN z ELSE o[k]
    <3>1. o \in [1..Len(o) -> S]
      BY <2>1
    <3> QED BY <2>1, <3>1, Zenon
  <2> QED BY <2>2, <2>3 DEF n
<1>6. \A k \in 1..Len(o) - 1 : q[k] = o[k]
  <2>1. \A k \in 1..Len(o) - 1 : k \in 1..Len(o) /\ k /= Len(o)
    OBVIOUS
  <2> QED BY <1>4, <2>1
<1> QED BY <1>1, <1>4, <1>6 DEF z

\* Arriving bytes continue a buffer that is the beginning of its file.
LEMMA BytesContinue ==
    ASSUME NEW buf \in Seq(OutputBytes), NEW got \in Seq(OutputBytes), NEW f \in OutputFiles,
           \A i \in 1..Len(got) : got[i] = OutputByte(f, Len(buf) + i - 1),
           BytesOf(f.no, f.size, buf)
    PROVE  /\ Len(buf \o got) = Len(buf) + Len(got)
           /\ BytesOf(f.no, f.size, buf \o got)
           /\ \A k \in 1..Len(buf \o got) : \/ k \in 1..Len(buf) /\ (buf \o got)[k] = buf[k]
                                           \/ (buf \o got)[k] = OutputByte(f, k - 1)
<1> DEFINE z == buf \o got
<1>1. /\ Len(buf) \in Nat /\ Len(got) \in Nat /\ Len(z) = Len(buf) + Len(got)
      /\ f.size \in Nat
  BY DEF OutputFiles
<1>2. ASSUME NEW k \in 1..Len(z)
      PROVE  \/ k \in 1..Len(buf) /\ z[k] = buf[k]
             \/ z[k] = OutputByte(f, k - 1)
  <2>1. CASE k <= Len(buf)
    BY <1>1, <2>1
  <2>2. CASE k > Len(buf)
    <3>1. k - Len(buf) \in 1..Len(got) /\ z[k] = got[k - Len(buf)]
      BY <1>1, <2>2
    <3>2. Len(buf) + (k - Len(buf)) - 1 = k - 1
      BY <1>1
    <3> QED BY <3>1, <3>2
  <2>3. k <= Len(buf) \/ k > Len(buf)
    BY <1>1
  <2> QED BY <2>1, <2>2, <2>3
<1> HIDE DEF z
<1>3. BytesOf(f.no, f.size, z)
  <2> SUFFICES ASSUME NEW k \in 1..Len(z)
               PROVE  z[k].no = f.no /\ z[k].at = k - 1 /\ z[k].left = f.size - k + 1
    BY DEF BytesOf
  <2>1. CASE k \in 1..Len(buf) /\ z[k] = buf[k]
    BY <2>1 DEF BytesOf
  <2>2. CASE z[k] = OutputByte(f, k - 1)
    <3>1. z[k].no = f.no /\ z[k].at = k - 1 /\ z[k].left = f.size - (k - 1)
      BY <2>2 DEF OutputByte
    <3>2. f.size - (k - 1) = f.size - k + 1
      BY <1>1
    <3> QED BY <3>1, <3>2
  <2> QED BY <1>2, <2>1, <2>2
<1> QED BY <1>1, <1>2, <1>3 DEF z

\* A piece appended to what was written of a file is still its beginning.
LEMMA WrittenContinues ==
    ASSUME NEW b \in Seq(OutputBytes), NEW p \in Nat, NEW n \in Nat, n >= 1, p + n <= Len(b)
    PROVE  SubSeq(b, 1, p) \o SubSeq(b, p + 1, p + n) = SubSeq(b, 1, p + n)
<1> DEFINE x == SubSeq(b, 1, p)
           y == SubSeq(b, p + 1, p + n)
           z == SubSeq(b, 1, p + n)
<1>0. Len(b) \in Nat /\ \A i \in 1..Len(b) : b[i] \in OutputBytes
  OBVIOUS
<1>1. x \in Seq(OutputBytes) /\ Len(x) = p /\ \A i \in 1..p : x[i] = b[i]
  <2>1. \A i \in 1..p : i \in 1..Len(b) /\ 1 + i - 1 = i
    BY <1>0
  <2>2. x \in Seq(OutputBytes)
    BY <1>0, <2>1, SubSeqProperties
  <2>3. Len(x) = p
    OBVIOUS
  <2> QED BY <2>1, <2>2, <2>3
<1>2. y \in Seq(OutputBytes) /\ Len(y) = n /\ \A i \in 1..n : y[i] = b[p + i]
  <2>1. \A i \in p + 1..p + n : i \in 1..Len(b)
    BY <1>0
  <2>2. y \in Seq(OutputBytes)
    BY <1>0, <2>1, SubSeqProperties
  <2>3. Len(y) = n
    OBVIOUS
  <2>4. \A i \in 1..n : y[i] = b[p + i]
    <3> SUFFICES ASSUME NEW i \in 1..n PROVE y[i] = b[p + i]
      OBVIOUS
    <3>1. y[i] = b[(p + 1) + i - 1] /\ (p + 1) + i - 1 = p + i
      OBVIOUS
    <3> QED BY <3>1
  <2> QED BY <2>2, <2>3, <2>4
<1>3. z \in Seq(OutputBytes) /\ Len(z) = p + n /\ \A i \in 1..p + n : z[i] = b[i]
  <2>1. \A i \in 1..p + n : i \in 1..Len(b) /\ 1 + i - 1 = i
    BY <1>0
  <2>2. z \in Seq(OutputBytes)
    BY <1>0, <2>1, SubSeqProperties
  <2>3. Len(z) = p + n
    OBVIOUS
  <2> QED BY <2>1, <2>2, <2>3
<1> HIDE DEF x, y, z
<1>4. x \o y \in Seq(OutputBytes) /\ Len(x \o y) = p + n
  BY <1>1, <1>2, ConcatProperties
<1>5. ASSUME NEW i \in 1..p + n PROVE (x \o y)[i] = z[i]
  <2>1. CASE i <= p
    <3>1. i \in 1..p /\ i \in 1..p + n
      BY <2>1
    <3>2. (x \o y)[i] = x[i]
      BY ONLY <1>1, <1>2, <3>1, ConcatProperties, p \in Nat, n \in Nat
    <3>3. x[i] = b[i] /\ z[i] = b[i]
      BY ONLY <1>1, <1>3, <3>1
    <3> QED BY ONLY <3>2, <3>3
  <2>2. CASE i > p
    <3>1. i - p \in 1..n /\ (x \o y)[i] = y[i - p] /\ p + (i - p) = i
      BY <1>1, <1>2, <2>2
    <3> QED BY <1>2, <1>3, <3>1
  <2>3. i <= p \/ i > p
    OBVIOUS
  <2> QED BY <2>1, <2>2, <2>3
<1>6. x \o y = z
  BY <1>3, <1>4, <1>5, SeqEqual
<1> QED BY <1>6 DEF x, y, z

\* Reading back keeps ReadInv: every buffer is the beginning of its file.
LEMMA ReadBackStep ==
    ASSUME IInv, NEW c \in Callers, DmaFromDevice(c) \/ DmaFromDeviceDone(c)
    PROVE  ReadInv(c)'
<1>0. ReadInv(c) /\ CommandInv(c) /\ HostType /\ CardType /\ FilesInv
  BY DEF IInv
<1>pc. /\ pc \in [Callers -> Steps] /\ result \in [Callers -> {"none", "OK", "error"}]
       /\ pc[c] = "read_back"
  BY <1>0 DEF HostType, DmaFromDevice, DmaFromDeviceDone, Fails, At
<1>same. UNCHANGED <<calls, api, skipped, sst_count, sst_sizes, out_file, r_status, dst>>
  BY DEF DmaFromDevice, DmaFromDeviceDone, Fails, callVars, readVars, cardVars
<1>xfer. /\ xfer \in [Callers -> Transfers] /\ xfer[c] \in Transfers
         /\ xfer[c].p \in Nat /\ xfer[c].addr \in Nat /\ xfer[c].remaining \in Nat
  BY <1>0, TransferType DEF HostType
<1> DEFINE o == outputs[c]
           j == Len(outputs[c])
           sz == sst_sizes[c]
           cnt == sst_count[c]
<1>outs. /\ outputs \in [Callers -> Seq(Seq(OutputBytes))] /\ o \in Seq(Seq(OutputBytes))
         /\ ddr_offset \in [Callers -> Nat] /\ ddr_offset[c] \in Nat
         /\ sz \in Seq(Nat) /\ Len(sz) \in Nat /\ cnt \in Nat /\ j \in Nat
  BY <1>0 DEF HostType
<1>buf. \A i \in 1..j : o[i] \in Seq(OutputBytes) /\ Len(o[i]) \in Nat
  BY <1>outs
<1>size. \A i \in 1..Len(sz) : sz[i] \in Nat
  BY <1>outs
<1>1. /\ r_status = "done" /\ result[c] = "none"
      /\ cnt = Len(dst) /\ Len(sz) = cnt /\ j \in 1..cnt
      /\ \A i \in 1..Len(sz) : sz[i] = dst[i].size
      /\ xfer[c].p = Len(o[j]) /\ xfer[c].p + xfer[c].remaining = sz[j]
      /\ xfer[c].addr = dst[j].addr + xfer[c].p
      /\ ddr_offset[c] = dst[j].addr - dst_ddr_base
      /\ \A k \in 1..j - 1 : Len(o[k]) = sz[k]
      /\ ~skipped[c] => \A i \in 1..j : Own(c, o[i])
  BY <1>0, <1>pc DEF ReadInv
<1>2. \A i \in 1..j : /\ i <= Len(sz) /\ sz[i] >= MagicBytes /\ Len(o[i]) <= sz[i]
                      /\ BytesOf(i, sz[i], o[i])
  BY <1>0 DEF ReadInv, BuffersInv
<1>3. \A i \in 1..Len(dst) : dst[i] \in OutputFiles
  BY <1>0 DEF CardType
<1>4. /\ j \in 1..Len(dst) /\ dst[j] \in OutputFiles /\ dst[j].no = j /\ dst[j].size = sz[j]
      /\ dst[j].addr \in Nat /\ dst[j].size \in Nat
  <2>1. j \in 1..Len(dst) /\ dst[j].size = sz[j]
    BY <1>1
  <2>2. dst[j].no = j
    BY <1>0, <1>1, <2>1 DEF FilesInv
  <2>3. dst[j] \in OutputFiles
    BY <1>3, <2>1
  <2> QED BY <2>1, <2>2, <2>3 DEF OutputFiles
<1>5. ~skipped[c] => \A m \in DOMAIN dst[j].of : dst[j].of[m] = Job(c)
  BY <1>0, <1>pc, <1>1, <1>4 DEF CommandInv, OwnFiles
<1>own. Job(c)' = Job(c)
  BY <1>same DEF Job
<1> HIDE DEF o, j, sz, cnt
<1>6. CASE Fails(c, "read_back", "dma")
  <2>1. pc'[c] = "idle" /\ result'[c] = "error" /\ UNCHANGED outputs
    BY <1>6, <1>pc DEF Fails, Return, Goto, readVars
  <2>2. BuffersInv(c)'
    BY <1>0, <1>same, <2>1 DEF ReadInv, BuffersInv, BytesOf
  <2> QED BY <2>1, <2>2 DEF ReadInv
<1>7. ASSUME NEW n \in Moved(c),
             outputs' = [outputs EXCEPT ![c][Len(outputs[c])] =
                           @ \o [i \in 1..n |-> ddr[xfer[c].addr + i - 1]]],
             xfer' = [xfer EXCEPT ![c] = Advance(@, n)],
             UNCHANGED <<pc, result, ddr_offset>>
      PROVE  ReadInv(c)'
  <2> DEFINE got == [i \in 1..n |-> ddr[xfer[c].addr + i - 1]]
             p == xfer[c].p
             q == outputs'[c]
  <2>1. n \in Nat /\ n \in 1..xfer[c].remaining
    BY <1>xfer, TransferType
  <2>2. \A i \in 1..n : /\ ddr[xfer[c].addr + i - 1] = OutputByte(dst[j], p + i - 1)
                        /\ ddr[xfer[c].addr + i - 1] \in OutputBytes
    BY <1>pc, BytesArriving DEF At, j
  <2>3. got \in Seq(OutputBytes) /\ Len(got) = n
    BY <2>1, <2>2
  <2>4. \A i \in 1..n : got[i] = OutputByte(dst[j], p + i - 1)
    BY <2>2
  <2> HIDE DEF got
  <2>5. q = [o EXCEPT ![Len(o)] = o[Len(o)] \o got]
    BY <1>7, <1>outs DEF o, got
  <2>6. Len(o) = j /\ Len(o) >= 1
    BY <1>1, <1>outs DEF o, j
  <2> HIDE DEF q
  <2>7. Len(q) = j /\ (\A k \in 1..j - 1 : q[k] = o[k]) /\ q[j] = o[j] \o got
    BY <1>outs, <2>3, <2>5, <2>6, BufferGrows
  <2>8. Len(o[j]) = p /\ o[j] \in Seq(OutputBytes) /\ BytesOf(dst[j].no, dst[j].size, o[j])
    BY <1>1, <1>2, <1>4, <1>buf
  <2>9. /\ Len(q[j]) = p + n /\ BytesOf(j, sz[j], q[j])
        /\ ~skipped[c] => Own(c, q[j])
    <3> DEFINE f == dst[j]
               bf == o[j]
    <3>1. /\ bf \in Seq(OutputBytes) /\ f \in OutputFiles /\ f.no = j /\ f.size = sz[j]
          /\ BytesOf(f.no, f.size, bf) /\ Len(bf) = p
          /\ \A i \in 1..Len(got) : got[i] = OutputByte(f, Len(bf) + i - 1)
      BY <1>4, <2>3, <2>4, <2>8
    <3>2. q[j] = bf \o got
      BY <2>7
    <3>3. ASSUME ~skipped[c]
          PROVE  /\ \A k \in 1..Len(bf) : \A m \in DOMAIN bf[k].of : bf[k].of[m] = Job(c)
                 /\ \A m \in DOMAIN f.of : f.of[m] = Job(c)
      <4>1. j \in 1..j
        BY <1>outs, <2>6
      <4>2. Own(c, bf)
        BY <1>1, <3>3, <4>1
      <4> QED BY <1>5, <3>3, <4>2 DEF Own
    <3> HIDE DEF f, bf
    <3>4. Len(bf \o got) = Len(bf) + Len(got) /\ BytesOf(f.no, f.size, bf \o got)
      BY <2>3, <3>1, BytesContinue
    <3>5. ~skipped[c] => Own(c, bf \o got)
      <4> DEFINE z == bf \o got
      <4>1. \A k \in 1..Len(z) : \/ k \in 1..Len(bf) /\ z[k] = bf[k]
                                 \/ z[k] = OutputByte(f, k - 1)
        BY <2>3, <3>1, BytesContinue
      <4> HIDE DEF z
      <4>2. ASSUME ~skipped[c], NEW k \in 1..Len(z), NEW m \in DOMAIN z[k].of
            PROVE  z[k].of[m] = Job(c)
        <5>1. CASE k \in 1..Len(bf) /\ z[k] = bf[k]
          BY <3>3, <4>2, <5>1
        <5>2. CASE z[k] = OutputByte(f, k - 1)
          <6>1. z[k].of = f.of
            BY <5>2 DEF OutputByte
          <6> QED BY <3>3, <4>2, <6>1
        <5> QED BY <4>1, <5>1, <5>2
      <4> QED BY <4>2 DEF Own, z
    <3> QED BY <2>3, <3>1, <3>2, <3>4, <3>5
  <2>10. /\ xfer'[c].p = p + n /\ xfer'[c].addr = xfer[c].addr + n
         /\ xfer'[c].remaining = xfer[c].remaining - n
    BY <1>xfer, <1>7 DEF Advance
  <2> HIDE DEF p
  <2>11. /\ p + n <= sz[j] /\ (p + n) + (xfer[c].remaining - n) = sz[j]
         /\ xfer[c].addr + n = dst[j].addr + (p + n) /\ p \in Nat
    <3>1. /\ p + xfer[c].remaining = sz[j] /\ xfer[c].addr = dst[j].addr + p /\ p \in Nat
          /\ dst[j].addr \in Nat /\ xfer[c].remaining \in Nat
      BY <1>1, <1>xfer, <1>4 DEF p
    <3> QED BY <2>1, <3>1
  <2>12. ASSUME NEW i \in 1..j
         PROVE  /\ i <= Len(sz) /\ sz[i] >= MagicBytes /\ Len(q[i]) <= sz[i]
                /\ BytesOf(i, sz[i], q[i]) /\ (~skipped[c] => Own(c, q[i]))
    <3>1. CASE i = j
      BY <1>2, <2>9, <2>11, <3>1
    <3>2. CASE i /= j
      <4>1. i \in 1..j - 1
        BY <1>outs, <3>2
      <4> QED BY <1>1, <1>2, <2>7, <2>12, <4>1
    <3> QED BY <3>1, <3>2
  <2>13. BuffersInv(c)'
    BY <1>same, <2>7, <2>12 DEF BuffersInv, q, sz, BytesOf
  <2>14. \A k \in 1..j - 1 : Len(q[k]) = sz[k]
    BY <1>1, <2>7
  <2>15. /\ pc'[c] = "read_back" /\ result'[c] = "none" /\ r_status' = "done"
         /\ sst_count'[c] = cnt /\ sst_sizes'[c] = sz /\ ddr_offset'[c] = ddr_offset[c]
         /\ dst' = dst /\ skipped'[c] = skipped[c] /\ outputs'[c] = q
    BY <1>same, <1>pc, <1>1, <1>7 DEF q, sz, cnt
  <2>16. ~skipped[c] => \A i \in 1..j : Own(c, outputs[c][i])'
    BY <1>own, <2>12, <2>15 DEF Own
  <2>17. /\ xfer'[c].p = Len(q[j]) /\ xfer'[c].p + xfer'[c].remaining = sz[j]
         /\ xfer'[c].addr = dst[j].addr + xfer'[c].p
    BY <2>9, <2>10, <2>11
  <2>18. /\ Len(outputs'[c]) = j /\ j \in 1..cnt /\ Len(sz) = cnt /\ cnt = Len(dst)
         /\ ddr_offset[c] = dst[j].addr - dst_ddr_base
         /\ \A i \in 1..Len(sz) : sz[i] = dst[i].size
    BY <1>1, <2>7, <2>15
  <2> QED BY <2>13, <2>14, <2>15, <2>16, <2>17, <2>18 DEF ReadInv, dst_ddr_base
<1> DEFINE next == ddr_offset[c] + Align(sz[j])
<1>8. ASSUME xfer[c].remaining = 0, j < cnt,
             ddr_offset' = [ddr_offset EXCEPT ![c] = next],
             xfer' = [xfer EXCEPT ![c] = Begin(dst_ddr_base + next, sz[j + 1])],
             outputs' = [outputs EXCEPT ![c] = Append(@, <<>>)],
             UNCHANGED <<pc, result>>
      PROVE  ReadInv(c)'
  <2> DEFINE q == Append(o, <<>>)
  <2>0. Len(o) = j
    BY DEF o, j
  <2>1. Len(q) = j + 1 /\ (\A k \in 1..j : q[k] = o[k]) /\ q[j + 1] = <<>>
    BY <1>outs, <2>0
  <2>2. outputs'[c] = q
    BY <1>8, <1>outs DEF o
  <2> HIDE DEF q
  <2>3. j + 1 \in 1..Len(dst) /\ j + 1 \in 1..Len(sz) /\ (j + 1) - 1 = j /\ j + 1 /= 1
    BY <1>1, <1>8, <1>outs
  <2>4. /\ dst[j + 1].addr = dst[j].addr + Align(dst[j].size)
        /\ dst[j + 1].size >= MagicBytes
    BY <1>0, <1>1, <2>3 DEF FilesInv
  <2>5. /\ sz[j + 1] = dst[j + 1].size /\ sz[j + 1] \in Nat /\ sz[j + 1] >= MagicBytes
        /\ dst[j + 1].addr = dst[j].addr + Align(sz[j])
    BY <1>1, <1>4, <1>size, <2>3, <2>4
  <2>6. Align(sz[j]) \in Nat /\ dst_ddr_base \in Nat
    <3>1. sz[j] \in Nat
      BY <1>4
    <3>2. Align(sz[j]) \in Nat
      BY <3>1, AlignProperties
    <3> QED BY <3>2, Areas
  <2>7. next = dst[j + 1].addr - dst_ddr_base /\ dst_ddr_base + next = dst[j + 1].addr
    BY <1>1, <1>4, <2>5, <2>6
  <2>8. /\ xfer'[c].p = 0 /\ xfer'[c].remaining = sz[j + 1]
        /\ xfer'[c].addr = dst[j + 1].addr
    BY <1>8, <1>xfer, <2>7 DEF Begin
  <2>9. Len(o[j]) = sz[j]
    BY <1>1, <1>8, <1>xfer
  <2>10. ASSUME NEW i \in 1..j + 1
         PROVE  /\ i <= Len(sz) /\ sz[i] >= MagicBytes /\ Len(q[i]) <= sz[i]
                /\ BytesOf(i, sz[i], q[i]) /\ (~skipped[c] => Own(c, q[i]))
    <3>1. CASE i = j + 1
      BY <2>1, <2>3, <2>5, <3>1 DEF BytesOf, Own
    <3>2. CASE i /= j + 1
      <4>1. i \in 1..j
        BY <1>outs, <3>2
      <4> QED BY <1>1, <1>2, <2>1, <4>1
    <3> QED BY <3>1, <3>2
  <2>11. \A k \in 1..j : Len(q[k]) = sz[k]
    <3>1. \A k \in 1..j : k = j \/ k \in 1..j - 1
      BY <1>outs
    <3> QED BY <1>1, <2>1, <2>9, <3>1
  <2>12. /\ pc'[c] = "read_back" /\ result'[c] = "none" /\ r_status' = "done"
         /\ sst_count'[c] = cnt /\ sst_sizes'[c] = sz /\ ddr_offset'[c] = next
         /\ dst' = dst /\ skipped'[c] = skipped[c]
    BY <1>same, <1>pc, <1>1, <1>8, <1>outs DEF sz, cnt
  <2>13. BuffersInv(c)'
    BY <2>1, <2>2, <2>10, <2>12 DEF BuffersInv, BytesOf
  <2>14. ~skipped[c] => \A i \in 1..j + 1 : Own(c, outputs[c][i])'
    BY <1>own, <2>2, <2>10 DEF Own
  <2> HIDE DEF next
  <2>15. /\ xfer'[c].p = Len(q[j + 1]) /\ xfer'[c].p + xfer'[c].remaining = sz[j + 1]
         /\ xfer'[c].addr = dst[j + 1].addr + xfer'[c].p
         /\ next = dst[j + 1].addr - dst_ddr_base
    <3>1. dst[j + 1] \in OutputFiles
      BY <1>3, <2>3
    <3>2. dst[j + 1].addr \in Nat
      BY <3>1 DEF OutputFiles
    <3> QED BY <2>1, <2>5, <2>7, <2>8, <3>2
  <2>16. j + 1 \in 1..cnt
    BY <1>1, <2>3
  <2> QED BY <1>1, <2>1, <2>2, <2>3, <2>11, <2>12, <2>13, <2>14, <2>15, <2>16
          DEF ReadInv, dst_ddr_base
<1>9. ASSUME xfer[c].remaining = 0, j = cnt, UNCHANGED <<xfer, outputs>>,
             IF api[c] = "RunOffload" THEN Goto(c, "create") /\ UNCHANGED result
                                      ELSE Return(c, "OK")
      PROVE  ReadInv(c)'
  <2>1. \/ pc'[c] = "create" /\ result'[c] = "none" /\ api[c] = "RunOffload"
        \/ pc'[c] = "idle" /\ api[c] /= "RunOffload"
    BY <1>9, <1>pc, <1>1 DEF Goto, Return
  <2>2. Len(o[j]) = sz[j]
    BY <1>1, <1>9, <1>xfer
  <2>3. \A k \in 1..j : Len(o[k]) = sz[k]
    <3>1. \A k \in 1..j : k = j \/ k \in 1..j - 1
      BY <1>outs
    <3> QED BY <1>1, <2>2, <3>1
  <2>4. cnt >= 1
    BY <1>1
  <2>5. AllRead(c)
    BY <1>1, <1>9, <2>3 DEF AllRead, o, j, sz, cnt
  <2>6. AllRead(c)' /\ BuffersInv(c)' /\ sst_count'[c] >= 1
    <3>1. UNCHANGED <<outputs, sst_sizes, sst_count, skipped, calls>>
      BY <1>same, <1>9
    <3>2. BuffersInv(c)
      BY <1>0 DEF ReadInv
    <3>3. AllRead(c)'
      BY <2>5, <3>1 DEF AllRead, Own, Job
    <3>4. BuffersInv(c)'
      BY <3>1, <3>2 DEF BuffersInv, BytesOf
    <3>5. sst_count'[c] >= 1
      BY <2>4, <3>1 DEF cnt
    <3> QED BY ONLY <3>3, <3>4, <3>5
  <2> QED BY <1>same, <2>1, <2>6 DEF ReadInv
<1>10. CASE DmaFromDevice(c)
  BY <1>6, <1>7, <1>10 DEF DmaFromDevice
<1>11. CASE DmaFromDeviceDone(c)
  <2>1. /\ xfer[c].remaining = 0 /\ ddr_offset' = [ddr_offset EXCEPT ![c] = next]
        /\ \/ /\ j < cnt
              /\ xfer' = [xfer EXCEPT ![c] = Begin(dst_ddr_base + next, sz[j + 1])]
              /\ outputs' = [outputs EXCEPT ![c] = Append(@, <<>>)]
              /\ UNCHANGED <<pc, result>>
           \/ /\ j = cnt /\ UNCHANGED <<xfer, outputs>>
              /\ IF api[c] = "RunOffload" THEN Goto(c, "create") /\ UNCHANGED result
                                          ELSE Return(c, "OK")
    BY <1>11 DEF DmaFromDeviceDone, j, cnt, sz
  <2> HIDE DEF next
  <2> QED BY <1>8, <1>9, <2>1
<1> QED BY <1>10, <1>11

\* Reading the count and the sizes prepares the first buffer.
LEMMA SizesStep ==
    ASSUME IInv, NEW c \in Callers, ReadCount(c) \/ ReadSize(c)
    PROVE  ReadInv(c)'
<1>0. ReadInv(c) /\ HostType /\ CardType /\ FilesInv
  BY DEF IInv
<1>pc. /\ pc \in [Callers -> Steps] /\ result \in [Callers -> {"none", "OK", "error"}]
       /\ pc[c] \in {"count", "sizes"}
  BY <1>0 DEF HostType, ReadCount, ReadSize, Fails, At
<1>same. UNCHANGED <<r_status, dst>>
  BY DEF ReadCount, ReadSize, Fails, cardVars
<1>types. /\ outputs \in [Callers -> Seq(Seq(OutputBytes))]
          /\ sst_sizes \in [Callers -> Seq(Nat)] /\ sst_count \in [Callers -> Nat]
          /\ ddr_offset \in [Callers -> Nat] /\ xfer \in [Callers -> Transfers]
  BY <1>0 DEF HostType
<1>1. r_status = "done" /\ result[c] = "none" /\ outputs[c] = <<>>
  BY <1>0, <1>pc DEF ReadInv
<1>2. ASSUME pc'[c] = "idle", result'[c] = "error", UNCHANGED outputs PROVE ReadInv(c)'
  <2>1. BuffersInv(c)'
    BY <1>1, <1>2 DEF BuffersInv
  <2> QED BY <1>2, <2>1 DEF ReadInv
<1>dst. Len(dst) \in Nat /\ \A i \in 1..Len(dst) : dst[i] \in OutputFiles /\ dst[i].size \in Nat
  <2>1. Len(dst) \in Nat /\ \A i \in 1..Len(dst) : dst[i] \in OutputFiles
    BY <1>0 DEF CardType
  <2> QED BY <2>1 DEF OutputFiles
<1>3. ASSUME pc'[c] = "sizes", result'[c] = "none", UNCHANGED outputs,
             sst_count'[c] = Len(dst), Len(sst_sizes'[c]) < Len(dst),
             \A i \in 1..Len(sst_sizes'[c]) : sst_sizes'[c][i] = dst[i].size,
             Len(sst_sizes'[c]) \in Nat
      PROVE  ReadInv(c)'
  <2>1. BuffersInv(c)'
    BY <1>1, <1>3 DEF BuffersInv
  <2>2. Len(sst_sizes'[c]) <= Len(dst)
    BY <1>3, <1>dst
  <2> QED BY <1>1, <1>3, <1>same, <2>1, <2>2 DEF ReadInv
<1>4. CASE ReadCount(c)
  <2>1. CASE pc'[c] = "idle"
    <3>1. result'[c] = "error" /\ UNCHANGED outputs
      BY <1>4, <1>pc, <2>1 DEF ReadCount, Fails, Return, Goto, At, readVars
    <3> QED BY <1>2, <2>1, <3>1
  <2>2. CASE pc'[c] /= "idle"
    <3>1. /\ pc'[c] = "sizes" /\ UNCHANGED <<result, outputs>> /\ Len(dst) /= 0
          /\ sst_count'[c] = Len(dst) /\ sst_sizes'[c] = <<>>
      BY <1>4, <1>pc, <1>types, <2>2 DEF ReadCount, Fails, Return, Goto
    <3>2. Len(sst_sizes'[c]) = 0 /\ 0 < Len(dst)
      BY <1>dst, <3>1
    <3> QED BY <1>1, <1>3, <3>1, <3>2
  <2> QED BY <2>1, <2>2
<1>5. CASE ReadSize(c)
  <2>1. CASE pc'[c] = "idle"
    <3>1. result'[c] = "error" /\ UNCHANGED outputs
      BY <1>5, <1>pc, <2>1 DEF ReadSize, Fails, Return, Goto, At, readVars
    <3> QED BY <1>2, <2>1, <3>1
  <2>2. CASE pc'[c] /= "idle"
    <3> DEFINE i == Len(sst_sizes[c]) + 1
               szs == sst_sizes'[c]
    <3>1. /\ SizeReg(i) /= 0 /\ UNCHANGED <<sst_count, result>> /\ pc[c] = "sizes"
          /\ szs = Append(sst_sizes[c], SizeReg(i))
          /\ \/ i < sst_count[c] /\ UNCHANGED <<pc, outputs>>
             \/ /\ ~(i < sst_count[c]) /\ pc'[c] = "read_back" /\ ddr_offset'[c] = 0
                /\ xfer'[c] = Begin(dst_ddr_base, szs[1])
                /\ outputs'[c] = <<<<>>>>
      BY <1>5, <1>pc, <1>types, <2>2 DEF ReadSize, Fails, Return, Goto, At
    <3>2. /\ sst_count[c] = Len(dst) /\ Len(sst_sizes[c]) < Len(dst)
          /\ \A k \in 1..Len(sst_sizes[c]) : sst_sizes[c][k] = dst[k].size
      BY <1>0, <3>1 DEF ReadInv
    <3>3. sst_sizes[c] \in Seq(Nat) /\ Len(sst_sizes[c]) \in Nat
      BY <1>types
    <3>4. i \in 1..Len(dst)
      BY <3>2, <3>3, <1>dst
    <3>5. SizeReg(i) = dst[i].size /\ dst[i].size \in Nat
      BY <1>dst, <3>1, <3>4 DEF SizeReg
    <3>6. Len(szs) = i /\ \A k \in 1..i : szs[k] = IF k = i THEN dst[i].size ELSE sst_sizes[c][k]
      BY <3>1, <3>3, <3>5
    <3>7. \A k \in 1..i : szs[k] = dst[k].size
      <4>1. \A k \in 1..i : k = i \/ k \in 1..Len(sst_sizes[c])
        BY <3>3
      <4> QED BY <3>2, <3>6, <4>1
    <3> HIDE DEF i, szs
    <3>8. CASE i < sst_count[c] /\ UNCHANGED <<pc, outputs>>
      <4>1. /\ pc'[c] = "sizes" /\ result'[c] = "none" /\ sst_count'[c] = Len(dst)
            /\ Len(sst_sizes'[c]) < Len(dst) /\ Len(sst_sizes'[c]) \in Nat
            /\ \A k \in 1..Len(sst_sizes'[c]) : sst_sizes'[c][k] = dst[k].size
        BY <1>1, <3>1, <3>2, <3>4, <3>6, <3>7, <3>8 DEF szs
      <4> QED BY <1>3, <3>8, <4>1
    <3>9. ASSUME ~(i < sst_count[c]), pc'[c] = "read_back", ddr_offset'[c] = 0,
                 xfer'[c] = Begin(dst_ddr_base, szs[1]), outputs'[c] = <<<<>>>>
          PROVE  ReadInv(c)'
      <4>1. i = Len(dst) /\ 1 \in 1..Len(dst)
        BY <1>dst, <3>2, <3>4, <3>9
      <4>2. /\ dst[1].addr = dst_ddr_base /\ dst[1].size >= MagicBytes
            /\ szs[1] = dst[1].size /\ szs[1] \in Nat
        BY <1>0, <1>1, <1>dst, <3>7, <4>1 DEF FilesInv
      <4>3. Len(outputs'[c]) = 1 /\ outputs'[c][1] = <<>> /\ Len(outputs'[c][1]) = 0
        BY <3>9
      <4>4. BuffersInv(c)'
        <5> SUFFICES ASSUME NEW k \in 1..1
                     PROVE  /\ k <= Len(szs) /\ szs[k] >= MagicBytes /\ 0 <= szs[k]
          BY <4>3 DEF BuffersInv, BytesOf, szs
        <5> QED BY <3>6, <4>1, <4>2
      <4>5. /\ xfer'[c].p = 0 /\ xfer'[c].addr = dst_ddr_base /\ xfer'[c].remaining = szs[1]
        BY <3>9 DEF Begin
      <4>6. dst_ddr_base \in Nat
        BY Areas
      <4>7. /\ xfer'[c].p = Len(outputs'[c][1]) /\ xfer'[c].p + xfer'[c].remaining = szs[1]
            /\ xfer'[c].addr = dst[1].addr + xfer'[c].p /\ 0 = dst[1].addr - dst_ddr_base
        BY <4>2, <4>3, <4>5, <4>6
      <4>8. Own(c, outputs[c][1])'
        BY <4>3 DEF Own
      <4>9. /\ Len(szs) = Len(dst) /\ \A k \in 1..Len(szs) : szs[k] = dst[k].size
            /\ sst_count'[c] = Len(dst) /\ result'[c] = "none"
        BY <1>1, <3>1, <3>2, <3>6, <3>7, <4>1
      <4>10. \A k \in 1..1 : k = 1
        OBVIOUS
      <4>11. \A k \in 1..1 - 1 : FALSE
        OBVIOUS
      <4>12. 1 \in 1..Len(dst) /\ Len(szs) <= Len(dst)
        BY <1>dst, <4>1, <4>9
      <4> QED BY <1>1, <1>same, <3>9, <4>3, <4>4, <4>7, <4>8, <4>9, <4>10, <4>11, <4>12
              DEF ReadInv, szs, dst_ddr_base
    <3> QED BY <3>1, <3>8, <3>9
  <2> QED BY <2>1, <2>2
<1> QED BY <1>4, <1>5

\* The output file grows by the bytes of the first output until it is whole.
LEMMA WriteStep ==
    ASSUME IInv, NEW c \in Callers, CreateFile(c) \/ WriteFile(c) \/ SyncFile(c) \/ WriteFileFails(c)
    PROVE  ReadInv(c)'
<1>0. ReadInv(c) /\ HostType
  BY DEF IInv
<1>pc. /\ pc \in [Callers -> Steps] /\ result \in [Callers -> {"none", "OK", "error"}]
       /\ pc[c] \in {"create", "write_file", "fsync"}
  BY <1>0 DEF HostType, CreateFile, WriteFile, SyncFile, WriteFileFails, At
<1>same. UNCHANGED <<calls, api, skipped, sst_count, sst_sizes, outputs, r_status, dst>>
  BY DEF CreateFile, WriteFile, SyncFile, WriteFileFails, callVars, readVars, cardVars
<1>xfer. /\ xfer \in [Callers -> Transfers] /\ xfer[c] \in Transfers
         /\ xfer[c].p \in Nat /\ xfer[c].remaining \in Nat
  BY <1>0, TransferType DEF HostType
<1>file. out_file \in [Callers -> [exists : BOOLEAN, bytes : Seq(OutputBytes)]]
  BY <1>0 DEF HostType
<1>1. /\ sst_count[c] >= 1 /\ AllRead(c) /\ api[c] = "RunOffload" /\ result[c] = "none"
      /\ BuffersInv(c)
  BY <1>0, <1>pc DEF ReadInv
<1>2. /\ sst_count'[c] >= 1 /\ AllRead(c)' /\ api'[c] = "RunOffload" /\ BuffersInv(c)'
  BY <1>1, <1>same DEF AllRead, BuffersInv, BytesOf, Own, Job
<1> DEFINE b == outputs[c][1]
<1>3. b \in Seq(OutputBytes) /\ Len(b) \in Nat
  <2>1. outputs[c] \in Seq(Seq(OutputBytes)) /\ sst_count[c] \in Nat
    BY <1>0 DEF HostType
  <2>2. 1 \in 1..Len(outputs[c])
    BY <1>1, <2>1 DEF AllRead
  <2> QED BY <2>1, <2>2
<1> HIDE DEF b
<1>4. CASE WriteFileFails(c)
  <2>1. pc'[c] = "idle" /\ result'[c] = "error"
    BY <1>4, <1>pc DEF WriteFileFails, Return, Goto
  <2> QED BY <1>2, <2>1 DEF ReadInv
<1>5. CASE CreateFile(c)
  <2>1. /\ pc'[c] = "write_file" /\ result'[c] = "none"
        /\ xfer'[c] = Begin(0, Len(b)) /\ out_file'[c].bytes = <<>>
    BY <1>5, <1>pc, <1>1, <1>xfer, <1>file DEF CreateFile, Goto, b
  <2>2. xfer'[c].p = 0 /\ xfer'[c].remaining = Len(b)
    BY <2>1 DEF Begin
  <2>3. SubSeq(b, 1, 0) = <<>> /\ 0 + Len(b) = Len(b)
    BY <1>3
  <2>4. outputs'[c][1] = b
    BY <1>same DEF b
  <2> QED BY <1>2, <2>1, <2>2, <2>3, <2>4 DEF ReadInv
<1>6. CASE WriteFile(c)
  <2>1. /\ pc[c] = "write_file" /\ xfer[c].p + xfer[c].remaining = Len(b)
        /\ out_file[c].bytes = SubSeq(b, 1, xfer[c].p) /\ UNCHANGED result
    BY <1>0, <1>6 DEF ReadInv, WriteFile, At, b
  <2>2. ASSUME NEW n \in 1..xfer[c].remaining,
               out_file' = [out_file EXCEPT ![c].bytes =
                              @ \o SubSeq(outputs[c][1], xfer[c].p + 1, xfer[c].p + n)],
               xfer' = [xfer EXCEPT ![c] = Advance(@, n)], UNCHANGED pc
        PROVE  ReadInv(c)'
    <3>1. xfer'[c].p = xfer[c].p + n /\ xfer'[c].remaining = xfer[c].remaining - n
      BY <1>xfer, <2>2 DEF Advance
    <3>2. out_file'[c].bytes = SubSeq(b, 1, xfer[c].p) \o SubSeq(b, xfer[c].p + 1, xfer[c].p + n)
      BY <1>file, <2>1, <2>2 DEF b
    <3>3. n \in Nat /\ n >= 1 /\ xfer[c].p + n <= Len(b)
      BY <1>xfer, <1>3, <2>1
    <3>4. out_file'[c].bytes = SubSeq(b, 1, xfer'[c].p)
      <4>1. SubSeq(b, 1, xfer[c].p) \o SubSeq(b, xfer[c].p + 1, xfer[c].p + n)
              = SubSeq(b, 1, xfer[c].p + n)
        BY ONLY <1>xfer, <1>3, <3>3, WrittenContinues
      <4> QED BY ONLY <3>1, <3>2, <4>1
    <3>5. xfer'[c].p + xfer'[c].remaining = Len(b)
      BY <1>xfer, <2>1, <3>1, <3>3
    <3>6. pc'[c] = "write_file" /\ result'[c] = "none" /\ outputs'[c][1] = b
      BY <1>1, <1>same, <2>1, <2>2 DEF b
    <3> QED BY <1>2, <3>4, <3>5, <3>6 DEF ReadInv
  <2>3. ASSUME xfer[c].remaining = 0, Goto(c, "fsync"), UNCHANGED <<out_file, xfer>>
        PROVE  ReadInv(c)'
    <3>1. xfer[c].p = Len(b)
      BY <1>xfer, <1>3, <2>1, <2>3
    <3>2. SubSeq(b, 1, Len(b)) = b
      BY <1>3
    <3>3. /\ out_file'[c].bytes = b /\ outputs'[c][1] = b /\ pc'[c] = "fsync"
          /\ result'[c] = "none"
      BY <1>pc, <1>1, <1>same, <2>1, <2>3, <3>1, <3>2 DEF Goto, b
    <3> QED BY <1>2, <3>3 DEF ReadInv
  <2> QED BY <1>6, <2>2, <2>3 DEF WriteFile
<1>7. CASE SyncFile(c)
  <2>1. pc[c] = "fsync" /\ pc'[c] = "idle" /\ UNCHANGED out_file
    BY <1>7, <1>pc DEF SyncFile, At, Return, Goto
  <2>2. out_file'[c].bytes = outputs'[c][1]
    BY <1>0, <1>same, <2>1 DEF ReadInv
  <2> QED BY <1>2, <2>1, <2>2 DEF ReadInv
<1> QED BY <1>4, <1>5, <1>6, <1>7

\* Every step of the thread keeps ReadInv; until the count is read there is
\* no buffer.
LEMMA ReadStep ==
    ASSUME IInv, NEW c \in Callers, CallerStep(c)
    PROVE  ReadInv(c)'
<1>0. ReadInv(c) /\ HostType /\ CardType
  BY DEF IInv
<1>pc. pc \in [Callers -> Steps] /\ result \in [Callers -> {"none", "OK", "error"}]
  BY <1>0 DEF HostType
<1> DEFINE Early == Steps \ {"idle", "count", "sizes", "read_back", "create", "write_file", "fsync"}
<1>1. ASSUME pc[c] \in Early, UNCHANGED outputs,
             \/ pc'[c] = "idle" /\ result'[c] = "error"
             \/ pc'[c] \in Early /\ UNCHANGED result
             \/ pc'[c] = "count" /\ r_status' = "done" /\ UNCHANGED result
      PROVE  ReadInv(c)'
  <2>1. outputs[c] = <<>> /\ result[c] = "none"
    BY <1>0, <1>1 DEF ReadInv, Steps
  <2>2. BuffersInv(c)' /\ outputs'[c] = <<>>
    BY <1>1, <2>1 DEF BuffersInv
  <2> QED BY <1>1, <2>1, <2>2 DEF ReadInv, Steps
<1>2. CASE Call(c)
  <2>1. \/ pc'[c] = "idle" /\ result'[c] = "error"
        \/ pc'[c] = "open_file" /\ result'[c] = "none"
    BY <1>2, <1>pc DEF Call, Goto, Return
  <2>0. outputs \in [Callers -> Seq(Seq(OutputBytes))]
    BY <1>0 DEF HostType
  <2>3. outputs'[c] = <<>>
    BY <1>2, <2>0 DEF Call
  <2>2. BuffersInv(c)'
    BY <2>3 DEF BuffersInv
  <2> QED BY <2>1, <2>2, <2>3 DEF ReadInv
<1>3. CASE OpenFile(c) \/ ReadFile(c) \/ ReadFileDone(c) \/ ReadFileFails(c)
  <2>1. pc[c] \in Early /\ UNCHANGED outputs
    BY <1>3 DEF OpenFile, ReadFile, ReadFileDone, ReadFileFails, At, Steps, readVars
  <2>2. (pc'[c] = "idle" /\ result'[c] = "error") \/ (pc'[c] \in Early /\ UNCHANGED result)
    BY <1>3, <1>pc DEF OpenFile, ReadFile, ReadFileDone, ReadFileFails, At, Steps, Goto, Return
  <2> QED BY <1>1, <2>1, <2>2
<1>4. CASE Open(c) \/ DmaToDevice(c) \/ DmaToDeviceDone(c)
  <2>1. pc[c] \in Early /\ UNCHANGED outputs
    BY <1>4 DEF Open, DmaToDevice, DmaToDeviceDone, Fails, At, Steps, readVars
  <2>2. (pc'[c] = "idle" /\ result'[c] = "error") \/ (pc'[c] \in Early /\ UNCHANGED result)
    BY <1>4, <1>pc DEF Open, DmaToDevice, DmaToDeviceDone, Fails, At, Steps, Goto, Return
  <2> QED BY <1>1, <2>1, <2>2
<1>5. CASE Clear(c) \/ ClearOff(c) \/ Program(c) \/ Start(c)
  <2>1. pc[c] \in Early /\ UNCHANGED outputs
    BY <1>5 DEF Clear, ClearOff, Program, Start, CtrlStep, At, Steps, readVars
  <2>2. pc'[c] \in Early /\ UNCHANGED result
    BY <1>5, <1>pc DEF Clear, ClearOff, Program, Start, CtrlStep, Steps, Goto
  <2> QED BY <1>1, <2>1, <2>2
<1>6. CASE Poll(c) \/ PollTimeout(c) \/ PollFails(c)
  <2>1. pc[c] \in Early /\ UNCHANGED <<outputs, r_status>>
    BY <1>6 DEF Poll, PollTimeout, PollFails, Fails, At, Steps, readVars, cardVars
  <2>2. \/ pc'[c] = "idle" /\ result'[c] = "error"
        \/ pc'[c] = "count" /\ r_status = "done" /\ UNCHANGED result
    BY <1>6, <1>pc, <1>0 DEF Poll, PollTimeout, PollFails, Fails, At, Goto, Return, CardType
  <2> QED BY <1>1, <2>1, <2>2
<1>7. CASE ReadCount(c) \/ ReadSize(c)
  BY <1>7, SizesStep
<1>8. CASE DmaFromDevice(c) \/ DmaFromDeviceDone(c)
  BY <1>8, ReadBackStep
<1>9. CASE CreateFile(c) \/ WriteFile(c) \/ SyncFile(c) \/ WriteFileFails(c)
  BY <1>9, WriteStep
<1> QED BY <1>2, <1>3, <1>4, <1>5, <1>6, <1>7, <1>8, <1>9 DEF CallerStep, Step

-----------------------------------------------------------------------------
(* Steps of the engine.                                                    *)

\* Two files, one behind the other, have no byte in common.
LEMMA FilesApart ==
    ASSUME NEW w \in Nat, NEW x \in Nat, NEW y \in Nat, NEW s \in Nat, NEW t \in Nat, NEW a \in Nat,
           x + s <= y \/ y + t <= x,
           a \in w + x..w + x + s - 1, a \in w + y..w + y + t - 1
    PROVE  FALSE
OBVIOUS

\* A byte of a file that fits in memory is in memory.
LEMMA ByteInFile ==
    ASSUME NEW x \in Nat, NEW s \in Nat, NEW top \in Nat, x + s <= top, NEW k \in 0..s - 1
    PROVE  x + k \in 0..top - 1 /\ x + k \in x..x + s - 1 /\ (x + k) - x = k
OBVIOUS

\* Memory when the files d have been written, as EngineDone states it.
WrittenMemory(d) ==
    [a \in Addresses |->
       IF \E i \in 1..Len(d) : a \in d[i].addr..d[i].addr + d[i].size - 1
       THEN LET f == d[CHOOSE i \in 1..Len(d) : a \in d[i].addr..d[i].addr + d[i].size - 1]
            IN  OutputByte(f, a - f.addr)
       ELSE ddr[a]]

\* Memory m holds the files d as FilesInv demands, and the sources as before.
HoldsFiles(d, m) ==
    /\ d \in Seq(OutputFiles)
    /\ \A i \in 1..Len(d) :
          /\ d[i].no = i
          /\ d[i].size >= MagicBytes
          /\ d[i].addr >= dst_ddr_base
          /\ d[i].addr + d[i].size <= dst_ddr_base + DstBytes
          /\ d[i].addr = IF i = 1 THEN dst_ddr_base ELSE d[i - 1].addr + Align(d[i - 1].size)
          /\ \A k \in 0..d[i].size - 1 : m[d[i].addr + k] = OutputByte(d[i], k)
    /\ m \in [Addresses -> SourceBytes \cup OutputBytes]
    /\ \A a \in Addresses : a < dst_ddr_base => m[a] = ddr[a]

\* The files of a run lie one behind the other at the offsets the driver
\* computes, and every byte of each is in memory.
LEMMA RunWritesFiles ==
    ASSUME CardType, NEW sz \in OutputSizes, NEW s0 \in Jobs, NEW s1 \in Jobs
    PROVE  HoldsFiles(EngineFiles(sz, s0, s1), WrittenMemory(EngineFiles(sz, s0, s1)))
<1> SUFFICES ASSUME NEW d, d = EngineFiles(sz, s0, s1), NEW m, m = WrittenMemory(d)
             PROVE  HoldsFiles(d, m)
  OBVIOUS
<1> DEFINE b == FileBases(sz)
           jobs == <<s0, s1>> \o [r \in 1..Len(ConfigRegs) |-> cfg[r].job]
           N == Len(sz)
<1>1. sz \in Seq(Nat) /\ N \in Nat /\ \A i \in 1..N : sz[i] \in Nat /\ sz[i] >= MagicBytes
  BY DriverAssumption
<1>2. /\ b \in [1..N -> Nat]
      /\ \A i \in 1..N : b[i] = IF i = 1 THEN 0 ELSE b[i - 1] + Align(sz[i - 1])
      /\ \A i, j \in 1..N : i < j => b[i] + sz[i] <= b[j]
  BY <1>1, LayoutProperties
<1>3. \A i \in 1..N : b[i] + sz[i] <= DstBytes
  BY OutputsFit
<1>4. jobs \in Seq(Jobs)
  <2>1. Len(ConfigRegs) = 3
    BY DEF ConfigRegs
  <2>2. \A r \in 1..3 : cfg[r] \in [job : Jobs, value : Nat]
    BY DEF CardType
  <2>3. \A r \in 1..3 : cfg[r].job \in Jobs
    BY <2>2
  <2>4. [r \in 1..Len(ConfigRegs) |-> cfg[r].job] \in Seq(Jobs)
    BY <2>1, <2>3
  <2>5. <<s0, s1>> \in Seq(Jobs)
    OBVIOUS
  <2> QED BY <2>4, <2>5, ConcatProperties
<1>5. /\ d = [i \in 1..N |-> [addr |-> dst_ddr_base + b[i], size |-> sz[i], no |-> i, of |-> jobs]]
  BY DEF EngineFiles
<1> HIDE DEF b, jobs, N
<1>6. \A i \in 1..N : d[i] = [addr |-> dst_ddr_base + b[i], size |-> sz[i], no |-> i, of |-> jobs]
  BY <1>5
<1>7. dst_ddr_base \in Nat /\ DstBytes \in Nat /\ Addresses = 0..dst_ddr_base + DstBytes - 1
  BY Areas
<1>8. ASSUME NEW i \in 1..N
      PROVE  /\ d[i].addr = dst_ddr_base + b[i] /\ d[i].size = sz[i] /\ d[i].no = i
             /\ d[i].of = jobs
  <2> DEFINE w == dst_ddr_base + b[i]
  <2>1. d[i] = [addr |-> w, size |-> sz[i], no |-> i, of |-> jobs]
    BY <1>6
  <2> HIDE DEF w
  <2>2. d[i].addr = w /\ d[i].size = sz[i] /\ d[i].no = i /\ d[i].of = jobs
    BY <2>1
  <2> QED BY <2>2 DEF w
<1>9. \A i \in 1..N : b[i] \in Nat
  BY <1>2
<1>10. \A i \in 1..N : d[i] \in OutputFiles
  <2> SUFFICES ASSUME NEW i \in 1..N PROVE d[i] \in OutputFiles
    OBVIOUS
  <2> DEFINE w == dst_ddr_base + b[i]
  <2>1. w \in Nat /\ sz[i] \in Nat /\ i \in Nat
    BY <1>1, <1>7, <1>9 DEF N
  <2>2. d[i] = [addr |-> w, size |-> sz[i], no |-> i, of |-> jobs]
    BY <1>6
  <2> HIDE DEF w
  <2> QED BY <1>4, <2>1, <2>2 DEF OutputFiles
<1>11. d \in Seq(OutputFiles) /\ Len(d) = N
  BY <1>1, <1>5, <1>10
<1>12. ASSUME NEW i \in 1..N
       PROVE  /\ d[i].size >= MagicBytes
              /\ d[i].addr >= dst_ddr_base
              /\ d[i].addr + d[i].size <= dst_ddr_base + DstBytes
              /\ d[i].addr = IF i = 1 THEN dst_ddr_base ELSE d[i - 1].addr + Align(d[i - 1].size)
  <2>1. b[i] \in Nat /\ sz[i] \in Nat /\ sz[i] >= MagicBytes /\ b[i] + sz[i] <= DstBytes
    BY <1>1, <1>3, <1>9 DEF b, N
  <2>2. d[i].size >= MagicBytes /\ d[i].addr >= dst_ddr_base
        /\ d[i].addr + d[i].size <= dst_ddr_base + DstBytes
    BY <1>7, <1>8, <2>1
  <2>3. CASE i = 1
    <3>1. b[i] = 0
      BY <1>2, <2>3
    <3>2. d[i].addr = dst_ddr_base + 0
      BY <1>8, <3>1
    <3>3. dst_ddr_base + 0 = dst_ddr_base
      BY <1>7
    <3> QED BY <2>2, <2>3, <3>2, <3>3
  <2>4. CASE i /= 1
    <3>1. i - 1 \in 1..N
      BY <1>1, <2>4
    <3>2. d[i - 1].addr = dst_ddr_base + b[i - 1] /\ d[i - 1].size = sz[i - 1]
      BY <1>8, <3>1
    <3>3. b[i - 1] \in Nat /\ sz[i - 1] \in Nat
      BY <1>1, <1>9, <3>1 DEF N
    <3>4. Align(sz[i - 1]) \in Nat
      BY <3>3, AlignProperties
    <3>5. b[i] = b[i - 1] + Align(sz[i - 1])
      BY <1>2, <2>4
    <3>6. dst_ddr_base + b[i] = (dst_ddr_base + b[i - 1]) + Align(sz[i - 1])
      BY <1>7, <3>3, <3>4, <3>5
    <3> QED BY <1>8, <2>2, <2>4, <3>2, <3>6
  <2> QED BY <2>2, <2>3, <2>4
<1>13. ASSUME NEW i \in 1..N, NEW j \in 1..N, NEW a \in Nat,
              a \in d[i].addr..d[i].addr + d[i].size - 1, a \in d[j].addr..d[j].addr + d[j].size - 1
       PROVE  i = j
  <2> SUFFICES ASSUME i /= j PROVE FALSE
    OBVIOUS
  <2>1. /\ b[i] \in Nat /\ b[j] \in Nat /\ sz[i] \in Nat /\ sz[j] \in Nat
        /\ i \in Nat /\ j \in Nat
    BY <1>1, <1>9 DEF N
  <2>2. i < j => b[i] + sz[i] <= b[j]
    BY <1>2
  <2>3. j < i => b[j] + sz[j] <= b[i]
    BY <1>2
  <2>4. /\ a \in dst_ddr_base + b[i]..dst_ddr_base + b[i] + sz[i] - 1
        /\ a \in dst_ddr_base + b[j]..dst_ddr_base + b[j] + sz[j] - 1
    BY <1>8, <1>13
  <2>5. i < j \/ j < i
    BY <2>1
  <2> QED BY <1>7, <2>1, <2>2, <2>3, <2>4, <2>5, FilesApart
<1> DEFINE In(a, i) == a \in d[i].addr..d[i].addr + d[i].size - 1
<1>14. \A a \in Addresses :
          m[a] = IF \E i \in 1..Len(d) : In(a, i)
                 THEN LET f == d[CHOOSE i \in 1..Len(d) : In(a, i)] IN OutputByte(f, a - f.addr)
                 ELSE ddr[a]
  BY DEF WrittenMemory
<1>15. ASSUME NEW a \in Addresses, NEW i \in 1..N, In(a, i) PROVE m[a] = OutputByte(d[i], a - d[i].addr)
  <2> DEFINE e == CHOOSE k \in 1..Len(d) : In(a, k)
  <2>1. e \in 1..Len(d) /\ In(a, e)
    BY <1>11, <1>15
  <2>2. a \in Nat
    BY <1>7
  <2>3. e = i
    BY <1>11, <1>13, <1>15, <2>1, <2>2
  <2>4. m[a] = OutputByte(d[e], a - d[e].addr)
    BY <1>11, <1>14, <1>15
  <2> QED BY <2>3, <2>4
<1>16. ASSUME NEW a \in Addresses, \A i \in 1..N : ~In(a, i) PROVE m[a] = ddr[a]
  BY <1>11, <1>14, <1>16
<1>17. ASSUME NEW i \in 1..N, NEW k \in 0..d[i].size - 1
       PROVE  m[d[i].addr + k] = OutputByte(d[i], k)
  <2>1. d[i].addr \in Nat /\ d[i].size \in Nat
    BY <1>10 DEF OutputFiles
  <2>2. d[i].addr + d[i].size <= dst_ddr_base + DstBytes
    BY <1>12
  <2> DEFINE x == d[i].addr + k
  <2>3. x \in 0..dst_ddr_base + DstBytes - 1 /\ In(x, i) /\ x - d[i].addr = k
    <3> DEFINE top == dst_ddr_base + DstBytes
               y == d[i].addr
               z == d[i].size
    <3>1. top \in Nat /\ y \in Nat /\ z \in Nat /\ y + z <= top /\ k \in 0..z - 1
      BY <1>7, <2>1, <2>2
    <3> HIDE DEF top, y, z
    <3>2. y + k \in 0..top - 1 /\ y + k \in y..y + z - 1 /\ (y + k) - y = k
      BY <3>1, ByteInFile
    <3> QED BY <1>7, <2>1, <3>2 DEF top, y, z
  <2> HIDE DEF In, x
  <2>4. x \in Addresses
    BY <1>7, <2>3
  <2>5. m[x] = OutputByte(d[i], x - d[i].addr)
    BY <1>15, <2>3, <2>4
  <2>6. m[x] = OutputByte(d[i], k)
    BY <2>3, <2>5
  <2> QED BY <2>6 DEF x
<1> HIDE DEF In
<1>18. ASSUME NEW a \in Addresses PROVE m[a] \in SourceBytes \cup OutputBytes
  <2>1. CASE \E i \in 1..N : In(a, i)
    <3>1. PICK i \in 1..N : In(a, i)
      BY <2>1
    <3>2. m[a] = OutputByte(d[i], a - d[i].addr)
      BY <1>15, <3>1
    <3>3. /\ d[i].addr \in Nat /\ d[i].size \in Nat /\ d[i].no \in Nat /\ d[i].of \in Seq(Jobs)
          /\ a \in Nat /\ a >= d[i].addr
      BY <1>7, <1>10, <3>1 DEF OutputFiles, In
    <3> DEFINE t == a - d[i].addr
               l == d[i].size - t
    <3>4. t \in Nat /\ l \in Int
      BY <3>3
    <3>5. m[a] = [of |-> d[i].of, no |-> d[i].no, at |-> t, left |-> l]
      BY <3>2 DEF OutputByte
    <3> HIDE DEF t, l
    <3> QED BY <3>3, <3>4, <3>5 DEF OutputBytes
  <2>2. CASE ~ \E i \in 1..N : In(a, i)
    <3>1. m[a] = ddr[a]
      BY <1>16, <2>2
    <3> QED BY <3>1 DEF CardType
  <2> QED BY <2>1, <2>2
<1>19. m \in [Addresses -> SourceBytes \cup OutputBytes]
  <2>1. m = [a \in Addresses |-> m[a]]
    BY DEF WrittenMemory
  <2> QED BY <1>18, <2>1
<1>20. ASSUME NEW a \in Addresses, a < dst_ddr_base PROVE m[a] = ddr[a]
  <2>1. \A i \in 1..N : d[i].addr \in Nat /\ d[i].addr >= dst_ddr_base
    BY <1>10, <1>12 DEF OutputFiles
  <2>2. \A i \in 1..N : ~In(a, i)
    BY <1>7, <1>20, <2>1 DEF In
  <2> QED BY <1>16, <2>2
<1> QED BY <1>8, <1>11, <1>12, <1>17, <1>19, <1>20 DEF HoldsFiles

\* What the engine has read is a job, or nothing whole.
LEMMA LoadedIsJob ==
    ASSUME CardType
    PROVE  \A s \in Side : Loaded(s) \in Jobs /\ seen[s] \in Jobs
<1>1. \A s \in Side : src_ddr_base(s) \in Addresses /\ src_ddr_base(s) < dst_ddr_base
  BY Areas
<1>2. \A s \in Side : ddr[src_ddr_base(s)] \in SourceBytes
  BY <1>1 DEF CardType
<1>3. \A s \in Side : Loaded(s) \in Jobs
  BY <1>2 DEF Loaded, SourceBytes, Jobs
<1> QED BY <1>3 DEF CardType

\* Sources and registers all of one job mark the output as that job's.
LEMMA AllOfOneJob ==
    ASSUME NEW j, \A r \in 1..3 : cfg[r].job = j
    PROVE  LET of == <<j, j>> \o [r \in 1..Len(ConfigRegs) |-> cfg[r].job]
           IN  \A k \in DOMAIN of : of[k] = j
<1> DEFINE x == <<j, j>>
           y == [r \in 1..Len(ConfigRegs) |-> cfg[r].job]
           S == {j}
<1>1. Len(ConfigRegs) = 3
  BY DEF ConfigRegs
<1>2. x \in Seq(S) /\ y \in Seq(S)
  BY <1>1
<1> HIDE DEF x, y, S
<1>3. x \o y \in Seq(S)
  BY <1>2, ConcatProperties
<1>4. \A k \in DOMAIN (x \o y) : (x \o y)[k] \in S
  BY <1>3
<1> QED BY <1>4 DEF x, y, S

\* A run that ends well leaves the invariant, whatever the thread is doing:
\* the sources are not touched, and if the thread is polling and its own
\* commands went through, the run was its own.
LEMMA EngineDoneStep ==
    ASSUME IInv, EngineDone
    PROVE  IInv'
<1>0. HostType /\ CardType /\ EngineInv /\ FilesInv
  BY DEF IInv
<1>1. PICK sz \in OutputSizes, s0 \in {seen[0], Loaded(0)}, s1 \in {seen[1], Loaded(1)} :
          dst' = EngineFiles(sz, s0, s1)
  BY DEF EngineDone
<1>2. /\ engine = "run" /\ engine' = "idle" /\ r_status' = "done" /\ ~Rejected
      /\ UNCHANGED <<cfg, r_ctrl, seen>>
      /\ ddr' = WrittenMemory(dst')
  BY DEF EngineDone, WrittenMemory
<1>same. /\ UNCHANGED <<pc, calls, api, src, skipped, side, xfer, data, regs_left>>
         /\ UNCHANGED <<sst_count, sst_sizes, ddr_offset, outputs, result, out_file>>
  BY DEF EngineDone, hostVars, callVars, moveVars, readVars
<1>3. s0 \in Jobs /\ s1 \in Jobs
  BY <1>0, <1>1, LoadedIsJob DEF Side
<1>4. HoldsFiles(dst', ddr')
  BY <1>0, <1>1, <1>2, <1>3, RunWritesFiles
<1>5. HostType'
  BY <1>0, <1>same DEF HostType
<1>6. CardType'
  BY <1>0, <1>2, <1>4 DEF CardType, HoldsFiles, dst_ddr_base
<1>7. EngineInv'
  BY <1>0, <1>2 DEF EngineInv
<1>8. FilesInv'
  BY <1>4 DEF FilesInv, HoldsFiles, dst_ddr_base, OutputByte, Align
<1>9. ASSUME NEW c \in Callers PROVE SourceInv(c)' /\ CommandInv(c)' /\ ReadInv(c)'
  <2>0. SourceInv(c) /\ CommandInv(c) /\ ReadInv(c)
    BY DEF IInv
  <2>1. r_status = "none"
    BY <1>0, <1>2 DEF EngineInv, CardType
  <2>2. pc[c] \notin {"count", "sizes", "read_back"}
    BY <2>0, <2>1 DEF ReadInv
  <2>3. ReadInv(c)'
    <3>1. BuffersInv(c)'
      BY ONLY <2>0, <1>same DEF ReadInv, BuffersInv, BytesOf
    <3>2. AllRead(c) => AllRead(c)'
      BY ONLY <1>same DEF AllRead, Own, Job
    <3> QED BY <2>0, <2>2, <1>same, <3>1, <3>2 DEF ReadInv
  <2>4. SourceInv(c)'
    <3>1. \A s \in Side : Len(data[c][s]) \in Nat
      BY <1>0 DEF HostType
    <3>2. ASSUME NEW s \in Side, NEW n \in Nat, n <= MaxSrcBytes, LoadedTo(c, s, n), NEW i \in 0..n - 1
          PROVE  ddr'[src_ddr_base(s) + i] = SourceByte(Job(c), s, i)
      <4>1. src_ddr_base(s) + i \in Addresses /\ src_ddr_base(s) + i < dst_ddr_base
        BY <3>2, Areas
      <4>2. ddr'[src_ddr_base(s) + i] = ddr[src_ddr_base(s) + i]
        BY <1>4, <4>1 DEF HoldsFiles
      <4> QED BY <3>2, <4>2 DEF LoadedTo
    <3>3. pc[c] \in CoreSteps => \A s \in Side : Len(data[c][s]) <= MaxSrcBytes
      BY <2>0 DEF SourceInv, SizesAsStated, CoreSteps
    <3>4. pc[c] \in CoreSteps \ {"open", "dma"} => WholeSources(c)'
      <4> SUFFICES ASSUME pc[c] \in CoreSteps \ {"open", "dma"}, NEW s \in Side,
                          NEW i \in 0..Len(data[c][s]) - 1
                   PROVE  ddr'[src_ddr_base(s) + i] = SourceByte(Job(c), s, i)
        BY <1>same DEF WholeSources, LoadedTo, Job, src_ddr_base
      <4>1. LoadedTo(c, s, Len(data[c][s]))
        BY <2>0 DEF SourceInv, WholeSources
      <4> QED BY <3>1, <3>2, <3>3, <4>1
    <3>5. pc[c] = "dma" => /\ LoadedTo(c, side[c], xfer[c].p)'
                           /\ side[c] = 1 => LoadedTo(c, 0, Len(data[c][0]))'
      <4> SUFFICES ASSUME pc[c] = "dma"
                   PROVE  /\ LoadedTo(c, side[c], xfer[c].p)'
                          /\ side[c] = 1 => LoadedTo(c, 0, Len(data[c][0]))'
        OBVIOUS
      <4>1. side[c] \in Side /\ xfer[c] \in Transfers
        BY <1>0 DEF HostType
      <4>2. xfer[c].p \in Nat /\ xfer[c].remaining \in Nat
        BY <4>1, TransferType
      <4>3. /\ LoadedTo(c, side[c], xfer[c].p) /\ (side[c] = 1 => LoadedTo(c, 0, Len(data[c][0])))
            /\ xfer[c].p + xfer[c].remaining = Len(data[c][side[c]])
        BY <2>0 DEF SourceInv
      <4>4. xfer[c].p <= MaxSrcBytes /\ Len(data[c][0]) <= MaxSrcBytes
        <5>1. Len(data[c][side[c]]) <= MaxSrcBytes /\ Len(data[c][0]) <= MaxSrcBytes
          BY <3>3, <4>1 DEF CoreSteps, Side
        <5>2. Len(data[c][side[c]]) \in Nat
          BY <3>1, <4>1
        <5>3. MaxSrcBytes \in Nat
          BY Areas
        <5>4. \A a, d, l, m \in Nat : a + d = l /\ l <= m => a <= m
          OBVIOUS
        <5>5. xfer[c].p <= MaxSrcBytes
          BY ONLY <4>2, <4>3, <5>1, <5>2, <5>3, <5>4
        <5> QED BY ONLY <5>1, <5>5
      <4>5. \A i \in 0..xfer[c].p - 1 : ddr'[src_ddr_base(side[c]) + i] = SourceByte(Job(c), side[c], i)
        BY <3>2, <4>1, <4>2, <4>3, <4>4
      <4>6. side[c] = 1 => \A i \in 0..Len(data[c][0]) - 1 :
                              ddr'[src_ddr_base(0) + i] = SourceByte(Job(c), 0, i)
        <5>1. 0 \in Side /\ Len(data[c][0]) \in Nat
          BY <3>1 DEF Side
        <5> QED BY <3>2, <4>3, <4>4, <5>1
      <4> QED BY <1>same, <4>5, <4>6 DEF LoadedTo, Job, src_ddr_base
    <3> QED BY <1>same, <2>0, <3>4, <3>5 DEF SourceInv, SizesAsStated, Job, src_ddr_base
  <2>5. CommandInv(c)'
    <3>1. ~skipped[c] => pc[c] \notin {"clear_off", "program", "start"}
      BY <1>2, <2>0 DEF CommandInv
    <3>2. ASSUME ~skipped[c], pc[c] = "poll"
          PROVE  (\A r \in 1..3 : OwnReg(c, r)') /\ OwnFiles(c)'
      <4>1. \A r \in 1..3 : OwnReg(c, r)
        BY <2>0, <3>2 DEF CommandInv
      <4>2. \A r \in 1..3 : OwnReg(c, r)'
        BY <1>2, <1>same, <4>1 DEF OwnReg, Job, RegValue
      <4>3. WholeSources(c)
        BY <2>0, <3>2 DEF SourceInv, CoreSteps
      <4>4. \A s \in Side : Loaded(s) = Job(c) /\ seen[s] = Job(c)
        BY <1>2, <2>0, <3>2, <4>1, <4>3, EngineSees DEF CommandInv
      <4>5. s0 = Job(c) /\ s1 = Job(c)
        BY <1>1, <4>4 DEF Side
      <4>6. \A r \in 1..3 : cfg[r].job = Job(c)
        BY <4>1 DEF OwnReg
      <4> DEFINE of == <<s0, s1>> \o [r \in 1..Len(ConfigRegs) |-> cfg[r].job]
      <4>7. \A k \in DOMAIN of : of[k] = Job(c)
        BY <4>5, <4>6, AllOfOneJob
      <4>8. \A i \in 1..Len(dst') : dst'[i].of = of
        <5>1. sz \in Seq(Nat) /\ Len(sz) \in Nat
          BY DriverAssumption
        <5> HIDE DEF of
        <5>2. dst' = [i \in 1..Len(sz) |-> [addr |-> dst_ddr_base + FileBases(sz)[i], size |-> sz[i],
                                            no |-> i, of |-> of]]
          BY <1>1 DEF EngineFiles, of
        <5>3. Len(dst') = Len(sz)
          BY <5>1, <5>2
        <5> QED BY <5>2, <5>3
      <4> HIDE DEF of
      <4>9. \A i \in 1..Len(dst') : \A k \in DOMAIN dst'[i].of : dst'[i].of[k] = Job(c)
        BY <4>7, <4>8
      <4> QED BY <1>same, <4>2, <4>9 DEF OwnFiles, Job
    <3> QED BY <1>2, <1>same, <2>0, <2>2, <3>1, <3>2 DEF CommandInv
  <2> QED BY <2>3, <2>4, <2>5
<1> QED BY <1>5, <1>6, <1>7, <1>8, <1>9 DEF IInv

\* A run that fails leaves its status and nothing else.
LEMMA EngineErrorStep ==
    ASSUME IInv, EngineError
    PROVE  IInv'
<1>0. HostType /\ CardType /\ EngineInv /\ FilesInv
  BY DEF IInv
<1>1. /\ engine = "run" /\ engine' = "idle" /\ r_status' = "error"
      /\ UNCHANGED <<ddr, cfg, r_ctrl, seen, dst>>
  BY DEF EngineError
<1>same. /\ UNCHANGED <<pc, calls, api, src, skipped, side, xfer, data, regs_left>>
         /\ UNCHANGED <<sst_count, sst_sizes, ddr_offset, outputs, result, out_file>>
  BY DEF EngineError, hostVars, callVars, moveVars, readVars
<1>2. HostType'
  BY <1>0, <1>same DEF HostType
<1>3. CardType' /\ EngineInv' /\ FilesInv'
  BY <1>0, <1>1 DEF CardType, EngineInv, FilesInv, dst_ddr_base
<1>4. ASSUME NEW c \in Callers PROVE SourceInv(c)' /\ CommandInv(c)' /\ ReadInv(c)'
  <2>0. SourceInv(c) /\ CommandInv(c) /\ ReadInv(c)
    BY DEF IInv
  <2>1. r_status = "none"
    BY <1>0, <1>1 DEF EngineInv, CardType
  <2>2. pc[c] \notin {"count", "sizes", "read_back"}
    BY <2>0, <2>1 DEF ReadInv
  <2>3. ReadInv(c)'
    <3>1. BuffersInv(c)'
      BY <1>same, <2>0 DEF ReadInv, BuffersInv, BytesOf
    <3>2. AllRead(c) => AllRead(c)'
      BY <1>same DEF AllRead, Own, Job
    <3> QED BY <1>same, <2>0, <2>2, <3>1, <3>2 DEF ReadInv
  <2>4. SourceInv(c)'
    BY <1>1, <1>same, <2>0 DEF SourceInv, SizesAsStated, Job, src_ddr_base, LoadedTo, WholeSources
  <2>5. CommandInv(c)'
    <3>1. ~skipped[c] => pc[c] \notin {"clear_off", "program", "start"}
      BY <1>1, <2>0 DEF CommandInv
    <3>2. \A r \in 1..3 : OwnReg(c, r)' <=> OwnReg(c, r)
      BY <1>1, <1>same DEF OwnReg, Job, RegValue
    <3> QED BY <1>1, <1>same, <2>0, <2>2, <3>1, <3>2 DEF CommandInv
  <2> QED BY <2>3, <2>4, <2>5
<1> QED BY <1>2, <1>3, <1>4 DEF IInv

-----------------------------------------------------------------------------
(* The theorems for one thread.                                            *)

\* The invariant holds at first.
LEMMA InitIInv ==
    ASSUME Init
    PROVE  IInv
<1>1. HostType
  <2>1. /\ pc \in [Callers -> Steps] /\ calls \in [Callers -> 0..MaxCalls]
        /\ api \in [Callers -> {"RunOffload", "RunOffloadSplit"}]
        /\ result \in [Callers -> {"none", "OK", "error"}]
        /\ skipped \in [Callers -> BOOLEAN] /\ side \in [Callers -> Side]
    BY DriverAssumption DEF Init, Steps, Side
  <2>2. /\ src \in [Callers -> [Side -> [size : Nat, stated : Nat]]]
        /\ xfer \in [Callers -> Transfers]
        /\ data \in [Callers -> [Side -> Seq(SourceBytes)]]
    BY DEF Init, Begin, Transfers
  <2>3. /\ regs_left \in [Callers -> {<<>>, <<3>>, <<2, 3>>, <<1, 2, 3>>}]
        /\ sst_count \in [Callers -> Nat] /\ ddr_offset \in [Callers -> Nat]
    BY DEF Init
  <2>4. /\ sst_sizes \in [Callers -> Seq(Nat)]
        /\ \A c \in Callers : Len(sst_sizes[c]) <= MAX_SSTABLES
    BY DriverAssumption DEF Init
  <2>5. /\ outputs \in [Callers -> Seq(Seq(OutputBytes))]
        /\ out_file \in [Callers -> [exists : BOOLEAN, bytes : Seq(OutputBytes)]]
    BY DEF Init, NoFile
  <2> QED BY <2>1, <2>2, <2>3, <2>4, <2>5 DEF HostType
<1>2. CardType
  <2>1. SourceByte(NoJob, 0, 0) \in SourceBytes
    BY DEF SourceByte, SourceBytes, Jobs, Side
  <2>2. ddr \in [Addresses -> SourceBytes] /\ \A a \in Addresses : ddr[a] \in SourceBytes
    BY <2>1 DEF Init
  <2>3. cfg \in [1..3 -> [job : Jobs, value : Nat]]
    BY DEF Init, ConfigRegs, Jobs
  <2>4. seen \in [Side -> Jobs] /\ dst \in Seq(OutputFiles)
    BY DEF Init, Jobs
  <2>5. r_ctrl = 0 /\ r_status = "none" /\ engine = "idle"
    BY DEF Init
  <2> QED BY <2>2, <2>3, <2>4, <2>5 DEF CardType
<1>3. EngineInv /\ FilesInv
  BY DEF Init, EngineInv, FilesInv
<1>4. ASSUME NEW c \in Callers PROVE SourceInv(c) /\ CommandInv(c) /\ ReadInv(c)
  <2>1. pc[c] = "idle" /\ outputs[c] = <<>> /\ result[c] = "none"
    BY DEF Init
  <2>2. SourceInv(c) /\ CommandInv(c)
    BY <2>1 DEF SourceInv, CommandInv, CoreSteps
  <2>3. BuffersInv(c)
    BY <2>1 DEF BuffersInv
  <2> QED BY <2>1, <2>2, <2>3 DEF ReadInv
<1> QED BY <1>1, <1>2, <1>3, <1>4 DEF IInv

\* Every step keeps the invariant when one thread calls the driver.
LEMMA NextIInv ==
    ASSUME OneCaller, IInv, [Next]_vars
    PROVE  IInv'
<1>1. ASSUME NEW c \in Callers, CallerStep(c) PROVE IInv'
  <2>1. HostType'
    BY <1>1, HostTypeStep
  <2>2. CardType' /\ EngineInv' /\ FilesInv'
    BY <1>1, CardStep
  <2>3. SourceInv(c)' /\ CommandInv(c)' /\ ReadInv(c)'
    BY <1>1, SourceStep, CommandStep, ReadStep
  <2>4. \A d \in Callers : d = c
    BY DEF OneCaller
  <2> QED BY <2>1, <2>2, <2>3, <2>4 DEF IInv
<1>2. CASE UNCHANGED vars
  <2>1. /\ UNCHANGED <<pc, calls, api, src, skipped, side, xfer, data, regs_left>>
        /\ UNCHANGED <<sst_count, sst_sizes, ddr_offset, outputs, result, out_file>>
        /\ UNCHANGED <<ddr, cfg, r_ctrl, r_status, engine, seen, dst>>
    BY <1>2 DEF vars, hostVars, cardVars, callVars, moveVars, readVars
  <2>2. HostType' /\ CardType' /\ EngineInv' /\ FilesInv'
    BY <2>1 DEF IInv, HostType, CardType, EngineInv, FilesInv, OutputByte, dst_ddr_base, Align
  <2>3. ASSUME NEW c \in Callers PROVE SourceInv(c)' /\ CommandInv(c)' /\ ReadInv(c)'
    <3>0. SourceInv(c) /\ CommandInv(c) /\ ReadInv(c)
      BY DEF IInv
    <3>1. SourceInv(c)'
      BY <2>1, <3>0 DEF SourceInv, SizesAsStated, WholeSources, LoadedTo, Job, src_ddr_base
    <3>2. CommandInv(c)'
      <4>1. \A r \in 1..3 : OwnReg(c, r)' <=> OwnReg(c, r)
        BY <2>1 DEF OwnReg, Job, RegValue
      <4>2. (OwnFiles(c)' <=> OwnFiles(c)) /\ (Rejected' <=> Rejected) /\ Job(c)' = Job(c)
        BY <2>1 DEF OwnFiles, Job, Rejected
      <4> QED BY <2>1, <3>0, <4>1, <4>2 DEF CommandInv
    <3>3. ReadInv(c)'
      <4>1. BuffersInv(c)' <=> BuffersInv(c)
        BY <2>1 DEF BuffersInv, BytesOf
      <4>2. AllRead(c)' <=> AllRead(c)
        BY <2>1 DEF AllRead, Own, Job
      <4>3. \A i \in 1..Len(outputs[c]) : Own(c, outputs[c][i])' <=> Own(c, outputs[c][i])
        BY <2>1 DEF Own, Job
      <4> QED BY <2>1, <3>0, <4>1, <4>2, <4>3 DEF ReadInv, dst_ddr_base
    <3> QED BY <3>1, <3>2, <3>3
  <2> QED BY <2>2, <2>3 DEF IInv
<1>3. CASE AllReturned
  BY <1>2, <1>3 DEF AllReturned
<1>4. CASE EngineDone \/ EngineError
  BY <1>4, EngineDoneStep, EngineErrorStep
<1> QED BY <1>1, <1>2, <1>3, <1>4 DEF Next, CallerStep

\* A whole buffer ends with the magic, and the scan finds it.
LEMMA ReadBackFromInv ==
    ASSUME IInv
    PROVE  ReadBackExact
<1> SUFFICES ASSUME NEW c \in Callers, NEW i \in 1..Len(outputs[c])
             PROVE  LET buf == outputs[c][i]
                    IN  /\ \A k \in 1..Len(buf) : buf[k].no = i /\ buf[k].at = k - 1
                        /\ Len(buf) = sst_sizes[c][i] => FindSStableEnd(buf) = Len(buf)
  BY DEF ReadBackExact
<1> DEFINE buf == outputs[c][i]
           z == sst_sizes[c][i]
<1>1. z >= MagicBytes /\ BytesOf(i, z, buf)
  BY DEF IInv, ReadInv, BuffersInv
<1>2. Len(buf) \in Nat /\ MagicBytes \in Nat \ {0}
  BY DriverAssumption DEF IInv, HostType
<1> HIDE DEF buf, z
<1>3. \A k \in 1..Len(buf) : buf[k].no = i /\ buf[k].at = k - 1
  BY <1>1 DEF BytesOf
<1>4. ASSUME Len(buf) = z PROVE FindSStableEnd(buf) = Len(buf)
  <2>1. ASSUME NEW k \in 1..MagicBytes
        PROVE  buf[Len(buf) - MagicBytes + k].left = MagicBytes - k + 1
    <3> DEFINE t == Len(buf) - MagicBytes + k
    <3>1. t \in 1..Len(buf) /\ z - t + 1 = MagicBytes - k + 1
      BY <1>1, <1>2, <1>4
    <3> HIDE DEF t
    <3>2. buf[t].left = z - t + 1
      BY <1>1, <3>1 DEF BytesOf
    <3> QED BY <3>1, <3>2 DEF t
  <2>2. MagicAt(buf, Len(buf))
    BY <2>1 DEF MagicAt
  <2> QED BY <1>1, <1>2, <1>4, <2>2, ScanFindsEnd
<1> QED BY <1>3, <1>4 DEF buf, z

\* A call that ended well holds, and has written, its own whole outputs.
LEMMA OwnOutputFromInv ==
    ASSUME IInv
    PROVE  OkIsOwnOutput
<1> SUFFICES ASSUME NEW c \in Callers, result[c] = "OK", ~skipped[c]
             PROVE  /\ \A i \in 1..sst_count[c] : MadeFor(Job(c), i, outputs[c][i])
                    /\ api[c] = "RunOffload" => MadeFor(Job(c), 1, out_file[c].bytes)
  BY DEF OkIsOwnOutput
<1>1. /\ sst_count[c] >= 1 /\ Len(outputs[c]) = sst_count[c] /\ sst_count[c] \in Nat
      /\ \A i \in 1..sst_count[c] : Len(outputs[c][i]) = sst_sizes[c][i] /\ Own(c, outputs[c][i])
      /\ api[c] = "RunOffload" => out_file[c].bytes = outputs[c][1]
  <2>1. ReadInv(c) /\ HostType
    BY DEF IInv
  <2>2. AllRead(c) /\ sst_count[c] >= 1 /\ (api[c] = "RunOffload" => out_file[c].bytes = outputs[c][1])
    BY <2>1 DEF ReadInv
  <2>3. sst_count[c] \in Nat
    BY <2>1 DEF HostType
  <2> QED BY <2>2, <2>3 DEF AllRead
<1>2. ASSUME NEW i \in 1..sst_count[c] PROVE MadeFor(Job(c), i, outputs[c][i])
  <2> DEFINE buf == outputs[c][i]
             z == sst_sizes[c][i]
  <2>1. z >= MagicBytes /\ BytesOf(i, z, buf) /\ Len(buf) = z /\ Own(c, buf)
    BY <1>1 DEF IInv, ReadInv, BuffersInv
  <2>2. Len(buf) \in Nat /\ MagicBytes \in Nat \ {0}
    BY <1>1, DriverAssumption DEF IInv, HostType
  <2> HIDE DEF buf, z
  <2>3. Len(buf) > 0
    BY <2>1, <2>2
  <2> QED BY <2>1, <2>3 DEF MadeFor, BytesOf, Own, buf
<1> QED BY <1>1, <1>2

\* At the start command both source areas hold the call's SSTables.
LEMMA SourcesFromInv ==
    ASSUME IInv
    PROVE  SourcesLoaded
<1> SUFFICES ASSUME NEW c \in Callers, pc[c] = "start", NEW s \in Side,
                    NEW i \in 0..src[c][s].stated - 1
             PROVE  ddr[src_ddr_base(s) + i] = SourceByte(Job(c), s, i)
  BY DEF SourcesLoaded
<1>1. WholeSources(c) /\ SizesAsStated(c)
  BY DEF IInv, SourceInv, CoreSteps
<1> QED BY <1>1 DEF WholeSources, SizesAsStated, LoadedTo

LEMMA TypeFromInv ==
    ASSUME IInv
    PROVE  TypeOK
<1>1. \A c \in Callers : xfer[c] \in Transfers /\ Len(sst_sizes[c]) <= MAX_SSTABLES
  BY DEF IInv, HostType
<1>2. \A x \in Transfers : x.remaining >= 0
  BY DEF Transfers
<1> QED BY <1>1, <1>2 DEF IInv, HostType, CardType, TypeOK

\* One thread at a time: the invariant holds in every reachable state.
LEMMA Invariance ==
    ASSUME OneCaller
    PROVE  Spec => []IInv
<1>1. Init => IInv
  BY InitIInv
<1>2. IInv /\ [Next]_vars => IInv'
  BY NextIInv
<1> QED BY <1>1, <1>2, PTL DEF Spec

\* Types and bounds: the transfer loops of XdmaAccess never run below zero
\* bytes left, and no more sizes are read than the engine's array has.
THEOREM TypeCorrect ==
    ASSUME OneCaller
    PROVE  Spec => []TypeOK
<1>1. IInv => TypeOK
  BY TypeFromInv
<1> QED BY <1>1, Invariance, PTL

\* Whatever the sizes, the chunks and the partial transfers, both source
\* areas hold the whole SSTables of the call when it starts the engine, also
\* when an earlier run is still going on.
THEOREM SourcesCorrect ==
    ASSUME OneCaller
    PROVE  Spec => []SourcesLoaded
<1>1. IInv => SourcesLoaded
  BY SourcesFromInv
<1> QED BY <1>1, Invariance, PTL

\* The driver's sum of aligned sizes finds every file where the engine has
\* put it, and FindSStableEnd finds the end of every whole one.
THEOREM ReadBackCorrect ==
    ASSUME OneCaller
    PROVE  Spec => []ReadBackExact
<1>1. IInv => ReadBackExact
  BY ReadBackFromInv
<1> QED BY <1>1, Invariance, PTL

\* A call that returns OK, none of its register writes lost, gives back
\* output SSTables made from its own sources and configuration, byte for byte,
\* after any sequence of failed, timed-out and abandoned calls.
THEOREM OwnOutputCorrect ==
    ASSUME OneCaller
    PROVE  Spec => []OkIsOwnOutput
<1>1. IInv => OkIsOwnOutput
  BY OwnOutputFromInv
<1> QED BY <1>1, Invariance, PTL
=============================================================================
