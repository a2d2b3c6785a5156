------------------------------ MODULE Fixtures ------------------------------
(***************************************************************************)
(* The three generators of simulation and board fixtures: gen_real_sstable *)
(* .cc, gen_real_sstable_scenarios.cc and gen_real_sstable_gb.cc.  Each    *)
(* builds two SSTables with LevelDB's TableBuilder and writes, beside      *)
(* them, what the engine is expected to count when it merges them.  A step *)
(* is a call of the file system or one logical block handed to the         *)
(* builder.  The programs may be run again in the same directory.          *)
(*                                                                         *)
(* Data abstraction.  A user key is the number snprintf puts behind the    *)
(* prefix, so keys compare as numbers while they fit the digits; a value   *)
(* is its length.  File sizes are left out: the engine is told them.       *)
(***************************************************************************)
EXTENDS Integers, Sequences, SequencesExt

CONSTANTS
    Targets,        \* fixtures and "all": what the programs are asked for
    GbArgs,         \* command lines of gen_real_sstable_gb
    MaxRuns,        \* bound on program runs
    MaxFaults,      \* bound on failing calls
    Limits          \* parameters of cmpct_top: bytes of a source block, of an
                    \* output block and of a value, records of a pair

Sides == {0, 1}
ScenarioNames == <<"interleave", "heavy_dup_real", "long_value", "asym_real", "many_records">>
Names == {"real", "gb"} \cup {ScenarioNames[i] : i \in 1..Len(ScenarioNames)}

ASSUME FixtureAssumption ==
    /\ GbArgs \subseteq [n_blocks : Nat, records_per_block : Nat, value_size : Nat, block_size : Nat]
    /\ MaxRuns \in Nat /\ MaxFaults \in Nat
    /\ Limits \in [block : Nat, output : Nat, value : Nat, records : Nat]

VARIABLES
    runs, faults,
    todo,           \* fixtures the program has still to make; the first is in hand
    args,           \* command line, of gen_real_sstable_gb
    pc, side,
    left,           \* logical blocks not yet handed to the builder
    builder,        \* TableBuilder: blocks written, block being filled, status
    src_size,       \* what WriteSSTable returned for either side, as success
    disk,           \* .sst files: the run that made them, their data blocks
    memh,           \* .memh files: the run that made them
    info,           \* info files
    failed,         \* scenarios reported as failed by this run
    unnoticed,      \* scenarios in which this run passed over a failed call
    exit

fileVars == <<disk, memh, info>>
progVars == <<runs, todo, args>>
vars == <<progVars, faults, pc, side, left, builder, src_size, fileVars, failed, unnoticed, exit>>

-----------------------------------------------------------------------------
(* The records.                                                            *)

\* KVRecord, with MakeInternalKey's sequence number.
KVRecord(k, s, v) == [key |-> k, seq |-> s, value |-> v]
Blocks(n, m, R(_, _)) == [b \in 1..n |-> [r \in 1..m |-> R(b - 1, r - 1)]]
Records(t) == FoldLeft(LAMBDA n, blk : n + Len(blk), 0, t)

Scenario(src0, src1, size, prefix, digits, dups) ==
    [src |-> [s \in Sides |-> IF s = 0 THEN src0 ELSE src1], block_size |-> size,
     prefix |-> prefix, digits |-> digits,
     expected_merged |-> Records(src0) + Records(src1) - dups, expected_dropped |-> dups]

MakeSrc0 == Blocks(12, 4, LAMBDA b, r : KVRecord(b * 4 + r, 1000 - (b * 4 + r), 17))
MakeSrc1 == Blocks(2, 4, LAMBDA b, r : KVRecord(b * 4 + r, 500 - (b * 4 + r), 17))
            \o Blocks(10, 4, LAMBDA b, r : KVRecord(1000 + b * 4 + r, 500 - (b * 4 + r), 17))
MakeReal == Scenario(MakeSrc0, MakeSrc1, 256, 4, 4, 8)

MakeInterleave ==
    Scenario(Blocks(6, 4, LAMBDA b, r : KVRecord(b * 8 + r * 2 + 2, 1000 - (b * 8 + r * 2 + 2), 9)),
             Blocks(6, 4, LAMBDA b, r : KVRecord(b * 8 + r * 2 + 1, 1000 - (b * 8 + r * 2 + 1), 9)),
             256, 2, 4, 0)

\* Mutant: the old versions stand one block further on.
MakeHeavyDupShifted ==
    LET dup == Blocks(4, 4, LAMBDA b, r : KVRecord(b * 4 + r + 4, 1000 - (b * 4 + r), 13))
    IN  Scenario(Blocks(6, 4, LAMBDA b, r : KVRecord(b * 4 + r, 2000 - (b * 4 + r), 9)),
                 dup \o Blocks(2, 4, LAMBDA b, r : KVRecord(5000 + b * 4 + r, 800 - (b * 4 + r), 14)),
                 256, 2, 4, Records(dup))

MakeHeavyDupReal ==
    LET dup == Blocks(4, 4, LAMBDA b, r : KVRecord(b * 4 + r, 1000 - (b * 4 + r), 13))
    IN  Scenario(Blocks(6, 4, LAMBDA b, r : KVRecord(b * 4 + r, 2000 - (b * 4 + r), 9)),
                 dup \o Blocks(2, 4, LAMBDA b, r : KVRecord(5000 + b * 4 + r, 800 - (b * 4 + r), 14)),
                 256, 2, 4, Records(dup))

\* Mutant: values of 900 bytes, as the file's heading has them.
MakeLongValue900 ==
    LET R(o, b, r) == KVRecord(b * 6 + r * 2 + o, 900 - (b * 6 + r * 2 + o), 900)
    IN  Scenario(Blocks(4, 3, LAMBDA b, r : R(0, b, r)), Blocks(4, 3, LAMBDA b, r : R(1, b, r)),
                 4096, 3, 4, 0)

MakeLongValue ==
    LET R(o, b, r) == KVRecord(b * 6 + r * 2 + o, 900 - (b * 6 + r * 2 + o),
                               350 + ((b * 6 + r * 2) % 5) * 20)
    IN  Scenario(Blocks(4, 3, LAMBDA b, r : R(0, b, r)), Blocks(4, 3, LAMBDA b, r : R(1, b, r)),
                 2048, 3, 4, 0)

MakeAsymReal ==
    Scenario(Blocks(3, 4, LAMBDA b, r : KVRecord(b * 100 + r, 500 - (b * 4 + r), 10)),
             Blocks(8, 4, LAMBDA b, r : KVRecord(b * 100 + r + 50, 400 - (b * 4 + r), 10)),
             256, 3, 4, 0)

MakeManyRecords ==
    Scenario(Blocks(2, 16, LAMBDA b, r : KVRecord(b * 32 + r * 2, 700 - (b * 32 + r * 2), 12)),
             Blocks(2, 16, LAMBDA b, r : KVRecord(b * 32 + r * 2 + 1, 700 - (b * 32 + r * 2 + 1), 12)),
             2048, 3, 4, 0)

\* "b_0000000" and the keys after it sort behind all the "a_" keys.
MakeGb(a) ==
    LET Src(o) == Blocks(a.n_blocks, a.records_per_block,
                         LAMBDA b, r : KVRecord(o + b * a.records_per_block + r,
                                                100000 - (b * a.records_per_block + r), a.value_size))
    IN  Scenario(Src(0), Src(10000000), a.block_size, 2, 7, 0)

FixtureOf(name, a) ==
    CASE name = "real" -> MakeReal
      [] name = "interleave" -> MakeInterleave
      [] name = "heavy_dup_real" -> MakeHeavyDupReal
      [] name = "long_value" -> MakeLongValue
      [] name = "asym_real" -> MakeAsymReal
      [] name = "many_records" -> MakeManyRecords
      [] name = "gb" -> MakeGb(a)

-----------------------------------------------------------------------------
(* TableBuilder (LevelDB), with prefix compression and restart points.     *)

RestartInterval == 16
VarintBytes(n) == IF n < 128 THEN 1 ELSE IF n < 16384 THEN 2 ELSE 3
KeyBytes(f) == f.prefix + f.digits + 8

\* Leading characters the keys k and m of one table have in common.
SharedBytes(f, k, m) ==
    f.prefix + Cardinality({d \in 1..f.digits : k \div 10^(f.digits - d) = m \div 10^(f.digits - d)})

EntryBytes(f, blk, i) ==
    LET shared == IF (i - 1) % RestartInterval = 0 THEN 0
                  ELSE SharedBytes(f, blk[i - 1].key, blk[i].key)
    IN  2 + VarintBytes(blk[i].value) + KeyBytes(f) - shared + blk[i].value

BlockBytes(f, blk) ==
    FoldLeftDomain(LAMBDA n, i : n + EntryBytes(f, blk, i), 0, blk)
      + 4 * ((Len(blk) - 1) \div RestartInterval + 1) + 4

Flush(b) == IF b.open = <<>> THEN b
            ELSE [b EXCEPT !.written = Append(@, b.open), !.open = <<>>]

Add(f, b, r) ==
    LET open == Append(b.open, r)
    IN  IF BlockBytes(f, open) >= f.block_size THEN Flush([b EXCEPT !.open = open])
        ELSE [b EXCEPT !.open = open]

\* The body of WriteSSTable's loop: Add the records of a block, then Flush.
AddBlock(f, b, blk) == Flush(FoldLeft(LAMBDA x, r : Add(f, x, r), b, blk))

EmptyTable == [written |-> <<>>, open |-> <<>>, ok |-> TRUE]

-----------------------------------------------------------------------------
(* The programs.                                                           *)

NoFile == [run |-> 0, blocks |-> <<>>]
NoInfo == [run |-> 0]

Init ==
    /\ runs = 0 /\ faults = 0 /\ todo = <<>> /\ args \in GbArgs
    /\ pc = "exited" /\ side = 0 /\ left = <<>> /\ builder = EmptyTable
    /\ src_size = [s \in Sides |-> FALSE]
    /\ disk = [n \in Names |-> [s \in Sides |-> NoFile]]
    /\ memh = [n \in Names |-> [s \in Sides |-> 0]]
    /\ info = [n \in Names |-> NoInfo]
    /\ failed = {} /\ unnoticed = {} /\ exit = 0

name == Head(todo)
fixture == FixtureOf(name, args)
Fault == faults < MaxFaults /\ faults' = faults + 1

\* Mutant: a program that failed ends with 0.
ExitZero(code) == pc' = "exited" /\ exit' = 0

Exit(code) == pc' = "exited" /\ exit' = code

\* main of the program the fixture belongs to; an unknown scenario is refused.
Main ==
    /\ pc = "exited"
    /\ runs < MaxRuns
    /\ runs' = runs + 1
    /\ \E t \in Targets :
          IF t \notin Names \cup {"all"}
          THEN Exit(1) /\ todo' = <<>>
          ELSE /\ todo' = IF t = "all" THEN ScenarioNames ELSE <<t>>
               /\ pc' = "create" /\ exit' = 0
    /\ side' = 0 /\ failed' = {} /\ unnoticed' = {}
    /\ src_size' = [s \in Sides |-> FALSE]
    /\ UNCHANGED <<faults, args, left, builder, fileVars>>

\* After WriteSSTable: gen_real_sstable ends at the first failure, the others
\* build the second table all the same and look at both.
Returned(success) ==
    /\ src_size' = [src_size EXCEPT ![side] = success]
    /\ \/ /\ name = "real" /\ ~success
          /\ Exit(1)
          /\ UNCHANGED <<side, todo, failed>>
       \/ /\ name /= "real" \/ success
          /\ side = 0
          /\ side' = 1 /\ pc' = "create"
          /\ UNCHANGED <<todo, failed, exit>>
       \/ /\ name /= "real" \/ success
          /\ side = 1
          /\ IF src_size[0] /\ success
             THEN /\ pc' = IF name = "real" THEN "readback" ELSE IF name = "gb" THEN "info" ELSE "memh"
                  /\ side' = 0
                  /\ UNCHANGED <<todo, failed, exit>>
             ELSE IF name = "gb"
             THEN Exit(1) /\ UNCHANGED <<side, todo, failed>>
             ELSE /\ failed' = failed \cup {name}
                  /\ side' = 0
                  /\ todo' = Tail(todo)
                  /\ UNCHANGED exit
                  /\ pc' = IF Len(todo) = 1 THEN "exited" ELSE "create"

CreateTable ==
    /\ pc = "create"
    /\ \/ /\ Fault
          /\ Returned(FALSE)
          /\ UNCHANGED <<left, builder, disk>>
       \/ /\ pc' = "add"
          /\ left' = fixture.src[side]
          /\ builder' = EmptyTable
          /\ disk' = [disk EXCEPT ![name][side] = [run |-> runs, blocks |-> <<>>]]
          /\ UNCHANGED <<faults, src_size, side, todo, failed, exit>>
    /\ UNCHANGED <<runs, args, memh, info, unnoticed>>

\* Once a write has failed, Add and Flush do nothing more.
WriteBlock ==
    /\ pc = "add"
    /\ left /= <<>>
    /\ left' = Tail(left)
    /\ \/ /\ builder' = IF builder.ok THEN AddBlock(fixture, builder, Head(left)) ELSE builder
          /\ UNCHANGED faults
       \/ Fault /\ builder' = [builder EXCEPT !.ok = FALSE]
    /\ UNCHANGED <<progVars, pc, side, src_size, fileVars, failed, unnoticed, exit>>

Finish ==
    /\ pc = "add"
    /\ left = <<>>
    /\ \/ /\ ~builder.ok
          /\ Returned(FALSE)
          /\ UNCHANGED faults
       \/ /\ builder.ok
          /\ Fault
          /\ Returned(FALSE)
       \/ /\ builder.ok
          /\ pc' = "close"
          /\ UNCHANGED <<faults, src_size, side, todo, failed, exit>>
    /\ UNCHANGED <<runs, args, left, builder, fileVars, unnoticed>>

\* The buffered rest of the file is written by Close, whose result only
\* gen_real_sstable looks at.
CloseTable ==
    /\ pc = "close"
    /\ \/ /\ disk' = [disk EXCEPT ![name][side].blocks = builder.written]
          /\ Returned(TRUE)
          /\ UNCHANGED <<faults, unnoticed>>
       \/ /\ Fault
          /\ Returned(name /= "real")
          /\ unnoticed' = IF name = "real" THEN unnoticed ELSE unnoticed \cup {name}
          /\ UNCHANGED disk
    /\ UNCHANGED <<runs, args, left, builder, memh, info>>

\* CountDataBlocks counts the records of both tables, -1 on an error.
ReadBack ==
    /\ pc = "readback"
    /\ \/ /\ IF \A s \in Sides : Records(disk[name][s].blocks) = Records(fixture.src[s])
             THEN pc' = "memh" /\ UNCHANGED exit
             ELSE Exit(1)
          /\ UNCHANGED faults
       \/ Fault /\ Exit(1)
    /\ UNCHANGED <<progVars, side, left, builder, src_size, fileVars, failed, unnoticed>>

\* WriteMemH looks at no result.
WriteMemH ==
    /\ pc = "memh"
    /\ \/ /\ memh' = [memh EXCEPT ![name][side] = disk[name][side].run]
          /\ UNCHANGED <<faults, unnoticed>>
       \/ /\ Fault
          /\ unnoticed' = unnoticed \cup {name}
          /\ UNCHANGED memh
    /\ side' = 1 - side
    /\ pc' = IF side = 1 THEN "info" ELSE "memh"
    /\ UNCHANGED <<progVars, left, builder, src_size, disk, info, failed, exit>>

InfoOf(f) ==
    [run |-> runs, records |-> [s \in Sides |-> Records(f.src[s])],
     pairs |-> IF Len(f.src[0]) > Len(f.src[1]) THEN Len(f.src[0]) ELSE Len(f.src[1]),
     merged |-> f.expected_merged, dropped |-> f.expected_dropped]

\* Mutant: the program does not stop after its last fixture.
WriteInfoAgain ==
    /\ pc = "info"
    /\ info' = [info EXCEPT ![name] = InfoOf(fixture)]
    /\ todo' = Tail(todo)
    /\ pc' = "create"
    /\ src_size' = [s \in Sides |-> FALSE]
    /\ UNCHANGED <<runs, args, faults, side, left, builder, disk, memh, failed, unnoticed, exit>>

\* An info file that cannot be opened is written to all the same: the
\* program dies.
WriteInfo ==
    /\ pc = "info"
    /\ \/ /\ info' = [info EXCEPT ![name] = InfoOf(fixture)]
          /\ todo' = Tail(todo)
          /\ pc' = IF Len(todo) = 1 THEN "exited" ELSE "create"
          /\ UNCHANGED <<faults, exit>>
       \/ /\ Fault
          /\ Exit(139)
          /\ UNCHANGED <<info, todo>>
    /\ src_size' = [s \in Sides |-> FALSE]
    /\ UNCHANGED <<runs, args, side, left, builder, disk, memh, failed, unnoticed>>

AllRun == pc = "exited" /\ runs = MaxRuns /\ UNCHANGED vars

Next ==
    \/ Main \/ CreateTable \/ WriteBlock \/ Finish \/ CloseTable
    \/ ReadBack \/ WriteMemH \/ WriteInfo \/ AllRun

Spec == Init /\ [][Next]_vars

-----------------------------------------------------------------------------
(* What the engine makes of two tables: the i-th data blocks of either are *)
(* merged with each other, and a key is kept once, from one pair to the    *)
(* next as well.                                                           *)

Keys(blk) == {blk[i].key : i \in 1..Len(blk)}
BlockOf(t, i) == IF i <= Len(t) THEN t[i] ELSE <<>>
PairCount(t0, t1) == IF Len(t0) > Len(t1) THEN Len(t0) ELSE Len(t1)
PairKeys(t0, t1, i) == Keys(BlockOf(t0, i)) \cup Keys(BlockOf(t1, i))
SeedKey(t0, t1, i) == {k \in PairKeys(t0, t1, i) : \A m \in PairKeys(t0, t1, i) : m <= k}

Kept(t0, t1) ==
    FoldLeft(LAMBDA n, i : n + Cardinality(PairKeys(t0, t1, i)
                                             \ (IF i = 1 THEN {} ELSE SeedKey(t0, t1, i - 1))),
             0, [i \in 1..PairCount(t0, t1) |-> i])

\* An upper bound of the bytes of an output block: no key is compressed.
OutputBytes(f, blk0, blk1) ==
    LET bytes(blk) == FoldLeft(LAMBDA n, r : n + 2 + VarintBytes(r.value) + KeyBytes(f) + r.value, 0, blk)
        n == Len(blk0) + Len(blk1)
    IN  bytes(blk0) + bytes(blk1) + 4 * (n \div RestartInterval + 1) + 4

-----------------------------------------------------------------------------
(* Properties.                                                             *)

\* Types; a program that is at work has a fixture in hand.
TypeOK ==
    /\ pc \in {"exited", "create", "add", "close", "readback", "memh", "info"}
    /\ pc /= "exited" => todo /= <<>>
    /\ side \in Sides /\ runs \in 0..MaxRuns /\ faults \in 0..MaxFaults
    /\ \A n \in Names : info[n].run <= runs

\* gen_real_sstable.cc:10-13, gen_real_sstable_scenarios.cc:139-140 and
\* gen_real_sstable_gb.cc:153: the counters written for the testbench are those
\* of the engine, which merges the tables as they lie on disk, block by block:
\* the builder has split no logical block, duplicates meet in the same pair,
\* and the version that is dropped is the older one, of source 1.
InfoMatchesMerge ==
    \A n \in Names \ unnoticed : info[n].run = runs /\ runs > 0 =>
        LET t0 == disk[n][0].blocks
            t1 == disk[n][1].blocks
        IN  /\ info[n].pairs = PairCount(t0, t1)
            /\ info[n].merged = Kept(t0, t1)
            /\ info[n].dropped = Records(t0) + Records(t1) - Kept(t0, t1)
            /\ \A i \in 1..PairCount(t0, t1) :
               \A x \in Range(BlockOf(t0, i)), y \in Range(BlockOf(t1, i)) :
                  x.key = y.key => x.seq > y.seq

\* gen_real_sstable_gb.cc:8-12 and gen_real_sstable_scenarios.cc:195-196: every
\* data block, every value and every pair's output fits the memories of the
\* engine the fixture is meant for.
WithinEngineLimits ==
    pc = "close" =>
        LET f == fixture
        IN  /\ \A i \in 1..Len(builder.written) :
                  /\ BlockBytes(f, builder.written[i]) <= Limits.block
                  /\ \A j \in 1..Len(builder.written[i]) : builder.written[i][j].value <= Limits.value
            /\ \A i \in 1..PairCount(f.src[0], f.src[1]) :
                  LET b0 == BlockOf(f.src[0], i)
                      b1 == BlockOf(f.src[1], i)
                  IN  /\ OutputBytes(f, b0, b1) <= Limits.output
                      /\ Len(b0) + Len(b1) <= Limits.records

\* When a program has ended with 0, what a testbench reads of each fixture it
\* did not report as failed belongs together: both tables whole and of this
\* run, and memory image and counters with them, whatever an earlier run that
\* broke off has left.
RunLeavesWholeFixture ==
    pc = "exited" /\ exit = 0 =>
        \A n \in Names \ (failed \cup unnoticed) :
            (\E s \in Sides : disk[n][s].run = runs) /\ runs > 0 =>
                /\ info[n].run = runs
                /\ \A s \in Sides :
                      /\ disk[n][s].run = runs
                      /\ FlattenSeq(disk[n][s].blocks) = FlattenSeq(FixtureOf(n, args).src[s])
                      /\ n = "gb" \/ memh[n][s] = runs
=============================================================================
