# A TLA+ model of the LevelDB compaction offload engine

The repository holds an FPGA engine that merges two LevelDB SSTables and writes
the result as one or more new SSTables, the host driver that feeds it, and the
programs that make its test tables. This directory models the control of all three in TLA+,
checks the models with TLC and proves theorems about the descriptor stream, the n-block engine, the merger,
the block encoder, the assembler, the register block and the driver with TLAPS.

Paths: `rtl_v2/` is `src/leveldb_compaction_offload/organized/rtl_v2/`, `driver/`
is `src/leveldb_compaction_offload/driver/`, `sim/` is
`src/leveldb_compaction_offload/organized/sim/integration/`.

## The system

A compaction runs like this. The driver (`driver/compaction_offload.cc`) reads two
SSTable files, copies them to card memory by DMA (`driver/xdma_access.cc`), pulses *clear*,
programs the registers of `cmpct_top`, pulses *start* and polls STATUS. `cmpct_top` takes commands and
configuration from the AXI-Lite clock to the engine's and results back. In the engine
(`cmpct_engine`) two parsers walk the index blocks of the SSTables and stream
block handles; the matcher zips the two streams into descriptor pairs. The n-block
engine (`cmpct_nblock_engine`) takes a pair, starts the pair chain
(`cmpct_pair_chain`: two block decoders, merger, block encoder, trailer and CRC, packers, AXI write
engine) on it and, when the encoder has finished, starts the front of the chain on the next
pair while the write engine still drains the previous block. After the last block of a
file the assembler appends index block, metaindex block and footer. The driver reads the
number and sizes of the files and copies them back. Three programs under `sim/` write
pairs of SSTables with LevelDB's own builder, and what the engine is expected to count on them.

| Component | State it keeps | Operations | Hard behaviour | What makes it correct |
|---|---|---|---|---|
| SSTable parser | FSM state, handle index, handle_valid, all_handles_done, read error | clear, start, footer, restart count, entry, push | back-pressure in mid-entry, read error, empty index, stale levels after an abort | each handle offered once, in order, none beyond the index |
| Descriptor matcher | captured handles, latched done flags, descriptor register | gather, present, hand over | two producers of unequal length and speed; the last flag must be known before the pair is shown | pairs are the padded zip of the two lists; last flag exact |
| Engine top FSM | ts, busy/done/error, clear and start pulses | clear, start, wait | error, done and abort in any order | done only for a complete run |
| N-block engine | current and prefetched descriptor, offsets, block count, pending write completions, split state | pop, start, wait, record, pipeline restart, split, assemble | encoder and writer one pair apart; completions counted by one bit; split at a limit | every block where its index entry says, each pair once, errors reported |
| Pair chain, AXI write engine | pipe contents, write start, burst address, sticky error | start on first beat, burst, response | live destination address; errors between two blocks | see above |
| Block decoder | capture buffer, parse position, previous key, restart array | capture, parse, emit, scan restarts | parses what is still being captured; banked memory with latency; where the entries end is known last | the records of the block; damage reported |
| Merger | two record buffers, early-taken headers, end-of-source flags, previous user key | wait, capture, compare, emit, drop | early header take racing the end of a source; duplicate keys across pairs | newest record of every key, in order |
| Block encoder | two key buffers, prefix state, restart offsets, output word | receive key, write lengths, key, value, restart array | word-wise prefix compare against a double buffer, output stalls, full block | LevelDB's block of the records; last key shown at the end |
| Assembler | block metadata, layout counters, checksum, byte register | compute length, index entries, metaindex, footer, wait for writes | registers of one byte and one beat that stall; key memory with latency; late write errors | a reader finds every block from the footer |
| cmpct_top | register file, STATUS, toggle synchronizers, array read FSM | AXI-Lite read and write, clock crossing | toggles that overtake or cancel; words that cross without a handshake | a command reaches the engine once and with its configuration, a status or result is never stale |
| Host driver, XDMA access | descriptors, transfer loop, per-call buffers, output file; fixed areas on the card | open, DMA, program, start, poll, read back, write | partial transfers, every call failing, time-out of a run that goes on | OK only with this call's output; nothing leaked; every call returns |
| Fixture generators | builder, files on disk | add, flush, finish, close, convert, write expectations | the builder's own flushes; a failure between two files; files of an earlier run | tables and expectations fit each other and the engine |

Components share state only through the card memory (sources, destination), the wires of
one clock domain (a register written by one module is read by another one cycle
later), the registers of `cmpct_top` and, for the generators, the directory they write to.

## Modules

| Module | Models |
|---|---|
| `SSTableParser` | `rtl_v2/cmpct_sstable_parser_v2.v`, one step per clock edge; lemma about one edge |
| `DescMatcher` | `rtl_v2/cmpct_desc_matcher.v`; lemma about one edge |
| `PairStream` | abstract specification: the padded zip of two handle lists, each pair once |
| `CompactionEngine` | `rtl_v2/cmpct_engine.v`: two parsers, the matcher and the top FSM composed; the n-block engine as a consumer that takes descriptors when it likes and may fail |
| `CompactionEngineProofs` | inductive invariant and theorems about `CompactionEngine` |
| `NBlockEngine` | `rtl_v2/cmpct_nblock_engine.v`, the output side of `cmpct_pair_chain.v`, `axi_write_engine` of `cmpct_infra.v` in TLAST_STOP mode, the assembler reduced to its effect |
| `NBlockEngineProofs` | inductive invariant and theorems about `NBlockEngine` |
| `Merger` | `rtl_v2/cmpct_merger.v`, header FIFOs and end-of-source latches of `cmpct_pair_chain.v`, the seed key of `cmpct_nblock_engine.v` |
| `MergerProofs` | inductive invariants and theorems about `Merger` |
| `BlockFormat` | reference definition of LevelDB's data block, with scaled sizes |
| `BlockEncoder` | `rtl_v2/cmpct_block_encoder.v`, one action per hand-shake |
| `BlockDecoder` | `rtl_v2/cmpct_block_decoder.v`, one step per clock edge of capture, banks and parser; the source pipe as a stream of words with a short first one |
| `Assembler` | `rtl_v2/cmpct_assembler_v2.v`, `stream_pack_adapter` and `axi_write_engine` (counting mode) of `cmpct_infra.v`; a reader of the finished table as reference |
| `BlockCodec` | encoder, assembler and decoder composed: a block is encoded, filed and read back by a later compaction, intact or damaged |
| `BlockCodecProofs` | inductive invariants and theorems about the encoder and the assembler in `BlockCodec`; lemmas about the operators of `BlockFormat` |
| `RegisterBlock` | `rtl_v2/cmpct_top.v` with its two clocks, driven by the register accesses of the driver; the engine behind it as a run that ends or not |
| `RegisterBlockProofs` | inductive invariant and theorems about `RegisterBlock` |
| `OffloadDriver` | `driver/compaction_offload.cc`, `driver/xdma_access.cc`, one step per system call; the card as the driver sees it |
| `OffloadDriverProofs` | inductive invariants and theorems about `OffloadDriver` |
| `Fixtures` | `sim/gen_real_sstable.cc`, `gen_real_sstable_scenarios.cc`, `gen_real_sstable_gb.cc`; LevelDB's TableBuilder from how they use it |
| `MC...` | constants for TLC |

The hardware modules are synchronous: all registers change on the same edge, each computed
from the values before it. A step (`Tick`) of a composition is therefore the
conjunction of one clock edge of every module. What is nondeterministic are the
inputs of that edge: whether memory delivers or answers in this cycle or fails,
whether a command pulse comes, whether a variable-length stage
has its next item ready. `Stall`-like disjuncts stand for the cycles in between.
`RegisterBlock` has two clocks and a step is an edge of one of them. A signal that is sampled in the step right after
it changed may be caught in the change: a toggle is then taken as old or new, a word as `Torn`. `BlockEncoder` is a chain of hand-shakes without a deadline, so each is an
action that waits. In `OffloadDriver` the step is one system call, and callers and card interleave.

Data is reduced to what the properties tell apart. Handles are numbers, 0 the padding. In `NBlockEngine` data
blocks are a number and a length in 64-byte beats (all offsets are rounded to 64
bytes in the code, so beats lose nothing); destination memory records which beat
of which block of which run was last written to each address. In `Merger` records are a user key, a tag and
whether the header passes its length checks. In the codec modules bytes are bytes, in a format scaled down so that a
block of some dozens of bytes has every case of one of 4 KB (see Bounds). In `OffloadDriver` a byte is where it comes from:
a position of a source of a call, or of an output made from known sources and a known configuration.
In `RegisterBlock` configuration and results are the number of the call they belong to. In `Fixtures` a key is the number
that is printed into it and a value its length.
`emitted`, `files`, `enc_of`, `write_failed`, `rejected`, `unnoticed` and `outcome` are
history variables; nothing reads them but the properties.

Definitions preceded by a comment `Mutant:` are plausible faulty variants of the
definition that follows. They are used by no specification; each shows that a property
notices the fault.

## Runs

Passing runs:

| Run | Checks | Bounds |
|---|---|---|
| `engine` | types; `PairsMatchIndexes`, `LastFlagExact`, `DoneAfterAllPairs`, `DoneOnlyFromRun`, refinement `DeliversPairs`, liveness `RunEnds` | SSTables with one and two blocks, a rejected index and a too short table, on either side; three command pulses: start, an abort or a second start, and a restart |
| `nblock` | types; `AssembledAfterWritten`, `FilesIntact`, `EveryPairOnce`, `WriteErrorReported`, liveness `RunEnds` | four pairs, blocks of three or four beats, a pipe of one beat, bursts of two, a limit of three blocks per file, splitting on and off: prefetch, pipelined restart and both reasons to split all occur; two runs, the first ended in any way, clear in any cycle |
| `merger` | types; `PairMerged`, `FileMerged`, `NoBadRecordMerged`, liveness `MergeEnds` | all one-pair inputs over two keys and two versions per source, two-pair inputs in internal key order, malformed headers, header FIFOs of two, a restart at any time |
| `codec` | types; `EncodesBlock`, `TailReadable`, `DeliversRecords`, `DamageReported`, liveness `CodecEnds` | 163 lists of up to five records (prefixes within, at and beyond a word, equal keys, empty and long values, one to three restarts, four lists that do not fit), as only or third block of a file, memory that stalls or rejects any burst, ten kinds of damage, every alignment of the stream |
| `registers` | types; `StartsConfigured`, `StatusIsOwn`, `ResultsCoherent`, `ClearTakesEffect`, liveness `AnswersArrive` | three calls (every toggle goes up, down and up), two array entries, clocks at any ratio, each run ended with done, error or given up |
| `driver` | types; `OkIsOwnOutput`, `ReadBackExact`, `SourcesLoaded`, `DescriptorsClosed`, liveness `CallReturns` | one caller, two calls through either entry point, sources that fill, half fill and exceed their area, up to four output files on and off the alignment, transfers in chunks of two that move any part, all failures, an engine that may fail or never answer; size array shorter than the accepted count, as on the card (8 and 16) |
| `fixtures` | types; `InfoMatchesMerge`, `WithinEngineLimits`, `RunLeavesWholeFixture` | the fixtures in their real size but for the number of blocks of the board fixture (2 and 3 for 200), two program runs in one directory, one failing call |

Bounds. Two index lengths on each side give equal, longer and shorter partners; the theorems
below remove this bound. Four pairs are enough to have a pair in every role (first,
pipelined, prefetched, behind a split, last). The passing n-block run keeps blocks longer
than the pipe between encoder and write engine, which is the normal case on the card (about 17
beats of pipe, 64 beats for a 4 KB block); what happens to shorter ones is shown by
`nblock_done_race`. The passing merger run keeps to inputs where a block of source 1 is
not a single record (`merger_single_record`) and where the key ranges of the pairs are aligned.

The codec modules scale the format: a word has 4 bytes for 8, a restart offset 2 for 4, a varint digit is below 8 for 128, so
that lengths take one to three digits, a beat has 16 bytes for 64, the footer 12 + 2 for 40 + 8 (so that, as in the code,
metaindex < footer < beat), the checksum one byte for four, RESTART_GUARD is 8, MAX_BLOCK_BYTES 48 and the restart interval 2.
In the passing run the source stream pauses only within blocks whose keys and values are whole words, and index entries before the last one
end elsewhere than behind the first byte of a beat; `decoder_stale_word` and `assembler_repeated_byte` show why. Keys
reach the limit of the decoder, which in that run is also the size of the encoder's buffers (`KeysFit`). The
settle of `registers` is twelve alternations of the clocks for the driver's 10 ms, about a million cycles: more only makes it longer.
`driver` has one caller because two break `OkIsOwnOutput` (below).

Fairness. The hardware runs are under weak fairness of the tick in which every input is
served: clocks do not stop, the AXI memory answers every burst, FIFOs drain. No
fairness is assumed of commands, faults or the order of answers. In `Merger` the start of the next
pair, done by the n-block FSM, is weakly fair too; in `BlockCodec` also the hand-shakes of the encoder and the starts of assembler and decoder.
In `RegisterBlock` both clocks keep running and the bus master completes its accesses; no ratio of the clocks is assumed, and the engine owes no end.
In `OffloadDriver` a caller's next system call and the passing of its deadline are weakly fair, and a
repeated DMA request some time moves a byte or fails, which is what the kernel's driver does (the loop itself has no limit, `xdma_access.cc:73`);
the engine owes nothing. `RunEnds` of
`CompactionEngine` excludes runs whose read engine failed: the entry states of the parser do
not look at `rd_error`, so such a run is ended only by the driver's time-out (`CallReturns`). `Fixtures` has no fairness and no liveness property: its
programs are straight lines.

Deadlock is checked in every run but the three of `BlockCodec`, whose scenario ends.

## Disagreements between code and documentation

Each of these has a run that TLC ends with a counterexample.

* `nblock_done_race`: `wr_done` of the previous pair in the cycle of the last pair's `enc_done` sets
  `wr_done_pending` (`cmpct_nblock_engine.v:742`) and clears `pipeline_wr_pending`; WAIT_LAST takes it for the last block's
  completion. The assembler starts with the last block in the pipe.
* `merger_single_record`: CAPTURE0 tests `source_done_seen1` but not `prefetched1` (`cmpct_merger.v:627`); a
  header taken early, the only one of its source, is never used and the record is lost.
* `driver_first_file`: the engine closes a file at MAX_BLOCK_PAIRS blocks even with `max_file_size` 0
  (`cmpct_nblock_engine.v:746`); `RunOffload` writes the first file and returns OK (`compaction_offload.cc:293`), where
  `driver/README.md:70` promises a fall-back to software.
* `assembler_repeated_byte`: ST_ENT_NEXT goes on to ST_META_FETCH with the entry's last byte possibly still in the register, and
  ST_META_FETCH (`cmpct_assembler_v2.v:407`) does not look at `byte_tready`. If the byte before filled a beat, the packer
  takes the byte in that cycle and again in the next. With prompt memory this hits every index entry but the file's last
  that ends one byte behind a 64-byte border.
* `decoder_stale_word`: for a partial final word the decoder goes on once its bytes are captured, but the bank read is
  only issued with eight captured bytes (`cmpct_block_decoder.v:853`); if the stream pauses there, the previous word is emitted.

Met while modelling and left without a run:

* *N-block engine.* `current_dst_base_addr` (`cmpct_nblock_engine.v:221`) is a live function of `running_offset`; a block of a single
  beat is written behind the place recorded for it. A write error that comes in PIPE_RESTART or POP is cleared by the next start of the write engine
  (`cmpct_infra.v:618`) and the run ends in done; this needs a block that fits into the pipe.
* *Pairing.* Blocks are paired by position: with block boundaries at different keys the output is not in key order, which
  `test_board_integration.cc:313` requires; a seed key drops the next pair's record of the same key even if it is newer.
  `cmpct_engine.v:8-9` gives the number of pairs as the smaller handle count, the matcher pads up to the greater one.
* *Driver.* `compaction_offload.h:49` calls it thread-safe after the initial SetConfig; two concurrent calls share the card without a lock and return
  each other's data as OK. Results of `WriteReg` are ignored, so a call may return OK with a run that its writes did not reach; `WriteFile` leaves a
  truncated file when it fails, where `compaction_offload.h:72-73` says that it is left unwritten. The board top is built with 8 output files, the driver accepts 16.
* *Registers.* CTRL bits are described as self-clearing (`cmpct_top.v:9`) but keep their value. An array word and the toggle that announces it pass
  the same number of flip-flops (`cmpct_top.v:721`), so a torn word is not excluded.
* *Decoder.* A block longer than MAX_BLOCK_BYTES stops the stream at the full buffer, and the overflow that `cmpct_block_decoder.v:368` says is caught
  is never seen; the driver's time-out ends the run. An entry that runs into the restart array is rejected only if the capture has ended by then (line 826). RESTART_GUARD covers blocks
  with a restart interval of about six or more.
* *Encoder.* `STATUS.md:152` gives 64 bytes as the longest user key, and decoder and merger are built for internal keys of 72 (`cmpct_top.v:55-57`), but
  the encoder has key buffers of 64 (`cmpct_top.v:65`, `cmpct_pair_chain.v:1170`) and stores at `recv_idx` without a check
  (`cmpct_block_encoder.v:448`): a user key of 57 to 64 bytes loses the end of its internal key, and no error is reported. The model has the case: with `MaxKeyBytes` 12,
  `KeyBufBytes` 8 (a word less, as in the code) and a key of 12 bytes TLC finds `EncodesBlock` violated. A byte stored behind the buffer is lost there and reads as unknown, which is Verilog's rule;
  memory as synthesized may wrap and damage the front of the key too. The limit of the block is tested before each word but not for the restart array, so a block may be longer than a decoder takes. ST_WRITE_VARINTS_OVF would take the wrong byte
  if key and length widths made it reachable.
* *Assembler.* A key of length 0 would not end ST_ENT_KEY before its counter wraps; internal keys have at least eight bytes.
* *Generators.* `gen_real_sstable.cc:26` speaks of restart interval 2, line 135 sets 16, and line 293 prints a limit of 8 pairs where the engine has 32;
  `gen_real_sstable_scenarios.cc:17-18` speaks of 75 % duplicates and values up to 900 bytes, the code makes 16 of 24 and 350 to 430; its `main` returns 0
  after a failed scenario (lines 316 and 361). `gen_real_sstable_gb --vsize 64` makes the builder flush by itself, after which `expected_pairs` is wrong; sequence numbers `100000 - idx` wrap
  for more than 100000 records.

## Theorems

Seven components have theorems that hold for every value of the constants.

| Module | Theorem | States | Assumes |
|---|---|---|---|
| `CompactionEngineProofs` | `TypeCorrect` | `Spec => []TypeOK` | |
| | `PairsCorrect` | `Spec => []PairsMatchIndexes` | |
| | `LastFlagCorrect` | `Spec => []LastFlagExact` | |
| | `DoneCorrect` | `Spec => []DoneAfterAllPairs` | |
| | `DoneRisesInRun` | `Spec => DoneOnlyFromRun` | |
| | `ImplementsPairStream` | `Spec => DeliversPairs`: the composition implements `PairStream` | |
| `NBlockEngineProofs` | `PairsCorrect` | `Spec => []EveryPairOnce` | |
| | `TypeCorrect` | `Spec => []TypeOK` | `OutputFits`, `LongBlocks` |
| | `AssembledCorrect` | `Spec => []AssembledAfterWritten` | `OutputFits`, `LongBlocks` |
| | `FilesCorrect` | `Spec => []FilesIntact` | `OutputFits`, `LongBlocks` |
| | `FailureCorrect` | `Spec => []WriteErrorReported` | `OutputFits`, `LongBlocks` |
| `MergerProofs` | `TypeCorrect` | `Spec => []TypeOK` | |
| | `BadRecordCorrect` | `Spec => []NoBadRecordMerged` | |
| | `PairCorrect` | `Spec => []PairMerged` | `MergeInputs` |
| | `FileCorrect` | `Spec => []FileMerged` | `MergeInputs` |
| `BlockCodecProofs` | `EncoderWritesBlock` | `Spec => []EncodesBlock` | `KeysFit` |
| | `EncoderIndexKey` | `Spec => []IndexKeyIsLast` | `KeysFit` |
| | `AssemblerSeesRejection` | `Spec => []NoneRejected`, a part of `TailReadable` | `KeysFit` |
| | `AssemblerWritesBehindData` | `Spec => []TailBehindData`, a part of `TailReadable` | `KeysFit` |
| `RegisterBlockProofs` | `TypeCorrect` | `Spec => []TypeOK` | `LongSettle` |
| | `StartCorrect` | `Spec => []StartsConfigured` | `LongSettle` |
| | `StatusCorrect` | `Spec => []StatusIsOwn` | `LongSettle` |
| | `ResultsCorrect` | `Spec => []ResultsCoherent` | `LongSettle` |
| | `ClearCorrect` | `Spec => []ClearTakesEffect` | `LongSettle` |
| `OffloadDriverProofs` | `DescriptorsCorrect` | `Spec => []DescriptorsClosed` | |
| | `TypeCorrect` | `Spec => []TypeOK` | `OneCaller` |
| | `SourcesCorrect` | `Spec => []SourcesLoaded` | `OneCaller` |
| | `ReadBackCorrect` | `Spec => []ReadBackExact` | `OneCaller` |
| | `OwnOutputCorrect` | `Spec => []OkIsOwnOutput` | `OneCaller` |

Besides, each module states the types of its constants in an `ASSUME` that TLC evaluates in every run. Those of `OffloadDriver` that say more than a
type: a file is at least as long as the magic number at its end, the file size limit for a source is not zero, and the output
fits into the destination area (`OutputsFit`; the engine has no check of its own). `EncoderAssumption` says of the lists of records that none is empty
(the merger starts the encoder with a record), that keys are within the limit of decoder and merger and not empty (internal keys have at least eight bytes) and that the three lengths
of an entry fit a word, which the widths of the registers imply; `EarlierAssumption`, that a filed block has its trailer.

### The descriptor stream

For every set of SSTables, of any index length, and any number of commands. None of the properties is inductive: that the next descriptor is the right one depends on
how many handles each parser has given away, which depends on what the matcher has captured. The invariant `IInv`
therefore ties the three together. For a side *s* of the matcher, while its parser runs, the parser's handle index is
the number N of pairs handed over, plus one if the side is captured, but at most the
length of the list (`SideInv`); a captured side holds the handle of position N+1 or the padding,
and padding only if the parser is known to be finished. `PulseInv` says that *start* only
reaches modules that *clear* has reset, so that N = 0 and the indexes agree when a run
begins; `TailInv` that the consumer is past the last descriptor only when N is the number of
pairs. The proof of a step uses a lemma about one edge of the parser (`ParserStep`) and one of the
matcher (`MatcherStep`), proved in their own modules for arbitrary inputs, and has one lemma per
conjunct of `IInv` (`TypeTick`, `PulseTick`, `MatchTick`, `PairsTick`, `TailTick`).

### The n-block engine

For any number of pairs, block sizes, burst length, pipe length, split threshold, index size and number of runs, with *clear*, *start*, encoder faults and
rejected bursts in any cycle.

`EveryPairOnce` needs the FSM only (`FsmType`, `PairInv`): from the files finished and the entries in the current index one reads off which pair is next
(`NextPair`); the descriptor register holds it, or it is about to be popped, and a prefetched descriptor is the one behind it. The encoder may be anything.

The other properties relate the FSM to blocks that are still on their way to memory, by the invariant `IInv`:

* `StreamOK` is its core. All blocks of a file form one stream of beats (`Stream`). The write engine has taken a prefix of it (`Taken`, defined by
  conservation: what was recorded and emitted less what is in pipe and beat register); that prefix lies in memory from the last
  recorded block on (`Stored`), the pipe and the beat register hold what follows, in order (`Carries`), and the write address belongs to the next beat (`Writing`).
  At any time the write engine is behind the start of the block that was recorded last, so that only one write completion is awaited; this is where a block longer than the pipe is needed.
* `PendingOK` then says what `pipeline_wr_pending` stands for, and that WAIT_LAST and WAIT_SPLIT are entered with neither a completion seen nor one owed from the block before.
* `MetaInv` and `FilesInv`: the index entries lie one behind the other, all but the last one in memory; finished files lie before `sst_base_offset`, and nothing in the
  path writes below it.
* `StaleInv`, `SettledInv`, `RunBeats`: what an aborted run left in the path until *clear* reaches it, and that the path is empty while the assembler writes.
* `FailInv`: a rejected burst stays visible in `wr_error` until the FSM looks at it; with long blocks the write engine is not started again before.
* `RoomInv` bounds offsets and index; `PulseInv`, `StartInv`, `ChainOK` fix which pulse goes with which state.

A step of the composition is the conjunction of one edge of every part, so the proof has first an effect lemma per part (`RecordEffect`, `PipeEffect`, `WriterEffect`,
`AsmEffect`, `MemEffect`, `EncoderEffect`, ...), then one lemma per conjunct of `IInv` (`PairStep`, `RoomStep`, `StreamStep`, `MetaStep`, ...); `TickIInv` puts them together.
TLC has checked `IInv` as an invariant on the instance of the run `nblock`.

Assumptions. `OutputFits`: for some bound on the size of a block, every pair of a run could have a file of its own within the destination buffer; the engine has no check
of its own and the driver sizes the buffer. `LongBlocks`: every block is more than one beat longer than the pipe, the normal case of 4 KB blocks. It cannot be dropped: `nblock_done_race` is a
counterexample to the conclusion without it. So the theorems say for which blocks the engine is correct, and leave the short blocks to the findings above. Both hold in the run `nblock`.

### The merger

For blocks of any length, any number of pairs, header FIFOs of any depth, any pauses of decoders and encoder, bad headers anywhere, and runs cut short in any cycle.

`NoBadRecordMerged` holds for all inputs and needs only the front end (`FrontInv`): decoder, FIFO and what the merger has taken make up the block, in order; while there is no
error all records taken are good; a merge ends only when both sources have nothing left. The merge itself is proved from four more conjuncts:

* `PhaseInv`: in every state a source has its record in the buffer, is known to be at its end, or is the one that is waited for. The only record ever taken early is the first one of source 1,
  during the first CAPTURE of source 0. So while records are compared and emitted nothing is taken, and the selection stays valid.
* `HeldInv`: the record registers hold the record taken last.
* `OutInv`: every used record is before every unused one, the output is the survivors of the used ones (`Survivors`, the reference definition) and `prev_user_key` is their last key or the seed.
  A kept record adds itself to the survivors (`KeepOne`), a dropped one changes nothing (`DropOne`).
* `FileInv`: the same for the pairs before this one, whose last key is the seed. `JoinPairs` is the fact behind the seed: merging two sets one after the other is
  the merge of the first and the seeded merge of the second.

Assumption. `MergeInputs`: each block is sorted as LevelDB sorts it, versions of one key have different sequence numbers, the records of a pair come before those of the next, and no block of source 1
has exactly one record. The last two cannot be dropped: blocks are paired by position (see *Pairing* above), and `merger_single_record` is a counterexample to the conclusion. TLC evaluates `MergeInputs` on the
inputs of the run `merger` and has checked the invariant on them.

### The encoder

Assumption. `KeysFit`: keys are not longer than the encoder's key buffer. The code does not see to it; as the top level is built it holds for user keys of up to 56 bytes, and what
longer ones meet is described above (*Encoder*).

For every such list of records and every choice of word, offset, varint, block and restart sizes, however merger and packer cut and stall. The invariant `EncInv` says in which sense a
half-written block is right:

* `OutInv`: what has left the encoder and its output register together (`Sent`) are the entries of the records that are through (`Ent`), followed, by state, by the lengths of the record in hand, the part of its key
  up to `block_copy_idx`, the part of its value up to `value_rem`, or the restart offsets up to `restart_emit_idx`; `block_write_index` is the length of all that.
* `PrevInv`, `KeyInv`: the buffer that `prev_buf_sel` marks holds the whole key of the last record that is through, the other one the received part of the current key.
* `MatchInv`: up to `recv_idx` the two keys agree in the first `shared_len` bytes (`Agrees`), and if a mismatch was found, differ in the next (`Parted`); at a restart point nothing is shared. This is
  what makes a prefix that is compared word by word, in words of any length, the longest common prefix of the format (`SharedFound`, `SharedBetween`).
* `RestartInv`: the offsets in `restart_offset_mem` are those of every restart interval's first record, and `entries_since_restart` counts the records since. `LengthInv`, `TailInv`: lengths are final and all records are through when the
  later states need it. `GivenUp`: after an error only that the output is a beginning of the block and the block does not fit.

The conjuncts need each other: `EncodesBlock` speaks of bytes, these come from a buffer at a prefix length, and that length is only right if the other buffer held the key before.

The reference block is made of recursive functions and folds (`varint`, `FlattenSeq`, `LongestCommonPrefix`). The provers cannot instantiate the library's induction theorems, so the facts about them are proved from
what defines them: that a function with the recursion's equations exists and is unique is shown by set induction (`SetInduction`, a set of numbers that has 0 and with n also n + 1; `VarintExists`, `FlattenFun`), and from it the equations themselves (`VarintDef`,
`FlattenAppend`). Of `^` the provers know nothing, so a digit of a fixed-width number is only known to be a `Symbol`; no property of the encoder needs more. `Str` and `Cat` stand for sequences of symbols and their concatenation, so that the proof of a step
treats concatenation by its laws (`CatAssoc`, `EmptyStr`, ...).

There is one lemma per action (`TakeRecordStep`, `RecvKeyStep`, ...); `NextEncInv` puts them together. TLC has checked `EncInv` on the lists of the run `codec`.

### The assembler

For any filed blocks, any sizes of beat, burst and magic, memory that stalls and rejects in any cycle. `AsmInv` relates the FSM and the write engine it starts:

* `Turns`: between two parts of the tail (`Between`) the engine is at rest; the start pulse finds it at rest; its done pulse means that it is. A write that is started is therefore never one that is lost.
* `RejectionHeld`: a rejected burst is still in the engine's error register, which the next start would clear, and the FSM has not left the part; so it is seen in ST_WR_WAIT, at the latest with the done pulse, and never a later part or DONE.
* `PartsBehind`, `BurstsBehind`: the next part starts behind the data and the parts before it; within a call the beats left suffice for the burst, so that burst addresses only grow.

FSM and engine have an effect lemma per state (`WrWaitEffect`, `EngineBEffect`, ...), then one lemma for each part of the invariant (`TickTurns`, `TickParts`, `TickBursts`). The invariant of the encoder enters at the start: the key and the size
that are filed are what the encoder leaves. The theorems hold also where `assembler_repeated_byte` shows the bytes of the tail to be wrong. TLC has checked `AsmInv` with two lists of records of the run `codec`.

### The register block

For any number of calls and array entries, and for any interleaving of the edges of the two clocks, coinciding ones included. What is on its way through the synchronizers decides every
property, so the invariant says for each chain what the flip-flops may hold:

* `CrossInv`: in the chains of start and clear a flip-flop has the toggle's new value only if those before it have it, so at most one change is in flight.
* `CfgInv`: wherever the start toggle has arrived, the configuration has arrived in the flip-flop of the same depth: it is written at least one register access earlier and crosses as fast.
* `ClearInv`, `SettleInv`: how far a clear has come after each alternation of the clocks. It has passed the crossing after seven, and answers of the run it stops have left the chains after ten.
* `WaitInv`: from the end of the settle until the next start nothing is on its way. `RunInv`: from then on every done or error on its way, and the count with it, is that of the run started last.
* `ArrayInv`: request and response toggle of the array read, the entry's index and its word are those of the access under way at each of their stages.
* `BusInv`, `ReadInv`: position of the driver, and what it has read so far.

The proof has lemmas about chains of flip-flops (`ShiftPair`, `ShiftTriple`, `Toggle`, ...), effect lemmas for an edge of each clock, and for each conjunct one lemma per clock (`...Axil`, `...Ui`).
Assumption. `LongSettle`: the settle lasts at least ten alternations of the clocks. That is the exact limit (TLC finds `ClearTakesEffect` violated with nine); the driver's 10 ms are
about a million cycles. TLC has checked the invariant with ten.

### The driver

For all sizes of sources and outputs, any limit on files, any split of the transfers, any failing call, any number of calls.
`DescriptorsClosed` is proved for any number of callers from what each call may hold at each step (`FdsInv`).

The others are for one caller, because the driver does not lock the card: with two, TLC finds a call that returns the other's data as OK (see above).
LevelDB has one background thread that compacts. The invariant follows the data around the loop:

* `SourceInv`: what was read of the source files, and which prefix of it is on the card, for the transfer under way (`addr`, `p` and `remaining` move together over partial transfers).
* `CommandInv`, `EngineInv`: unless a register write of the call was passed over, from the clear on the engine is at rest and STATUS empty, registers written so far are the call's, and
  a run that is polled has seen the call's sources; so a late end of a run that was given up is not taken for this one.
* `FilesInv`: if STATUS is done, the files lie at the running sum of aligned sizes, whole in memory. The engine rounds the sum, the driver adds up rounded sizes: `LayoutProperties` shows that both agree.
* `ReadInv`: buffers hold the bytes of their file up to the position of the transfer; earlier ones are full. `ScanFindsEnd` shows that the scan for the magic number from the end returns the whole length of such a buffer.

`FileBases` is a recursive function; what is needed of it for every length is proved by induction over the number of files (`SetInduction`, well-founded minimum of a set of numbers).
TLC has checked the invariant on the instance of the run `driver`.

### Only model-checked

All liveness properties (fairness and ENABLED are out of the prover's reach).

`BlockCodec`. `DeliversRecords` and `DamageReported`: lengths and restart offsets are decoded with powers of the radix, of which the provers have no facts, so not even that a decoded length is a number can be proved; `TypeOK` ranges
over the same registers of the decoder. The conjuncts of `TailReadable` about the contents of the tail: the reader is a chain of recursive functions over memory (`varintAt`, `entriesAt`, `FoldLeft` of the checksum) whose values on a
written tail need an induction for each, and some of what they state fails for index entries that end behind the first byte of a beat (`assembler_repeated_byte`).

`Fixtures`. All four invariants: the builder is a fold of a LAMBDA over the records of a block, which the provers cannot expand, and the counts in the info files are folds over the tables. The programs have no unbounded parameter but
the board fixture's command line, so the run checks the other fixtures as they are.

The merger with single-record blocks in source 1, the driver with two callers and the engine with short blocks: the properties do not hold.

## Not modelled

* The AXI read engine, the byte packers of the chain, skip adapters and CRC streamers: byte-level plumbing, in the models a stream that may
  stall or fail. The zero-byte bypass of the source pipe (a padded descriptor) is an empty source in `Merger`. The merger's checks that a record's byte count agrees with its header are left
  out, because the decoders produce both.
* The AXI slave: a *clear* in mid-burst has no consequence for it here.
* Byte strobes, statistics registers and the interrupt of `cmpct_top`.
* The descriptor-table mode of the n-block engine (`USE_DESC_STREAM` 0), performance and record counters.
* Blocks beyond MAX_BLOCK_BYTES in the decoder; the usage text of the board fixture's generator.
* `cmpct_desc_dispatch.v`, `cmpct_merge_pipe`, `cmpct_merger_wrap_DEAD` (instantiated nowhere),
  `cmpct_assembler.v` and `cmpct_sstable_parser.v` (replaced by the `_v2` files that the scripts compile),
  `organized/src` and `rtl_v2/_archived` (earlier stages).

## Plan

What is left to do, in this order:

1. Theorems about the parts of `Fixtures` that need no fold: that files of different runs are never mixed.
2. A decoder whose decoded numbers are opaque, so that the capture side of `DeliversRecords` (no byte is read before it is captured) can be proved apart from the arithmetic.
3. `ReadEngine`: burst splitting and error of `axi_read_engine`, in front of parser and source pipe.
