SPECIFICATION FairSpec
CONSTANTS
    Pairs = {4}
    BlockBeats = {3, 4}
    PipeBeats = 1
    BurstBeats = 2
    MaxBlockPairs = 3
    NoSplit = NoSplit
    SplitThresholds = {NoSplit, 3}
    TailBeats = 1
    MemBeats = 20
    MaxRuns = 2
INVARIANTS
    TypeOK
    AssembledAfterWritten
    FilesIntact
    EveryPairOnce
    WriteErrorReported
PROPERTIES
    RunEnds
