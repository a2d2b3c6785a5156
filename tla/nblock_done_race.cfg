SPECIFICATION Spec
CONSTANTS
    Pairs = {2}
    BlockBeats = {2}
    PipeBeats = 2
    BurstBeats = 2
    MaxBlockPairs = 3
    NoSplit = NoSplit
    SplitThresholds = {NoSplit}
    TailBeats = 1
    MemBeats = 20
    MaxRuns = 1
INVARIANTS
    AssembledAfterLastWrite
