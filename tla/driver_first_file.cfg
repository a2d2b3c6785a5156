SPECIFICATION Spec
CONSTANTS
    Callers = {c1}
    MaxCalls = 1
    Apis = {"RunOffload"}
    SourceFiles <- OneSourceFile
    OutputSizes <- MCOutputSizes
    MAX_SSTABLES = 2
    kMaxSstables = 3
    MaxSrcBytes = 1
    DstBytes = 10
    kDmaChunk = 2
    Alignment = 2
    MagicBytes = 2
    Faults = {}
    NoJob = NoJob
INVARIANTS
    OkIsWholeOutput
