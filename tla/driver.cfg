SPECIFICATION FairSpec
CONSTANTS
    Callers = {c1}
    MaxCalls = 2
    Apis = {"RunOffload", "RunOffloadSplit"}
    SourceFiles <- MCSourceFiles
    OutputSizes <- MCOutputSizes
    MAX_SSTABLES = 2
    kMaxSstables = 3
    MaxSrcBytes = 3
    DstBytes = 10
    kDmaChunk = 2
    Alignment = 2
    MagicBytes = 2
    Faults <- AllFaults
    NoJob = NoJob
INVARIANTS
    TypeOK
    OkIsOwnOutput
    ReadBackExact
    SourcesLoaded
    DescriptorsClosed
PROPERTIES
    CallReturns
