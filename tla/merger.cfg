SPECIFICATION FairSpec
CONSTANTS
    Inputs <- MCInputs
    HdrFifoDepth = 2
    NoKey = NoKey
    MaxRuns = 2
INVARIANTS
    TypeOK
    PairMerged
    FileMerged
    NoBadRecordMerged
PROPERTIES
    MergeEnds
