SPECIFICATION Spec
CONSTANTS
    Inputs <- SingleRecord
    HdrFifoDepth = 2
    NoKey = NoKey
    MaxRuns = 1
INVARIANTS
    PairMerged
