SPECIFICATION Spec
CONSTANTS
    Targets = {"real", "gb", "all", "asym_real", "none"}
    GbArgs <- MCGbArgs
    MaxRuns = 2
    MaxFaults = 1
    Limits <- MCLimits
INVARIANTS
    TypeOK
    InfoMatchesMerge
    WithinEngineLimits
    RunLeavesWholeFixture
