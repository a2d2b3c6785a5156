SPECIFICATION FairSpec
CONSTANTS
    Tables <- MCTables
    MaxCommands = 3
INVARIANTS
    TypeOK
    PairsMatchIndexes
    LastFlagExact
    DoneAfterAllPairs
PROPERTIES
    DoneOnlyFromRun
    DeliversPairs
    RunEnds
