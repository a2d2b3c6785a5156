SPECIFICATION FairSpec
CONSTANTS
    MaxCalls = 3
    Entries = 2
    SettleEdges = 12
    Torn = Torn
INVARIANTS
    TypeOK
    StartsConfigured
    StatusIsOwn
    ResultsCoherent
    ClearTakesEffect
PROPERTIES
    AnswersArrive
