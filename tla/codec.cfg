SPECIFICATION FairSpec
CONSTANTS
    WordBytes = 4
    FixedBytes = 2
    Radix = 8
    MaxBlockBytes = 48
    MaxKeyBytes = 8
    KeyBufBytes = 8
    RestartInterval = 2
    VarintBytes = 3
    RestartGuard = 8
    Inputs <- AllInputs
    BeatBytes = 16
    BurstBeats = 2
    HandleBytes = 12
    Magic <- MCMagic
    Earlier <- Files
    Damages <- AllDamages
    PausesAnywhere = FALSE
INVARIANTS
    TypeOK
    EncodesBlock
    TailReadable
    DeliversRecords
    DamageReported
PROPERTY CodecEnds
CHECK_DEADLOCK FALSE
