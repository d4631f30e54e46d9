SPECIFICATION AlgorithmsSpec
CONSTANTS
    ByteBits = 2
    Bytes = 8
    TimeBits = 12
    CycleTimestamp = 288
    HighestTarget = 4095
    GenesisTarget = 3840
    Times <- CycleTimes
    Tx = {a, b}
    NullHash = null
    MaxLeaves = 8
    HeightBits = 16
    MaxHeight = 34
    ForkHeights = {2, 13}
INVARIANTS
    BitsAcceptable
    WorkIsQuotient
    RootIsLevelwise
    BranchLeadsToRoot
    RootStandsForOneList
    FlaggedOnlyIfDuplicated
    SkipPointsBack
    AncestorIsReached
    WalkIsShort
PROPERTY
    RetargetFollowsTime
CHECK_DEADLOCK FALSE
