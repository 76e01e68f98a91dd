CONSTANTS
    TapMax = 2
    DoubleWindow = 2
    TripleWindow = 3
    LongPress = 4
    ForceReboot = 6
    Cooldown = 1
    Settle = 1
    Repeat = 1
    Gaps <- MCGaps
    Grips <- MCGrips
SPECIFICATION FairSpec
INVARIANTS
    TypeOK
    LongPressIsHeldAtFirst
    NoTapAfterSlideOrHold
PROPERTIES
    TapsAreConsecutive
    EscapeHatch
CHECK_DEADLOCK FALSE
