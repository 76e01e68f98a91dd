CONSTANTS
    DimAfter = 1
    OffAfter = 2
    FadeSteps = 2
SPECIFICATION FairSpec
INVARIANTS
    TypeOK
    ScreenLockPaired
    StuckOnlyByRace
PROPERTIES
    HeldUnlessLeftover
    QuietGoesDark
    ProbeLights
