CONSTANTS
    DimAfter = 1
    OffAfter = 2
    FadeSteps = 2
SPECIFICATION Spec
CONSTRAINT TakingTurns
PROPERTY HeldUntilOff
