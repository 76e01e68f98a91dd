CONSTANTS
    Grace = 2
    Faults <- MCFaults
    Resets = TRUE
SPECIFICATION FairSpec
INVARIANTS
    TypeOK
    PmLockPaired
    PmLockOnlyInMode
    RepairSeesNoMount
    SerialPortBack
PROPERTIES
    UserDataSurvives
    VolumeComesBack
    BadVerdictIsRevised
    PluggedStaysAwake
