CONSTANTS
    Grace = 1
    Faults = {}
    Resets = FALSE
SPECIFICATION FairSpec
PROPERTY UnpluggedReleasesLock
