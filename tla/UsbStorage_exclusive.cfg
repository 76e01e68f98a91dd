CONSTANTS
    Grace = 1
    Faults = {}
    Resets = FALSE
SPECIFICATION Spec
INVARIANT HostExclusive
