CONSTANTS
    Ssids = {a, b}
    First = a
    NoSsid = noSsid
    NoFile = noFile
    MaxNetworks = 2
    RetryMax = 2
    WsFailLimit = 1
    Faults = {"config", "portal", "write", "rename"}
    Refusals = {"cred", "absent"}
    MaxUpsets = 2
SPECIFICATION MCSpec
INVARIANTS
    TypeOK
    ListSurvives
    MarkedIsLinked
    BackoffIsUndisturbed
PROPERTIES
    RetriesInFull
    SearchInOrder
    SearchEnds
CHECK_DEADLOCK FALSE
