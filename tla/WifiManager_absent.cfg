CONSTANTS
    Ssids = {a, b}
    First = a
    NoSsid = noSsid
    NoFile = noFile
    MaxNetworks = 2
    RetryMax = 2
    WsFailLimit = 1
    Faults = {}
    Refusals = {"absent"}
    MaxUpsets = 1
SPECIFICATION MCSpec
PROPERTIES
    AbsentIsSkipped
CHECK_DEADLOCK FALSE
