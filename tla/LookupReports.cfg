SPECIFICATION MCSpec
CONSTANTS
    a = a
    b = b
    p = p
    q = q
    x = x
    y = y
    Nobody = Nobody
    Runs <- TwoRuns
    Processes <- TwoProcesses
    Hosts <- TogetherOrApart
    Plots <- OnePlot
    Options <- LiveAndAuto
    Versions <- TwoVersions
    MaxLookups = 2
    MaxSwitches = 1
    MaxFaults = 1
INVARIANTS
    TypeOK
    CachedIsComplete
    OneParcelVersion
    EveryLookupIsRegistered
PROPERTIES
    NothingIsLost
    LookupsEnd
CONSTRAINT FirstIsA
CHECK_DEADLOCK FALSE
