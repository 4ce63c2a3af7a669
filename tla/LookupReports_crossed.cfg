SPECIFICATION Spec
CONSTANTS
    a = a
    b = b
    p = p
    q = q
    x = x
    y = y
    Nobody = Nobody
    Runs <- TwoRuns
    Processes <- TwoProcesses
    Hosts <- Apart
    Plots <- OnePlot
    Options <- LocalBasic
    Versions <- TwoVersions
    MaxLookups = 1
    MaxSwitches = 1
    MaxFaults = 0
INVARIANTS
    OnePlanningVersion
CHECK_DEADLOCK FALSE
