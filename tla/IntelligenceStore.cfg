CONSTANTS
    k1 = k1
    k2 = k2
    b1 = b1
    b2 = b2
    p1 = p1
    r1 = r1
    Plots <- TwoPlots
    SamplePlots <- OnePlot
    Scopes <- BothScopes
    ParcelIds <- OneSnapshot
    PlanningIds <- TwoSnapshots
    Builders <- TwoBuilders
    Operators <- OneOperator
    Readers <- OneReader
    Workers = 2
    RegistryFails = FALSE
    NoRecord = NoRecord
    NoBuild = NoBuild
    MaxBuilds = 2
    MaxActivations = 2
    MaxSwitches = 1
    MaxRevision = 1
    MaxFaults = 1
SPECIFICATION FairSpec
INVARIANTS
    BuildsAreConsistent
    PublishedIsComplete
    FactsMatchFingerprint
PROPERTIES
    DerivationFinishes
    AnswersAreCurrent
    KeepsPromise
CONSTRAINT Quiet
CHECK_DEADLOCK FALSE
