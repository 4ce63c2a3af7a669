CONSTANTS
    p1 = p1
    v1 = v1
    v2 = v2
    Layers <- TwoLayers
    ObjectIds <- TwoIds
    Payloads <- OneVersion
    Jobs <- FullAndRefresh
    Operators <- OneOperator
    NoFeature = NoFeature
    NoSnapshot = NoSnapshot
    NotRecorded = NotRecorded
    BatchSize = 1
    MaxSnapshots = 2
    MaxActivations = 2
    MaxEdits = 1
    MaxFaults = 1
SPECIFICATION FairSpec
INVARIANTS
    StoreIsSound
    RefreshOnlyTouchesItsLayers
PROPERTIES
    BuildsEnd
    KeepsPromise
CHECK_DEADLOCK FALSE
