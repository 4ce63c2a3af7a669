CONSTANTS
    p1 = p1
    v1 = v1
    v2 = v2
    Layers <- TwoLayers
    ObjectIds <- OneId
    Payloads <- TwoVersions
    Jobs <- FullOnly
    Operators <- OneOperator
    NoFeature = NoFeature
    NoSnapshot = NoSnapshot
    NotRecorded = NotRecorded
    BatchSize = 1
    MaxSnapshots = 2
    MaxActivations = 1
    MaxEdits = 1
    MaxFaults = 1
SPECIFICATION FairSpec
PROPERTIES
    DriftedBuildAbandoned
CHECK_DEADLOCK FALSE
