CONSTANTS
    b1 = b1
    b2 = b2
    p1 = p1
    p2 = p2
    good = good
    better = better
    degenerate = degenerate
    broken = broken
    Builders <- TwoBuilders
    Operators <- OneOperator
    ObjectIds <- OneId
    Payloads <- AllPayloads
    Usable <- UsablePayloads
    WellFormed <- ProperPayloads
    NoFeature = NoFeature
    NoSnapshot = NoSnapshot
    NotRecorded = NotRecorded
    BatchSize = 1
    MaxSnapshots = 1
    MaxActivations = 2
    MaxEdits = 1
    MaxFaults = 1
SPECIFICATION Spec
PROPERTIES
    FinalizedImmutable
CHECK_DEADLOCK FALSE
