CONSTANTS
    b1 = b1
    b2 = b2
    p1 = p1
    p2 = p2
    good = good
    better = better
    degenerate = degenerate
    broken = broken
    Builders <- OneBuilder
    Operators <- OneOperator
    ObjectIds <- TwoIds
    Payloads <- AllPayloads
    Usable <- UsablePayloads
    WellFormed <- ProperPayloads
    NoFeature = NoFeature
    NoSnapshot = NoSnapshot
    NotRecorded = NotRecorded
    BatchSize = 1
    MaxSnapshots = 2
    MaxActivations = 3
    MaxEdits = 1
    MaxFaults = 2
SPECIFICATION AuditedSpec
INVARIANTS
    TypeOK
    PointersAgree
    FinalizedComplete
PROPERTIES
    AlarmsAreRaces
    InterruptedBuildFinishes
    FinalizedImmutable
    RollbackReturns
    KeepsPromise
CONSTRAINT OneFaultAudited
CHECK_DEADLOCK FALSE
