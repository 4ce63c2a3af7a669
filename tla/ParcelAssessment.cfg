SPECIFICATION MCSpec
CONSTANTS
    i1 = i1
    i2 = i2
    i3 = i3
    Line <- FiveCells
    Ground <- Areas
    Modes <- AllModes
    Databases <- AllDatabases
    Rows <- ManyRows
    Listings <- ManyListings
    Sources <- SomeSources
    SmallArea = 10
    Identities <- AllIdentities
    Snapshots <- TwoSnapshots
    Nowhere = Nowhere
    Lands <- SomeLands
    Selections <- SomeSelections
    Tolerances <- SmallGaps
INVARIANTS
    AreaIsSound
    LabelsAreEarned
    AnswerIsHonest
    ReadyIsOneSite
    MeasuresAddUp
    BundleIsWhole
CHECK_DEADLOCK FALSE
