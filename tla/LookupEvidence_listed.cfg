SPECIFICATION MCSpec
CONSTANTS
    Requests <- SomeRequests
    Slots <- FewSlots
    MaxAttempts = 2
    Modes <- AllModes
    Stores <- AllStores
    Layers <- SomeLayers
    Measures <- Shares
    Grounds <- SomeGrounds
    Sliver = 1
    RoadProbes <- TwoProbes
    PlotProbes <- OneProbe
    Roads <- SomeRoads
    Plots <- SomePlots
    Reach = 2
    SharedAtLeast = 1
    Tolerance = 1
    Profiles <- AllProfiles
    SourceModes <- AllModes
    Snapshots <- SomeSnapshots
    StandardLayers <- SomeStandard
    FullLayers <- SomeFull
    ConditionalLayers <- SomeConditional
    Trigger <- SomeTrigger
    Situations <- SomeSituations
    InnerBand = 29
    OuterBand = 30
INVARIANT
    ListedIsNotClear
CHECK_DEADLOCK FALSE
