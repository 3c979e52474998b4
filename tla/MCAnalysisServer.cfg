SPECIFICATION Spec
CONSTANTS
    None = None
    Missing = None
    Features = {"cod", "ph"}
    Defaults <- MCDefaults
    ForecastCompany = 7
    Lookback = 3
    MaxSteps = 2
    MaxForecastWindow = 3
    MaxHorizon = 2
    MaxCleanWindow = 4
    MaxThreshold = 3
    MinBins = 2
    MaxBins = 3
    GroupLimit = 2
    ForecastRowLimit = 5
    ClassificationRowLimit = 6
    MaxPreview = 2
    PreviewLimit = 2
    ChartLimit = 3
    Messages <- MCMessages
    FirstMessages <- MCFirstMessages
    StoresFor <- MCStoresFor
    FollowUps <- MCFollowUps
    Predictions <- MCPredictions
    MaxMessages = 3
INVARIANTS
    ForecastIsReference
    CleaningIsReference
    DistributionAddsUp
    RowsAreInScope
    FailuresAreExplained
    SavedVersionsAreUsable
CHECK_DEADLOCK FALSE
