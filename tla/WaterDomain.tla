---------------------------- MODULE WaterDomain ----------------------------
(***************************************************************************)
(* The limits and defaults of the domain headers, shared by the modules of  *)
(* the request path.  In the program they are literals.                     *)
(***************************************************************************)
EXTENDS Integers

CONSTANTS
    Missing,                \* std::nullopt, a NULL cell of the database
    Features,               \* kClassificationFeatures
    Defaults,               \* per kind of request, the default of each optional field
    ForecastCompany,        \* 7, the only company of the forecast task
    Lookback,               \* kForecastLookback = 120 input steps
    MaxSteps,               \* kForecastHorizon = 10 predicted steps
    MaxForecastWindow,      \* 1440
    MaxHorizon,             \* 120
    MaxCleanWindow,         \* 500
    MaxThreshold,           \* 20
    MinBins, MaxBins,       \* 5 and 100
    GroupLimit,             \* kClassificationGroupLimit = 32
    ForecastRowLimit,       \* kForecastDataRowLimit = 100000
    ClassificationRowLimit, \* kClassificationRowLimit = 50000
    MaxPreview,             \* 50 rows of an overview
    PreviewLimit,           \* 50 rows before and after an operation
    ChartLimit              \* kForecastDataChartLimit = kClassificationChartLimit = 300

ASSUME DomainAssumption ==
    /\ Missing \notin Int
    /\ Features # {}
    /\ {ForecastCompany, Lookback, MaxSteps, MaxForecastWindow, MaxHorizon,
        MaxCleanWindow, MaxThreshold, MinBins, MaxBins, GroupLimit,
        ForecastRowLimit, ClassificationRowLimit, MaxPreview, PreviewLimit,
        ChartLimit} \subseteq Nat \ {0}
    /\ MinBins <= MaxBins
    /\ ChartLimit > 1
===========================================================================
