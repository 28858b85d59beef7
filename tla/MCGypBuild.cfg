CONSTANTS
    Projects <- AllProjects
    Dir <- Directories
SPECIFICATION Spec
CHECK_DEADLOCK FALSE
INVARIANTS
    DependenciesComeFirst
    CyclesAreFound
    SettingsReachTheirTargets
    AdjustedDependenciesAreSafe
    OneProducer
    EverythingCanBeMade
    FinishedBuildIsComplete
    RebuildIsAsGoodAsClean
    AnalysisCoversChanges
PROPERTIES
    ReadsFilesThatExist
