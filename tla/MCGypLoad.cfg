SPECIFICATION FairSpec
CONSTANTS
    GypFiles = {"a", "b", "c"}
    GypiFiles = {"i", "j"}
    BuildFiles = {"a", "c"}
    CmdIncludes <- OneInclude
    Workers = {"w1", "w2"}
    Disks <- SmallDisks
INVARIANTS
    PendingIsOutstanding
    LoadedIsReachable
PROPERTIES
    ImplementsBuildFileSet
    LoadingEnds
CHECK_DEADLOCK FALSE
