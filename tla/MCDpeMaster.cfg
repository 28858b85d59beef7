SPECIFICATION Spec
CONSTANTS
    TaskQueue <- TwoTasks
    Clients <- TwoClients
    WorkerId <- OwnMachine
    Answer <- AnswerOfTask
    MaxTaskCount = 2
    MaxStarts = 2
    DiskFaults = TRUE
INVARIANTS
    StatusMatchesQueues
    SolverToldOnce
    RunningHasOneOwner
    SavedResultsAreRight
PROPERTY CheckpointSpec
CHECK_DEADLOCK FALSE
