SPECIFICATION SysSpec
CONSTANTS
    TaskQueue <- ThreeTasks
    Clients <- TwoClients
    WorkerId <- SameMachine
    Answer <- AnswerOfTask
    MaxTaskCount = 2
    MaxStarts = 2
    DiskFaults = FALSE
    Processes <- One
    Process <- AllOne
    BatchSize <- BatchOfTwo
    Faults = TRUE
INVARIANTS
    FinishedJobIsSaved
    CountsComputingLoops
    BatchesAreRight
PROPERTY JobIsMaster
CHECK_DEADLOCK FALSE
