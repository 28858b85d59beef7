SPECIFICATION FairSpec
CONSTANTS
    TaskQueue <- TwoTasks
    Clients <- TwoClients
    WorkerId <- SameMachine
    Answer <- AnswerOfTask
    MaxTaskCount = 2
    MaxStarts = 1
    DiskFaults = FALSE
    Processes <- One
    Process <- AllOne
    BatchSize <- FixedAndAdaptive
    Faults = FALSE
INVARIANT RunningTasksAreReported
CHECK_DEADLOCK FALSE
