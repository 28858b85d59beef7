SPECIFICATION FairSpec
CONSTANTS
    TaskQueue <- ThreeTasks
    Clients <- TwoClients
    WorkerId <- OwnMachine
    Answer <- AnswerOfTask
    MaxTaskCount = 2
    MaxStarts = 1
    DiskFaults = FALSE
    Processes <- TwoClients
    Process <- Identity
    BatchSize <- FixedAndAdaptive
    Faults = FALSE
PROPERTY JobEnds
CHECK_DEADLOCK FALSE
