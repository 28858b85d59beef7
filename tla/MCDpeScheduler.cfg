SPECIFICATION Spec
CONSTANTS
    Services <- TwoServices
    TaskCount = 2
    Output <- OutputOfTask
    Prepared <- NoService
    WideIds <- NoTasks
    Loss = TRUE
    Slow = TRUE
    Faults = FALSE
    MaxInitSends = 2
    MaxJobs = 1
INVARIANTS
    TasksAreAccounted
    DoTaskFindsIdleDevice
CHECK_DEADLOCK FALSE
