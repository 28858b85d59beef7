SPECIFICATION FairSpec
CONSTANTS
    Services <- OneService
    TaskCount = 3
    Output <- OutputOfTask
    Prepared <- NoService
    WideIds <- LastTaskOnly
    Loss = TRUE
    Slow = FALSE
    Faults = TRUE
    MaxInitSends = 2
    MaxJobs = 2
INVARIANTS
    ResultsAreRight
    SinkGetsEveryResult
PROPERTIES
    DevicesClose
    JobEndsUnlessItWaits
CHECK_DEADLOCK FALSE
