SPECIFICATION Spec
CONSTANTS
    Pages <- AllPages
    QuitRequests <- QuitPages
    Silent <- SilentPages
    MaxBacklog = 2
    MaxExits = 2
    MaxLate = 1
INVARIANTS
    AnswersAreRight
    WritesLiveResponse
    OrderlyStop
PROPERTY ExitGetsDone
CHECK_DEADLOCK FALSE
