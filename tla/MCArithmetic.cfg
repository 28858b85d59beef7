SPECIFICATION Spec
CONSTANTS
    ExpectedTime = 3
    TotalTimes <- Times
    Firsts <- SmallFirsts
    Lasts <- SmallLasts
    BlockSizes <- SmallBlocks
    MaxIds = 4
INVARIANTS
    BatchFitsTime
    BatchUsesTime
    EveryPointOnce
