SPECIFICATION FairSpec
CONSTANTS
    Runner = {r1, r2, r3}
    Files = 5
    MaxFaults = 2
INVARIANTS
    AppliedOnce
    AppliedInOrder
    OkMeansComplete
    RaceHasWinner
PROPERTIES
    RunnersEnd
CHECK_DEADLOCK FALSE
