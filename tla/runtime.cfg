SPECIFICATION FairSpec
CONSTANTS
    None = None
    MaxFaults = 4
INVARIANTS
    OneSubscription
    TasksFinishFirst
    DoneMeansQuiet
PROPERTIES
    ConsumptionReturns
    ShutdownEnds
CHECK_DEADLOCK FALSE
