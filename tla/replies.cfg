SPECIFICATION FairSpec
CONSTANTS
    None = None
    g1 = g1
    Saga = {g1}
    Reply = {m1, m2, m3}
    Useless = {m3}
    Succeeded = {m1}
    SagaOf <- OneSaga
    Worker = {w1, w2}
    MaxAttempts = 1
    Faults = {"crash", "channel", "db", "broker"}
    MaxFaults = 2
INVARIANTS
    OneCompensator
    DoneMeansEffect
PROPERTIES
    ImplementsLifecycle
    RepliesEnd
CHECK_DEADLOCK FALSE
