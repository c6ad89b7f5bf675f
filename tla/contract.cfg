SPECIFICATION Spec
CONSTANTS
    p1 = p1
    None = None
    Request = {q1, q2, q3}
    Sweep = {s1}
    Visitor = {v1}
    Pair = {p1}
    PairOf <- OnePair
    BatchSize = 2
    Faults = {"crash", "db", "reset", "stall"}
    MaxFaults = 1
SYMMETRY Symmetry
INVARIANTS
    TypeOK
    UniqueActive
    CompletedMeansMailed
    LostOnlyByCompensation
    OwnSuccessIsServed
    PromisesHold
PROPERTIES
    ConfirmedIsNeverDeleted
    ImplementsLifecycle
CHECK_DEADLOCK FALSE
