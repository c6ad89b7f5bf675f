SPECIFICATION FairSpec
CONSTANTS
    p1 = p1
    None = None
    Request = {q1, q2}
    Sweep = {s1, s2}
    Visitor = {}
    Pair = {p1}
    PairOf <- OnePair
    BatchSize = 1
    Faults = {"crash", "db", "reset"}
    MaxFaults = 2
INVARIANTS
    CompensatedMeansSettled
PROPERTIES
    DispatchedSettles
    EveryRequestEnds
CHECK_DEADLOCK FALSE
