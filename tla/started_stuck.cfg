SPECIFICATION FairSpec
CONSTANTS
    p1 = p1
    None = None
    Request = {q1}
    Sweep = {s1}
    Visitor = {}
    Pair = {p1}
    PairOf <- OnePair
    BatchSize = 1
    Faults = {"crash"}
    MaxFaults = 1
PROPERTIES
    EverySagaSettles
CHECK_DEADLOCK FALSE
