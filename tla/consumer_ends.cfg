SPECIFICATION FairSpec
CONSTANTS
    None = None
    Command = {m1, m2}
    Malformed = {m2}
    Replied = {m1}
    Worker = {w1, w2}
    MaxAttempts = 2
    Faults = {"crash", "channel", "db", "broker"}
    MaxFaults = 2
PROPERTIES
    CommandEnds
CHECK_DEADLOCK FALSE
