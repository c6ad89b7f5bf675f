SPECIFICATION Spec
CONSTANTS
    None = None
    Command = {m1}
    Malformed = {}
    Replied = {}
    Worker = {w1, w2}
    MaxAttempts = 2
    Faults = {"crash"}
    MaxFaults = 1
SYMMETRY Symmetry
INVARIANTS
    AcknowledgedIsMailed
CHECK_DEADLOCK FALSE
