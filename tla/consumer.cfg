SPECIFICATION Spec
CONSTANTS
    None = None
    Command = {m1, m2, m3}
    Malformed = {m3}
    Replied = {m1}
    Worker = {w1, w2}
    MaxAttempts = 2
    Faults = {"crash", "channel", "db", "broker", "smtp", "stale"}
    MaxFaults = 3
SYMMETRY Symmetry
INVARIANTS
    OneConsumer
    SuccessIsTrue
    MailedOnce
    Accounted
    RetriesAreBounded
PROPERTIES
    KeepsContract
CHECK_DEADLOCK FALSE
