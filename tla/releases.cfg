SPECIFICATION Spec
CONSTANTS
    None = None
    r1 = r1
    r2 = r2
    u1 = u1
    Replica = {h1, h2}
    Scan = {s1, s2}
    Repository = {r1}
    Subscription = {u1, u2}
    RepoOf <- OneRepository
    MaxTag = 2
    ChunkSize = 2
    Attempts = 1
    Faults = {"crash", "db", "github", "broker"}
    MaxFaults = 1
SYMMETRY Symmetry
INVARIANTS
    Reached
    RepeatsHaveReason
PROPERTIES
    ProgressIsKept
CHECK_DEADLOCK FALSE
