SPECIFICATION FairSpec
CONSTANTS
    None = None
    r1 = r1
    r2 = r2
    u1 = u1
    Replica = {h1}
    Scan = {s1}
    Repository = {r1, r2}
    Subscription = {u1, u2}
    RepoOf <- TwoRepositories
    MaxTag = 1
    ChunkSize = 1
    Attempts = 2
    Faults = {"crash", "db", "github", "broker"}
    MaxFaults = 2
PROPERTIES
    Announced
CHECK_DEADLOCK FALSE
