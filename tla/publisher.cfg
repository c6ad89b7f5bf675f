SPECIFICATION FairSpec
CONSTANTS
    None = None
    Task = {t1, t2}
    MaxFaults = 3
INVARIANTS
    OneChannel
    PublishedFirst
    QuietUnlessFailed
PROPERTIES
    PublicationsEnd
CHECK_DEADLOCK FALSE
