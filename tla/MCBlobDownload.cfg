SPECIFICATION FairSpec
CONSTANTS
    None = None
    Pulls = {p1, p2}
    NumParts = 2
    PartSize = 2
    MaxRetries = 2
    MayLeave = {p1}
    MaxFaults = 1
    MaxCrashes = 1
INVARIANTS
    TypeOK
    OneWriter
    NoHoles
    ProgressExact
    AbandonedIsCancelled
PROPERTIES
    ProgressKept
    StartedPullEnds
