SPECIFICATION FairSpec
CONSTANTS
    None = None
    p1 = p1
    p2 = p2
    p3 = p3
    r1 = r1
    r2 = r2
    Pushes = {p1, p2, p3}
    Repo <- OfThree
    NumParts = 2
    MaxRetries = 2
    Mounts = {p2}
    MayLeave = {p1}
    MaxFaults = 1
INVARIANTS
    ProgressExact
    BlobArrives
PROPERTIES
    PushEnds
CHECK_DEADLOCK FALSE
