SPECIFICATION Spec
CONSTANTS
    None = None
    p1 = p1
    p2 = p2
    p3 = p3
    r1 = r1
    r2 = r2
    Pushes = {p1, p2}
    Repo <- OfTwo
    NumParts = 2
    MaxRetries = 2
    Mounts = {}
    MayLeave = {p1, p2}
    MaxFaults = 0
INVARIANTS
    RunSetsErr
CHECK_DEADLOCK FALSE
