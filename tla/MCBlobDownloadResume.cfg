SPECIFICATION Spec
CONSTANTS
    None = None
    Pulls = {p1, p2}
    NumParts = 2
    PartSize = 2
    MaxRetries = 2
    MayLeave = {}
    MaxFaults = 0
    MaxCrashes = 1
INVARIANTS
    InterruptedPullResumes
