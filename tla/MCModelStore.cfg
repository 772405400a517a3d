SPECIFICATION Spec
CONSTANTS
    m1 = m1
    m2 = m2
    w1 = w1
    w2 = w2
    l1 = l1
    l2 = l2
    c1 = c1
    c2 = c2
    Names = {m1, m2}
    Blobs = {l1, l2, c1, c2}
    Contents <- Variants
    Stores <- Starts
    Writers = {w1, w2}
    Absent = Absent
    Torn = Torn
    MaxOps = 2
    MaxLists = 1
    MaxCrashes = 1
    MaxEvents = 3
SYMMETRY Symmetry
INVARIANTS
    TypeOK
    ListExact
PROPERTIES
    KeepsBlobs
    FetchedIsVerified
