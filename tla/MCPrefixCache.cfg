SPECIFICATION Spec
CONSTANTS
    a = a
    b = b
    Tokens = {a, b}
    None = None
    Layers <- Hybrid
    MaxInput = 3
    MaxOutput = 1
    MaxRequests = 4
    ChunkSize = 2
    Interval = 2
    PreThinking = 1
    MaxPaged = 1
SYMMETRY Symmetry
INVARIANTS
    TypeOK
    TrieShape
    PathSpells
    BytesExact
    NoPanic
    RecFaithful
PROPERTIES
    KVStaysFaithful
    ContinuationKeepsLive
