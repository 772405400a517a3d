SPECIFICATION Spec
CONSTANTS
    a = a
    b = b
    Tokens = {a, b}
    None = None
    Layers <- AttentionOnly
    MaxInput = 4
    MaxOutput = 1
    MaxRequests = 3
    ChunkSize = 2
    Interval = 2
    PreThinking = 1
    MaxPaged = 1
INVARIANTS
    LazyIntact
