SPECIFICATION Spec
CONSTANTS
    None = None
    a = a
    b = b
    d = d
    q1 = q1
    q2 = q2
    q3 = q3
    Models = {a, b, d}
    Requests = {q1, q2, q3}
    ModelOf <- MCThreeModels
    OptsOf <- MCSameOpts
    KeepAliveOf <- MCThreeKeeps
    DefaultKeepAlive = "finite"
    NameRank <- MCNameRank
    MLX = {b}
    AutoCtx = {q3}
    HasGPU = TRUE
    MaxRunners = 3
    MaxQueue = 5
    RefMod = 8
    MayCancel = {q1}
    MaxExpires = 0
    MaxCrashes = 0
    MayShutdown = TRUE
INVARIANTS
    LoadSlotFree
    NoOrphanServer
