SPECIFICATION Spec
CONSTANTS
    None = None
    a = a
    b = b
    d = d
    q1 = q1
    q2 = q2
    q3 = q3
    Models = {a, b}
    Requests = {q1, q2, q3}
    ModelOf <- MCModelOf
    OptsOf <- MCSameOpts
    KeepAliveOf <- MCKeepAlive
    DefaultKeepAlive = "finite"
    NameRank <- MCNameRank
    MLX = {}
    AutoCtx = {q1}
    HasGPU = TRUE
    MaxRunners = 1
    MaxQueue = 5
    RefMod = 8
    MayCancel = {}
    MaxExpires = 1
    MaxCrashes = 1
    MayShutdown = FALSE
INVARIANTS
    TypeOK
    MaxLoaded
    NoLostWakeup
    IdleHasTrigger
    RefCountExact
PROPERTIES
    AnsweredOnce
    UnloadSparesUsers
    ImplementsPool
