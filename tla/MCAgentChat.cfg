SPECIFICATION FairSpec
CONSTANTS
    Scopes = {"shell"}
    Batches <- MCBatches
    KeepTurns = 1
    MaxRounds = 1
    EventCap = 1
    MaxRuns = 2
    MaxCalls = 2
    MaxOdd = 1
CHECK_DEADLOCK FALSE
INVARIANTS
    TypeOK
    CallsAnswered
    LiveIsHistory
PROPERTIES
    Consented
    EarlierTurnsKept
    RunEnds
