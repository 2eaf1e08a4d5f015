SPECIFICATION TestSpec
CONSTANTS
    LazyDelay = 2
    TimerEvents = {e1, e2, e3, e4}
    timer_call = timer_call
    Funcs = {timer_call, g}
    First = 4
    Again = 2
    Delays <- AllDelays
    Steps = {1, 3}
    MaxRequests = 2
    MaxOthers = 1
    None = None
INVARIANTS
    TypeOK
    PoolIsIdle
    NothingLost
    PromisesInTree
    MadeIsPeak
    OneChainPerRequest
PROPERTIES
    FuncStableInUse
    PromiseKept
    ChainsNeverEnd
