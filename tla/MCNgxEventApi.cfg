\* The contract of NgxEvent::timeout for callers that cancel only armed timers.
SPECIFICATION ApiSpec
CONSTANTS
    LazyDelay = 3
    Timeouts = {1, 2, 5, 9}
    Turns = {1, 2, 4}
    NilOnlyIfArmed = TRUE
INVARIANTS
    TimerFollowsCalls
