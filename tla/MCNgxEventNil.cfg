\* timeout(ngx_nil) with no regard to whether a timer is set.
SPECIFICATION ApiSpec
CONSTANTS
    LazyDelay = 3
    Timeouts = {1, 2, 5, 9}
    Turns = {1, 2, 4}
    NilOnlyIfArmed = FALSE
INVARIANTS
    CancelledStaysOff
