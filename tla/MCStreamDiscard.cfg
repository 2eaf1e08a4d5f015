\* The limit is longer than the lazy delay, as 5000 ms is than 300 ms.
SPECIFICATION FairSpec
CONSTANTS
    LazyDelay = 2
    Sessions = {s1, s2}
    IdleLimit = 4
    MaxData = 1
    Steps = {1, 3}
    None = None
INVARIANTS
    TypeOK
    OnlyOpenIsServed
    NoStrandedInput
    IdleWindow
    NoHastyTimeout
    HeardIsKept
PROPERTIES
    ClosedForGood
    SilentSessionsClose
