\* A lazy delay that does not hide a reset: the deadline is the wrapper's doing.
SPECIFICATION FairSpec
CONSTANTS
    LazyDelay = 1
    Sessions = {s1, s2}
    Wait = 3
    Steps = {1, 2}
    None = None
INVARIANTS
    TypeOK
    NoStrandedOutput
    OnlyOpenIsServed
    HardDeadline
    OkMeansSent
PROPERTIES
    EverySessionEnds
