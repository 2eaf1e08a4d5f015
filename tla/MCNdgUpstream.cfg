SPECIFICATION Spec
CONSTANTS
    Peers = {p1, p2}
    None = none
    Methods = {"GET", "POST"}
    Args <- MCArgs
    Answers <- MCAnswers
    NoHeader = nothing
CHECK_DEADLOCK FALSE
INVARIANTS
    CountHolds
    Relayed
    AskedOnce
    CrashNeedsDraw
