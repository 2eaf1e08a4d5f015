SPECIFICATION Spec
CONSTANTS
    Main = main
    Sub = sub
    Keys = {k1, k2}
    Nalloc = 2
    Arrays = {a, b}
    Values = {x, y}
    MaxRoom = 4
    Chains = {c1, c2, c3}
    MaxLinks = 5
    Queues = {q1, q2}
    Nodes = {1, 2, 3}
    MaxBlocks = 3
    MaxCalls = 5
    None = none
SYMMETRY Alike
CHECK_DEADLOCK FALSE
INVARIANTS OwnKept VisitSees NoneTwice
