SPECIFICATION Spec
CONSTANTS
    Empty = empty
    Unset = unset
    Default = default
    MaxDirectives = 2
    Uris = {a, b}
    Texts = {"", "x"}
    Days = 2
    None = none
    NoValue = novalue
    Workers = {w1, w2}
    Segments = {s1, s2}
    Sizes = {1, 3}
    Least = 2
    Total = 2
SYMMETRY Alike
CHECK_DEADLOCK FALSE
INVARIANTS Effective Fresh Counted
