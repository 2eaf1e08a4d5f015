\* A body declared to be empty, with ndg_footer configured.
SPECIFICATION Spec
CONSTANTS
    FilterModules = {ndg, other}
    Writer = writer
    NoFilter = none
    Ndg = ndg
    Footers = {0, 5}
    Messages = {0, 2}
    Arguments = {0, 3}
    Bodies = {0, 2}
    PageSize = 7
    WithFooter = {"empty"}
CHECK_DEADLOCK FALSE
INVARIANTS
    DeclaredIsSent
