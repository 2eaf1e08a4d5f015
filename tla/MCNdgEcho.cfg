\* Nginx's handlers may declare no length, or a length that is not 0.
SPECIFICATION Spec
CONSTANTS
    FilterModules = {ndg, other}
    Writer = writer
    NoFilter = none
    Ndg = ndg
    Footers = {0, 5}
    Messages = {0, 2}
    Arguments = {0, 3}
    Bodies = {0, 2}
    PageSize = 7
    WithFooter = {}
CHECK_DEADLOCK FALSE
INVARIANTS
    FooterCloses
PROPERTIES
    WellFramed
    Answered
