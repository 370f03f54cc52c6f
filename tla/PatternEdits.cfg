\* One gun whose pattern and photocell offset are edited at every step of a round.
SPECIFICATION Spec
CONSTANTS
    NumGuns = 1
    Versions = {1, 2}
    Shape <- MCShape
    OffsetOf <- MCOffsetOf
    PulseMod = 8
    QueueDepth = 2
    SheetGap = 1
    LagMax = 1
    AgeMax = 2
    Bursts = FALSE
    Inputs = {}
INVARIANTS
    DueIsWatched
PROPERTIES
    NeverEarly
    PlanSpec
