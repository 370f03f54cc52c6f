\* One gun, one pattern at a time: stops, faults, tests and refused drops between
\* any two steps of the pattern task.
SPECIFICATION FairSpec
CONSTANTS
    NumGuns = 1
    Versions = {1}
    Shape <- MCShape
    OffsetOf <- MCOffsetOf
    PulseMod = 8
    QueueDepth = 2
    SheetGap = 1
    LagMax = 1
    AgeMax = 2
    Bursts = FALSE
    Inputs = {"stop", "fault", "test", "dacFails"}
INVARIANTS
    TypeOK
    LineEndsOnTime
    NoLineBehindGate
PROPERTIES
    PositionClosesLinesOnly
    SheetsLeave
