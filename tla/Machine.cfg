\* A gun with a line test and one with a dots test, a watchdog that trips after two silent passes.
SPECIFICATION MCSpec
CONSTANTS
    NumGuns = 2
    Timeout = 2
    Overlap = 2
    SlowCommands = FALSE
    Kind <- LineAndDots
INVARIANTS
    TypeOK
    ModesExclude
    TestHasDeadline
    StopsHold
    NeverRunsUnattended
    NoSheetSwallowed
    CalibrationGoesOn
PROPERTIES
    TripsOnSilence
