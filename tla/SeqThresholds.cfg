\* One gun and its DAC over configuration changes, aborts and an unlocked
\* killAll(): a threshold that is not on the converter is on its way.
SPECIFICATION Spec
CONSTANTS
    NumGuns = 1
    Callers = {"pattern"}
    TestCallers = {}
    Codes <- MCCodes
    SafeCode = "safe"
    Unknown = "unknown"
    WriteAttempts = 1
    BusMayFail = FALSE
    Versions = {1, 2}
    PickOf <- MCPickOf
    HoldOf <- MCHoldOf
    OnTimes = {2}
    TickPeriod = 1
    CheckerPeriod = 2
    CheckerLate = 1
    WriteMax = 1
    AlarmSlack = 0
    TaskLate = 0
    SupervisorGrace = 1
    CheckerGrace = 3
    PickLimit = 1
    DecayStuck = 1
    DecayMax = 2
    DecayLowTicks = 1
    TickStall = 4
    StreakReset = 0
    TripStreakStop = 2
    Faults = {}
    Inputs = {"active", "config", "abort", "killAll"}
INVARIANTS
    ThresholdOnItsWay
    ConfirmedIsOnChip
