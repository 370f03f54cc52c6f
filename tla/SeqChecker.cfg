\* One gun; the close alarm may be lost and the supervisor tick may stop: the
\* Core 0 checker is the last resort.
SPECIFICATION Spec
CONSTANTS
    NumGuns = 1
    Callers = {"pattern"}
    TestCallers = {}
    Codes <- MCCodes
    SafeCode = "safe"
    Unknown = "unknown"
    WriteAttempts = 1
    BusMayFail = FALSE
    Versions = {1}
    PickOf <- MCPickOf1
    HoldOf <- MCHoldOf1
    OnTimes = {1}
    TickPeriod = 1
    CheckerPeriod = 2
    CheckerLate = 3
    WriteMax = 0
    AlarmSlack = 0
    TaskLate = 0
    SupervisorGrace = 1
    CheckerGrace = 3
    PickLimit = 1
    DecayStuck = 1
    DecayMax = 1
    DecayLowTicks = 1
    TickStall = 3
    StreakReset = 0
    TripStreakStop = 2
    Faults = {"alarmMissed", "tickStall"}
    Inputs = {"active", "checker"}
INVARIANTS
    ClosedInTime
PROPERTIES
    RestartOnlyIfStalled
