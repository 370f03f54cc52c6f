\* One gun and two firing tasks, a close alarm that may be lost, a failing DAC bus
\* and an unlocked killAll(): the supervisor alone is the backstop.
SPECIFICATION Spec
CONSTANTS
    NumGuns = 1
    Callers = {"pattern", "test"}
    TestCallers = {"test"}
    Codes <- MCCodes
    SafeCode = "safe"
    Unknown = "unknown"
    WriteAttempts = 1
    BusMayFail = TRUE
    Versions = {1}
    PickOf <- MCPickOf1
    HoldOf <- MCHoldOf1
    OnTimes = {3}
    TickPeriod = 1
    CheckerPeriod = 2
    CheckerLate = 1
    WriteMax = 1
    AlarmSlack = 0
    TaskLate = 0
    SupervisorGrace = 1
    CheckerGrace = 3
    PickLimit = 2
    DecayStuck = 1
    DecayMax = 2
    DecayLowTicks = 2
    TickStall = 4
    StreakReset = 1
    TripStreakStop = 2
    Faults = {"alarmMissed"}
    Inputs = {"active", "testMode", "killAll", "fault"}
INVARIANTS
    TypeOK
    PickCurrentLimited
    DecayLimited
    In1OnlyWhileOpen
    RestingGunIsIsolated
