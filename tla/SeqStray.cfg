\* One gun whose IN1 pin is disturbed, a lost close alarm and a supervisor tick
\* that may stop: what must happen in the end.
SPECIFICATION FairSpec
CONSTANTS
    NumGuns = 1
    Callers = {"pattern"}
    TestCallers = {}
    Codes <- MCSafeOnly
    SafeCode = "safe"
    Unknown = "unknown"
    WriteAttempts = 1
    BusMayFail = FALSE
    Versions = {1}
    PickOf <- MCAllSafe
    HoldOf <- MCAllSafe
    OnTimes = {2}
    TickPeriod = 1
    CheckerPeriod = 2
    CheckerLate = 0
    WriteMax = 0
    AlarmSlack = 0
    TaskLate = 0
    SupervisorGrace = 1
    CheckerGrace = 2
    PickLimit = 1
    DecayStuck = 1
    DecayMax = 1
    DecayLowTicks = 1
    TickStall = 2
    StreakReset = 0
    TripStreakStop = 2
    Faults = {"in1Glitch", "alarmMissed", "tickStall"}
    Inputs = {"active", "checker"}
PROPERTIES
    StrayIn1GoesLow
    TripStreakStopsMachine
