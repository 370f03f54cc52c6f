\* Two guns, healthy alarm, everything the rest of the firmware may do between the
\* critical sections except time-outs.
SPECIFICATION Spec
CONSTANTS
    NumGuns = 2
    Callers = {"pattern"}
    TestCallers = {}
    Codes <- MCSafeOnly
    SafeCode = "safe"
    Unknown = "unknown"
    WriteAttempts = 1
    BusMayFail = FALSE
    Versions = {1}
    PickOf <- MCAllSafe
    HoldOf <- MCAllSafe
    OnTimes = {2}
    TickPeriod = 1
    CheckerPeriod = 2
    CheckerLate = 1
    WriteMax = 0
    AlarmSlack = 0
    TaskLate = 0
    SupervisorGrace = 1
    CheckerGrace = 3
    PickLimit = 1
    DecayStuck = 1
    DecayMax = 1
    DecayLowTicks = 1
    TickStall = 4
    StreakReset = 0
    TripStreakStop = 1
    Faults = {}
    Inputs = {"active", "abort"}
INVARIANTS
    AlarmCoversOpenGuns
PROPERTIES
    SafetyStopIsComplete
