\* A drop fired while the DAC task still writes the threshold of the last close.
SPECIFICATION Spec
CONSTANTS
    NumGuns = 1
    Callers = {"pattern"}
    TestCallers = {}
    Codes <- MCCodes
    SafeCode = "safe"
    Unknown = "unknown"
    WriteAttempts = 1
    BusMayFail = FALSE
    Versions = {1}
    PickOf <- MCPickOf1
    HoldOf <- MCHoldOf1
    OnTimes = {2}
    TickPeriod = 1
    CheckerPeriod = 2
    CheckerLate = 1
    WriteMax = 1
    AlarmSlack = 0
    TaskLate = 0
    SupervisorGrace = 1
    CheckerGrace = 3
    PickLimit = 1
    DecayStuck = 1
    DecayMax = 2
    DecayLowTicks = 1
    TickStall = 4
    StreakReset = 0
    TripStreakStop = 2
    Faults = {}
    Inputs = {"active"}
PROPERTIES
    OpensAgainstPick
